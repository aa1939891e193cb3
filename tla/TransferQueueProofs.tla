------------------------ MODULE TransferQueueProofs ------------------------
(***************************************************************************)
(* Proofs about TransferQueue, for any jobs, servers, workers and bounds.  *)
(***************************************************************************)
EXTENDS TransferQueue, TLAPS

\* The places in which a worker has a job, running or not.
HasJob == Running \cup {"claim", "decide", "backoff"}

\* What the place of a worker says of its locals and of its updater.
Locals ==
    /\ ~up => \A w \in Worker : pc[w] = "off"
    /\ \A w \in Worker :
          /\ pc[w] \in HasJob => cur[w] \in Job
          /\ pc[w] \in Running => att[w] \in 1..MaxAttempts
          /\ pc[w] = "record" => out[w] \in Outcome
          /\ upd[w] # "off" => pc[w] \in Running

-----------------------------------------------------------------------------
(* The repository's statements keep rows well typed and within budget.     *)

InBudget(row) ==
    row \in Row /\ (row.status \in {"absent", "queued"} => row.attempts < MaxAttempts)

\* AttemptBudget with the rows not yet inserted, which makes it inductive.
Budgets == \A j \in Job : InBudget(jobs[j])

TypeInv == TypeOK /\ Budgets /\ Locals

LEMMA ZeroBound == 0 \in 0..MaxAttempts
BY QueueAssumption

\* claim, the only statement that counts attempts, finds one left.
LEMMA ClaimRowType ==
    ASSUME NEW row, InBudget(row), CanClaim(row)
    PROVE  /\ InBudget(ClaimRow(row))
           /\ ClaimRow(row).status = "connecting"
           /\ row.attempts + 1 \in 1..MaxAttempts
<1>1. row \in Row /\ row.attempts \in 0..MaxAttempts /\ row.attempts < MaxAttempts
  BY DEF InBudget, CanClaim, Row
<1>2. row.attempts + 1 \in 0..MaxAttempts /\ row.attempts + 1 \in 1..MaxAttempts
  BY <1>1, QueueAssumption
<1>3. "connecting" \in Status /\ "none" \in Failure \cup {"none", "interrupted"}
  BY DEF Status, Phase
<1>4. ClaimRow(row) \in Row
  BY <1>1, <1>2, <1>3, Zenon DEF ClaimRow, Row
<1>5. ClaimRow(row).status = "connecting"
  BY <1>1 DEF ClaimRow, Row
<1> QED  BY <1>2, <1>4, <1>5 DEF InBudget

\* The statements of the updater and of the end of an attempt.
LEMMA UpdateRowType ==
    ASSUME NEW row, InBudget(row)
    PROVE  /\ \A a \in 0..MaxAttempts : InBudget(SetExecution(row, a))
           /\ \A p \in Phase : InBudget(UpdateProgress(row, p))
           /\ \A o \in Outcome : InBudget(FinishRow(row, o))
           /\ InBudget(RecoverRow(row))
<1> DEFINE n == row.attempts
<1>0. row \in Row /\ n \in 0..MaxAttempts
  BY DEF InBudget, Row
<1>1. ASSUME NEW a \in 0..MaxAttempts PROVE InBudget(SetExecution(row, a))
  BY <1>0 DEF InBudget, SetExecution, Row
<1>2. ASSUME NEW p \in Phase PROVE InBudget(UpdateProgress(row, p))
  BY <1>0 DEF InBudget, UpdateProgress, Row, Status, Phase
<1>3. ASSUME NEW o \in Outcome PROVE InBudget(FinishRow(row, o))
  <2>1. StatusOf(o) \in Terminal
    BY DEF StatusOf, Terminal
  <2>2. (IF o = "ok" THEN "none" ELSE o) \in Failure \cup {"none", "interrupted"}
    BY DEF Outcome, Failure
  <2>3. StatusOf(o) \in Status /\ (o \in Retryable) \in BOOLEAN
    BY <2>1 DEF Status
  <2>4. FinishRow(row, o) \in Row
    BY <1>0, <2>2, <2>3, Zenon DEF FinishRow, Row
  <2>5. row.status \in Phase => FinishRow(row, o).status = StatusOf(o)
    BY <1>0 DEF FinishRow, Row
  <2> QED  BY <2>1, <2>4, <2>5 DEF InBudget, FinishRow, Terminal
<1>4. InBudget(RecoverRow(row))
  BY <1>0 DEF InBudget, RecoverRow, Row, Status, Terminal
<1> QED  BY <1>1, <1>2, <1>3, <1>4

\* The statements of the user interface and of the automatic retry.
LEMMA UserRowType ==
    ASSUME NEW row, InBudget(row)
    PROVE  /\ row.status = "absent" => InBudget(NewRow(row))
           /\ InBudget(CancelRow(row))
           /\ CanRetry(row) => InBudget(RetryRow(row))
           /\ CanRequeue(row) => InBudget(RequeueRow(row))
<1>0. row \in Row /\ row.attempts \in 0..MaxAttempts
  BY DEF InBudget, Row
<1>1. row.status = "absent" => InBudget(NewRow(row))
  BY <1>0 DEF InBudget, NewRow, Row, Status
<1>2. InBudget(CancelRow(row))
  BY <1>0 DEF InBudget, CancelRow, Row, Status, Terminal
<1>3. "queued" \in Status /\ "none" \in Failure \cup {"none", "interrupted"}
  BY DEF Status
<1>4. CanRetry(row) => InBudget(RetryRow(row))
  <2>1. RetryRow(row) \in Row
    BY <1>0, <1>3, ZeroBound, Zenon DEF RetryRow, Row
  <2> QED  BY <1>0, <2>1 DEF InBudget, CanRetry, RetryRow, Row
<1>5. CanRequeue(row) => InBudget(RequeueRow(row))
  <2>1. RequeueRow(row) \in Row
    BY <1>0, <1>3, ZeroBound, Zenon DEF RequeueRow, Row
  <2> QED  BY <1>0, <2>1 DEF InBudget, CanRequeue, RequeueRow, Row
<1> QED  BY <1>1, <1>2, <1>4, <1>5

-----------------------------------------------------------------------------
(* The type invariant.                                                     *)

\* Writing one well-typed row keeps the table well typed.
LEMMA WriteRow ==
    ASSUME TypeInv, NEW j \in Job, NEW r, InBudget(r), jobs' = [jobs EXCEPT ![j] = r]
    PROVE  jobs' \in [Job -> Row] /\ Budgets'
<1>1. r \in Row /\ jobs \in [Job -> Row]
  BY DEF InBudget, TypeInv, TypeOK
<1>2. jobs' \in [Job -> Row]
  BY <1>1
<1>3. ASSUME NEW k \in Job PROVE InBudget(jobs'[k])
  BY <1>1 DEF TypeInv, Budgets
<1> QED  BY <1>2, <1>3 DEF Budgets, InBudget

\* The initial state is well typed.
LEMMA TypeInit == Init => TypeInv
<1> SUFFICES ASSUME Init PROVE TypeInv
  OBVIOUS
<1> PICK home \in [Job -> Server] :
        jobs = [j \in Job |-> [status |-> "absent", server |-> home[j], exec |-> 0,
                               attempts |-> 0, cancel |-> FALSE,
                               retryable |-> FALSE, err |-> "none"]]
  BY DEF Init
<1>1. 0 < MaxAttempts /\ "absent" \in Status
      /\ "none" \in Failure \cup {"none", "interrupted"}
  BY QueueAssumption DEF Status
<1>2. ASSUME NEW j \in Job
      PROVE  jobs[j] \in Row /\ jobs[j].attempts = 0
  BY <1>1, ZeroBound, Zenon DEF Row
<1>3. jobs \in [Job -> Row] /\ Budgets
  BY <1>1, <1>2 DEF Budgets, InBudget
<1>4. Locals
  BY DEF Init, Locals, HasJob, Running
<1>5. /\ execs \in [Exec -> {"absent", "queued", "running"} \cup Terminal]
      /\ plan \in [Worker -> Seq(Phase)]
      /\ chan \in [Worker -> Seq({"started"} \cup Phase \cup Outcome)]
  BY DEF Init
<1>6. retries \in 0..MaxRetries /\ faults \in 0..MaxFaults /\ exits \in 0..MaxExits
  BY QueueAssumption DEF Init
<1>7. /\ pc \in [Worker -> PC] /\ cur \in [Worker -> Job \cup {0}]
      /\ att \in [Worker -> 0..MaxAttempts] /\ out \in [Worker -> Outcome \cup {"lost"}]
      /\ upd \in [Worker -> {"off", "recv", "check", "dead"}]
  BY ZeroBound DEF Init, PC
<1>8. TypeOK
  BY <1>3, <1>5, <1>6, <1>7, Zenon DEF Init, TypeOK
<1> QED  BY <1>3, <1>4, <1>8 DEF TypeInv

\* Waking workers moves only those that wait.
LEMMA WakeType ==
    ASSUME NEW pcs \in [Worker -> PC], WakeWorkers(pcs)
    PROVE  /\ pc' \in [Worker -> PC] /\ permit' \in BOOLEAN
           /\ \A v \in Worker : \/ pc'[v] = pcs[v]
                                \/ pcs[v] = "waiting" /\ pc'[v] = "next"
<1>1. pc' = [v \in Worker |-> IF pcs[v] = "waiting" THEN "next" ELSE pcs[v]]
  BY DEF WakeWorkers, Woken
<1>2. permit' \in BOOLEAN
  BY Zenon DEF WakeWorkers, PermitAfter
<1>3. "next" \in PC
  BY DEF PC
<1> QED  BY <1>1, <1>2, <1>3

\* A worker that leaves its job forgets it; the others keep theirs.
LEMMA LeaveType ==
    ASSUME TypeInv, NEW w \in Worker, LeaveJob(w)
    PROVE  /\ pc' \in [Worker -> PC] /\ permit' \in BOOLEAN
           /\ cur' \in [Worker -> Job \cup {0}] /\ att' \in [Worker -> 0..MaxAttempts]
           /\ pc'[w] = "next"
           /\ \A v \in Worker \ {w} :
                 /\ cur'[v] = cur[v] /\ att'[v] = att[v]
                 /\ \/ pc'[v] = pc[v]
                    \/ pc[v] = "waiting" /\ pc'[v] = "next"
<1> DEFINE pcs == [pc EXCEPT ![w] = "next"]
<1>1. pc \in [Worker -> PC] /\ "next" \in PC
  BY DEF TypeInv, TypeOK, PC
<1>2. pcs \in [Worker -> PC] /\ WakeWorkers(pcs)
  BY <1>1 DEF LeaveJob
<1>3. cur' \in [Worker -> Job \cup {0}] /\ att' \in [Worker -> 0..MaxAttempts]
  BY ZeroBound DEF LeaveJob, TypeInv, TypeOK
<1> HIDE DEF pcs
<1>4. /\ pc' \in [Worker -> PC] /\ permit' \in BOOLEAN
      /\ \A v \in Worker : pc'[v] = pcs[v] \/ (pcs[v] = "waiting" /\ pc'[v] = "next")
  BY <1>2, WakeType
<1>5. ASSUME NEW v \in Worker \ {w}
      PROVE  /\ cur'[v] = cur[v] /\ att'[v] = att[v]
             /\ pc'[v] = pc[v] \/ (pc[v] = "waiting" /\ pc'[v] = "next")
  BY <1>1, <1>4 DEF LeaveJob, TypeInv, TypeOK, pcs
<1>6. pc'[w] = "next"
  BY <1>1, <1>4 DEF pcs
<1> QED  BY <1>3, <1>4, <1>5, <1>6

\* The steps of a worker that leave the table of jobs alone.
LEMMA TypeLoop ==
    ASSUME TypeInv, NEW w \in Worker,
           NextRunnable(w) \/ AwaitNotify(w) \/ Decide(w)
    PROVE  TypeInv'
<1>1. CASE NextRunnable(w)
  <2>1. Locals'
    BY <1>1 DEF NextRunnable, Goto, Runnable, TypeInv, TypeOK, Locals, HasJob, Running, eventVars
  <2>2. TypeOK'
    BY <1>1 DEF NextRunnable, Goto, Runnable, TypeInv, TypeOK, PC, dbVars, tokenVars, eventVars, countVars
  <2> QED  BY <1>1, <2>1, <2>2 DEF NextRunnable, dbVars, TypeInv, Budgets, InBudget
<1>2. CASE AwaitNotify(w)
  <2>1. Locals'
    BY <1>2 DEF AwaitNotify, Goto, TypeInv, TypeOK, Locals, HasJob, Running, eventVars
  <2>2. TypeOK'
    BY <1>2 DEF AwaitNotify, Goto, TypeInv, TypeOK, PC, dbVars, tokenVars, eventVars, countVars
  <2> QED  BY <1>2, <2>1, <2>2 DEF AwaitNotify, dbVars, TypeInv, Budgets, InBudget
<1>3. CASE Decide(w)
  <2>1. CASE LeaveJob(w)
    BY <1>3, <2>1, LeaveType
       DEF Decide, TypeInv, TypeOK, Locals, Budgets, InBudget, HasJob, Running,
           dbVars, tokenVars, eventVars, countVars
  <2>2. CASE Goto(w, "backoff") /\ UNCHANGED <<cur, att, permit>>
    BY <1>3, <2>2
       DEF Decide, Goto, TypeInv, TypeOK, Locals, Budgets, InBudget, HasJob, Running, PC,
           dbVars, tokenVars, eventVars, countVars
  <2> QED  BY <1>3, <2>1, <2>2 DEF Decide
<1> QED  BY <1>1, <1>2, <1>3

Event == {"started"} \cup Phase \cup Outcome

\* Sending an event touches only the channel of the sender.
LEMMA EmitType ==
    ASSUME TypeInv, NEW w \in Worker, NEW e \in Event, Emit(w, e)
    PROVE  chan' \in [Worker -> Seq(Event)]
<1>1. chan \in [Worker -> Seq(Event)]
  BY DEF TypeInv, TypeOK, Event
<1>2. Append(chan[w], e) \in Seq(Event)
  BY <1>1
<1> QED  BY <1>1, <1>2 DEF Emit

LEMMA ExecOfType ==
    ASSUME TypeInv, NEW w \in Worker, pc[w] \in Running
    PROVE  ExecOf(w) \in Exec
BY DEF TypeInv, Locals, ExecOf, Exec, HasJob

\* The steps of one attempt leave the table of jobs alone as well.
LEMMA TypeAttempt ==
    ASSUME TypeInv, NEW w \in Worker,
           \/ CreateExecution(w) \/ MarkRunning(w) \/ AnnounceConnecting(w)
           \/ Connect(w) \/ EnterPhase(w) \/ TransferEnds(w) \/ RecordOutcome(w)
    PROVE  TypeInv'
<1> USE DEF TypeInv, TypeOK, Locals, Budgets, InBudget, Goto, dbVars, tokenVars, eventVars, countVars
<1>1. CASE CreateExecution(w)
  <2>1. ExecOf(w) \in Exec
    BY <1>1, ExecOfType DEF CreateExecution, Running
  <2> QED  BY <1>1, <2>1 DEF CreateExecution, HasJob, Running, PC
<1>2. CASE MarkRunning(w)
  <2>1. ExecOf(w) \in Exec
    BY <1>2, ExecOfType DEF MarkRunning, Running
  <2>2. chan' \in [Worker -> Seq(Event)]
    BY <1>2, EmitType DEF MarkRunning, Event
  <2> QED  BY <1>2, <2>1, <2>2 DEF MarkRunning, HasJob, Running, PC, Event
<1>3. CASE AnnounceConnecting(w)
  <2>1. chan' \in [Worker -> Seq(Event)]
    BY <1>3, EmitType DEF AnnounceConnecting, Event, Phase
  <2> QED  BY <1>3, <2>1 DEF AnnounceConnecting, HasJob, Running, PC, Event
<1>4. CASE Connect(w)
  <2>1. CASE /\ \E p \in Plans : plan' = [plan EXCEPT ![w] = p]
             /\ Goto(w, "transfer") /\ UNCHANGED <<out, registry, cancelled>>
    <3>1. plan' \in [Worker -> Seq(Phase)]
      BY <2>1, PlansAssumption
    <3> QED  BY <1>4, <2>1, <3>1 DEF Connect, HasJob, Running, PC
  <2>2. CASE \E o \in Causes \ {"cancelled"} : EndTransfer(w, o) /\ UNCHANGED plan
    <3>1. PICK o \in Outcome : EndTransfer(w, o)
      BY <2>2, CausesAssumption DEF Outcome
    <3> QED  BY <1>4, <2>2, <3>1 DEF Connect, EndTransfer, HasJob, Running, PC
  <2> QED  BY <1>4, <2>1, <2>2 DEF Connect
<1>5. CASE EnterPhase(w)
  <2>1. Head(plan[w]) \in Phase /\ Tail(plan[w]) \in Seq(Phase)
    BY <1>5 DEF EnterPhase
  <2>2. chan' \in [Worker -> Seq(Event)]
    BY <1>5, <2>1, EmitType DEF EnterPhase, Event
  <2> QED  BY <1>5, <2>1, <2>2 DEF EnterPhase, HasJob, Running, PC, Event
<1>6. CASE TransferEnds(w)
  <2>1. PICK o \in Outcome : EndTransfer(w, o)
    BY <1>6, CausesAssumption DEF TransferEnds, Outcome
  <2>2. plan' \in [Worker -> Seq(Phase)]
    BY <1>6 DEF TransferEnds
  <2> QED  BY <1>6, <2>1, <2>2 DEF TransferEnds, EndTransfer, HasJob, Running, PC
<1>7. CASE RecordOutcome(w)
  <2>1. ExecOf(w) \in Exec
    BY <1>7, ExecOfType DEF RecordOutcome, Running
  <2>2. StatusOf(out[w]) \in Terminal
    BY DEF StatusOf, Terminal
  <2>3. chan' \in [Worker -> Seq(Event)]
    BY <1>7, EmitType DEF RecordOutcome, Event
  <2> QED  BY <1>7, <2>1, <2>2, <2>3 DEF RecordOutcome, HasJob, Running, PC, Event
<1> QED  BY <1>1, <1>2, <1>3, <1>4, <1>5, <1>6, <1>7

\* The steps of workers and updaters that write a row.
LEMMA TypeWrite ==
    ASSUME TypeInv, NEW w \in Worker,
           Claim(w) \/ Conclude(w) \/ RequeueAutomatically(w) \/ ApplyEvent(w)
    PROVE  TypeInv'
<1> USE DEF TypeInv, TypeOK, Locals, Goto, dbVars, tokenVars, eventVars, countVars
<1>1. CASE Claim(w)
  <2>1. cur[w] \in Job /\ InBudget(jobs[cur[w]])
    BY <1>1 DEF Claim, HasJob, Budgets
  <2>2. CASE CanClaim(jobs[cur[w]])
    <3>1. /\ InBudget(ClaimRow(jobs[cur[w]]))
          /\ jobs[cur[w]].attempts + 1 \in 1..MaxAttempts
      BY <2>1, <2>2, ClaimRowType
    <3>2. jobs' = [jobs EXCEPT ![cur[w]] = ClaimRow(jobs[cur[w]])]
      BY <1>1, <2>2 DEF Claim
    <3>3. jobs' \in [Job -> Row] /\ Budgets'
      BY <2>1, <3>1, <3>2, WriteRow
    <3>4. jobs[cur[w]].attempts + 1 \in 0..MaxAttempts
      BY <3>1
    <3>5. pc[w] = "claim" /\ pc' = [pc EXCEPT ![w] = "create"] /\ cur' = cur
          /\ att' = [att EXCEPT ![w] = jobs[cur[w]].attempts + 1]
          /\ upd' = [upd EXCEPT ![w] = "recv"] /\ chan' = [chan EXCEPT ![w] = <<>>]
          /\ UNCHANGED <<execs, registry, cancelled, signals, plan, out, permit, up,
                         retries, faults, exits, overlap>>
      BY <1>1, <2>2 DEF Claim
    <3>6. Locals'
      BY <2>1, <3>1, <3>5 DEF HasJob, Running
    <3>7. chan' \in [Worker -> Seq({"started"} \cup Phase \cup Outcome)]
      BY <3>5
    <3>8. TypeOK'
      BY <3>3, <3>4, <3>5, <3>7 DEF Running, PC
    <3> QED  BY <3>3, <3>6, <3>8
  <2>3. CASE ~CanClaim(jobs[cur[w]])
    BY <1>1, <2>3 DEF Claim, HasJob, Running, PC, Budgets, InBudget
  <2> QED  BY <2>2, <2>3
<1>2. CASE Conclude(w)
  <2>1. cur[w] \in Job /\ InBudget(jobs[cur[w]])
    BY <1>2 DEF Conclude, HasJob, Running, Budgets
  <2>2. Verdict(w) \in Outcome
    BY DEF Verdict, Outcome, Failure
  <2>3. jobs' \in [Job -> Row] /\ Budgets'
    BY <1>2, <2>1, <2>2, UpdateRowType, WriteRow DEF Conclude
  <2> QED  BY <1>2, <2>3 DEF Conclude, HasJob, Running, PC
<1>3. CASE RequeueAutomatically(w)
  <2>1. cur[w] \in Job /\ InBudget(jobs[cur[w]])
    BY <1>3 DEF RequeueAutomatically, HasJob, Budgets
  <2>2. jobs' \in [Job -> Row] /\ Budgets'
    BY <1>3, <2>1, UserRowType, WriteRow DEF RequeueAutomatically, Budgets, InBudget
  <2>3. overlap' \in BOOLEAN
    BY <1>3, Zenon DEF RequeueAutomatically
  <2> QED  BY <1>3, <2>2, <2>3, LeaveType DEF RequeueAutomatically, HasJob, Running
<1>4. CASE ApplyEvent(w)
  <2>1. pc[w] \in Running /\ cur[w] \in Job /\ att[w] \in 0..MaxAttempts
    BY <1>4 DEF ApplyEvent, HasJob
  <2>2. InBudget(jobs[cur[w]])
    BY <2>1 DEF Budgets
  <2>3. Tail(chan[w]) \in Seq(Event)
    BY <1>4 DEF ApplyEvent, Event
  <2>4. jobs' \in [Job -> Row] /\ Budgets'
    <3> DEFINE e == Head(chan[w])
               row == jobs[cur[w]]
    <3>1. CASE e = "started" /\ jobs' = [jobs EXCEPT ![cur[w]] = SetExecution(row, att[w])]
      BY <2>1, <2>2, <3>1, UpdateRowType, WriteRow
    <3>2. CASE e \in Phase /\ jobs' = [jobs EXCEPT ![cur[w]] = UpdateProgress(row, e)]
      BY <2>1, <2>2, <3>2, UpdateRowType, WriteRow
    <3>3. CASE e \in Outcome /\ jobs' = [jobs EXCEPT ![cur[w]] = FinishRow(row, e)]
      BY <2>1, <2>2, <3>3, UpdateRowType, WriteRow
    <3> QED  BY <1>4, <3>1, <3>2, <3>3 DEF ApplyEvent
  <2>5. chan' \in [Worker -> Seq(Event)]
    BY <1>4, <2>3 DEF ApplyEvent, Event
  <2>6. upd' \in [Worker -> {"off", "recv", "check", "dead"}] /\ Locals'
    BY <1>4, <2>1 DEF ApplyEvent, workerVars
  <2> QED  BY <1>4, <2>4, <2>5, <2>6 DEF ApplyEvent, workerVars, Event
<1> QED  BY <1>1, <1>2, <1>3, <1>4

\* The updater's check of the cancellation flag, and the user interface.
LEMMA TypeCalls ==
    ASSUME TypeInv,
           \/ \E w \in Worker : CheckCancel(w)
           \/ UserStep
    PROVE  TypeInv'
<1> USE DEF TypeInv, TypeOK, Locals, dbVars, tokenVars, eventVars, workerVars, countVars
<1>1. ASSUME NEW w \in Worker, CheckCancel(w) PROVE TypeInv'
  <2>1. ExecOf(w) \in Exec
    BY <1>1, ExecOfType DEF CheckCancel
  <2> QED  BY <1>1, <2>1 DEF CheckCancel, Budgets, InBudget
<1>2. ASSUME NEW j \in Job, Enqueue(j) PROVE TypeInv'
  <2>1. jobs' \in [Job -> Row] /\ Budgets'
    BY <1>2, UserRowType, WriteRow DEF Enqueue, Budgets
  <2>2. /\ pc' \in [Worker -> PC] /\ permit' \in BOOLEAN
        /\ \A v \in Worker : pc'[v] = pc[v] \/ (pc[v] = "waiting" /\ pc'[v] = "next")
    BY <1>2, WakeType DEF Enqueue
  <2> QED  BY <1>2, <2>1, <2>2 DEF Enqueue, HasJob, Running
<1>3. ASSUME NEW j \in Job, RequestCancel(j) PROVE TypeInv'
  <2>1. jobs' \in [Job -> Row] /\ Budgets'
    BY <1>3, UserRowType, WriteRow DEF RequestCancel, Budgets
  <2>2. jobs[j].exec # 0 => <<j, jobs[j].exec>> \in Exec
    BY DEF Exec, Row
  <2>3. signals' \subseteq Exec
    BY <1>3, <2>2 DEF RequestCancel
  <2> QED  BY <1>3, <2>1, <2>3 DEF RequestCancel
<1>4. ASSUME NEW j \in Job, Retry(j) PROVE TypeInv'
  <2>1. jobs' \in [Job -> Row] /\ Budgets'
    BY <1>4, UserRowType, WriteRow DEF Retry, Budgets
  <2>2. /\ pc' \in [Worker -> PC] /\ permit' \in BOOLEAN
        /\ \A v \in Worker : pc'[v] = pc[v] \/ (pc[v] = "waiting" /\ pc'[v] = "next")
    BY <1>4, WakeType DEF Retry
  <2>3. overlap' \in BOOLEAN
    BY <1>4, Zenon DEF Retry
  <2>4. retries' \in 0..MaxRetries
    BY <1>4, QueueAssumption DEF Retry
  <2> QED  BY <1>4, <2>1, <2>2, <2>3, <2>4 DEF Retry, HasJob, Running
<1>5. ASSUME NEW e \in Exec, SignalExecution(e) PROVE TypeInv'
  BY <1>5 DEF SignalExecution, Budgets, InBudget
<1> QED  BY <1>1, <1>2, <1>3, <1>4, <1>5 DEF UserStep

\* Failing statements, exits and starts.
LEMMA TypeFailure ==
    ASSUME TypeInv,
           (\E w \in Worker : FaultStep(w)) \/ Exit \/ Open
    PROVE  TypeInv'
<1> USE DEF TypeInv, TypeOK, Locals, Goto, dbVars, tokenVars, eventVars, workerVars, countVars
<1>1. ASSUME NEW w \in Worker, FaultStep(w) PROVE TypeInv'
  <2>1. Faulting /\ faults' \in 0..MaxFaults
    BY <1>1, QueueAssumption
       DEF FaultStep, LoopFault, UpdaterFault, ExecutionFault, ConcludeFault, RetryFault, Faulting
  <2>2. CASE LoopFault(w)
    BY <2>1, <2>2 DEF LoopFault, Faulting, HasJob, Running, PC, Budgets, InBudget
  <2>3. CASE UpdaterFault(w)
    <3>1. chan' \in [Worker -> Seq({"started"} \cup Phase \cup Outcome)]
      BY <2>3 DEF UpdaterFault
    <3> QED  BY <2>1, <2>3, <3>1 DEF UpdaterFault, Faulting, Budgets, InBudget
  <2>4. CASE ExecutionFault(w)
    BY <2>1, <2>4 DEF ExecutionFault, Faulting, HasJob, Running, PC, Budgets, InBudget
  <2>5. CASE ConcludeFault(w)
    BY <2>1, <2>5 DEF ConcludeFault, Faulting, HasJob, Running, PC, Budgets, InBudget
  <2>6. CASE RetryFault(w)
    BY <2>1, <2>6, LeaveType DEF RetryFault, Faulting, HasJob, Running, Budgets, InBudget
  <2> QED  BY <1>1, <2>2, <2>3, <2>4, <2>5, <2>6 DEF FaultStep
<1>2. CASE Exit
  <2>1. exits' \in 0..MaxExits
    BY <1>2, QueueAssumption DEF Exit
  <2>2. /\ plan' \in [Worker -> Seq(Phase)]
        /\ chan' \in [Worker -> Seq({"started"} \cup Phase \cup Outcome)]
    BY <1>2 DEF Exit
  <2>3. Locals' /\ Budgets'
    BY <1>2 DEF Exit, HasJob, Running, Budgets, InBudget
  <2>4. /\ pc' \in [Worker -> PC] /\ cur' \in [Worker -> Job \cup {0}]
        /\ att' \in [Worker -> 0..MaxAttempts] /\ out' \in [Worker -> Outcome \cup {"lost"}]
        /\ upd' \in [Worker -> {"off", "recv", "check", "dead"}]
    BY <1>2, ZeroBound DEF Exit, PC
  <2> QED  BY <1>2, <2>1, <2>2, <2>3, <2>4, Zenon DEF Exit
<1>3. CASE Open
  <2>1. \A j \in Job : InBudget(RecoverRow(jobs[j]))
    BY UpdateRowType DEF Budgets
  <2>2. jobs' = [j \in Job |-> RecoverRow(jobs[j])]
    BY <1>3 DEF Open
  <2>3. jobs' \in [Job -> Row]
    BY <2>1, <2>2 DEF InBudget
  <2>4. Budgets'
    BY <2>1, <2>2 DEF Budgets, InBudget
  <2>5. execs' \in [Exec -> {"absent", "queued", "running"} \cup Terminal]
    BY <1>3 DEF Open, RecoverExec, Terminal
  <2>6. pc' \in [Worker -> PC] /\ Locals'
    BY <1>3 DEF Open, HasJob, Running, PC
  <2> QED  BY <1>3, <2>3, <2>4, <2>5, <2>6 DEF Open
<1> QED  BY <1>1, <1>2, <1>3

\* Every step keeps the type invariant.
LEMMA TypeStep == TypeInv /\ [Next]_vars => TypeInv'
<1> SUFFICES ASSUME TypeInv, [Next]_vars PROVE TypeInv'
  OBVIOUS
<1>1. ASSUME NEW w \in Worker, WorkerStep(w) PROVE TypeInv'
  BY <1>1, TypeLoop, TypeAttempt, TypeWrite DEF WorkerStep
<1>2. ASSUME NEW w \in Worker, UpdaterStep(w) PROVE TypeInv'
  BY <1>2, TypeWrite, TypeCalls DEF UpdaterStep
<1>3. CASE UNCHANGED vars
  BY <1>3 DEF vars, TypeInv, TypeOK, Locals, Budgets, InBudget
<1> QED  BY <1>1, <1>2, <1>3, TypeCalls, TypeFailure DEF Next

\* Every variable keeps its type and every queued job has an attempt left:
\* claim never exceeds max_attempts, for any number of jobs and workers.
THEOREM TypeCorrect == Spec => [](TypeOK /\ AttemptBudget)
<1>1. TypeInv => TypeOK /\ AttemptBudget
  BY DEF TypeInv, Budgets, InBudget, AttemptBudget
<1> QED  BY <1>1, TypeInit, TypeStep, PTL DEF Spec

-----------------------------------------------------------------------------
(* Exclusive execution.  A row is taken out of the queue by the claim that *)
(* starts an attempt and ended by an event that only a finished transfer   *)
(* sends, so while no job is requeued under a worker's hands, a worker's   *)
(* row is neither queued nor in another worker's hands.                    *)

\* The row of an executing worker is not in the queue.
TakenIsOut ==
    ~overlap => \A w \in Worker :
        pc[w] \in Running => jobs[cur[w]].status \notin {"absent", "queued"}

\* A transfer at work has sent no last event.
Silent == \A w \in Worker : pc[w] \in AtWork => chan[w] \in Seq({"started"} \cup Phase)

Own    == TakenIsOut /\ NoDoubleRun /\ EndedIsQuiet
OwnInv == TypeInv /\ Own /\ Silent

\* What a step that starts no attempt has to respect.
Respectful ==
    /\ overlap => overlap'
    /\ \A v \in Worker : pc'[v] \in Running =>
          /\ pc[v] \in Running /\ cur'[v] = cur[v]
          /\ pc'[v] \in AtWork => pc[v] \in AtWork
          /\ ~overlap' => LET s == jobs[cur[v]].status
                             t == jobs'[cur[v]].status
                         IN  /\ s \notin {"absent", "queued"} => t \notin {"absent", "queued"}
                             /\ pc'[v] \in AtWork /\ s \in Phase => t \in Phase

LEMMA OwnFrame ==
    ASSUME Own, Respectful
    PROVE  Own'
BY DEF Own, Respectful, TakenIsOut, NoDoubleRun, EndedIsQuiet, IsActive, AtWork

\* How the statements of the updater and request_cancel change a status.
LEMMA SetExecutionStatus ==
    ASSUME NEW row \in Row, NEW a PROVE SetExecution(row, a).status = row.status
BY DEF SetExecution, Row

LEMMA ProgressStatus ==
    ASSUME NEW row \in Row, NEW p \in Phase
    PROVE  \/ UpdateProgress(row, p).status = row.status
           \/ row.status \in Phase /\ UpdateProgress(row, p).status \in Phase
BY DEF UpdateProgress, Row

LEMMA FinishStatus ==
    ASSUME NEW row \in Row, NEW o
    PROVE  \/ FinishRow(row, o).status = row.status
           \/ row.status \in Phase /\ FinishRow(row, o).status \in Terminal
<1>1. StatusOf(o) \in Terminal
  BY DEF StatusOf, Terminal
<1> QED  BY <1>1 DEF FinishRow, Row

LEMMA CancelStatus ==
    ASSUME NEW row \in Row
    PROVE  \/ CancelRow(row).status = row.status
           \/ row.status = "queued" /\ CancelRow(row).status = "cancelled"
BY DEF CancelRow, Row

\* The steps that leave every row alone.
LEMMA OwnIdle ==
    ASSUME OwnInv, NEW w \in Worker,
           \/ NextRunnable(w) \/ AwaitNotify(w) \/ Decide(w) \/ CreateExecution(w)
           \/ MarkRunning(w) \/ AnnounceConnecting(w) \/ Connect(w) \/ EnterPhase(w)
           \/ TransferEnds(w) \/ RecordOutcome(w) \/ CheckCancel(w) \/ FaultStep(w)
    PROVE  Own'
<1>1. /\ jobs' = jobs /\ overlap' = overlap
      /\ \A v \in Worker : pc'[v] \in Running =>
            /\ pc[v] \in Running /\ cur'[v] = cur[v]
            /\ pc'[v] \in AtWork => pc[v] \in AtWork
  <2> USE DEF OwnInv, TypeInv, TypeOK, Goto, AtWork, Running, dbVars, countVars, workerVars
  <2>1. CASE NextRunnable(w) \/ AwaitNotify(w)
    BY <2>1 DEF NextRunnable, AwaitNotify
  <2>2. CASE Decide(w)
    <3>1. CASE LeaveJob(w)
      BY <2>2, <3>1, LeaveType DEF Decide
    <3> QED  BY <2>2, <3>1 DEF Decide
  <2>3. CASE CreateExecution(w) \/ MarkRunning(w) \/ AnnounceConnecting(w)
    BY <2>3 DEF CreateExecution, MarkRunning, AnnounceConnecting
  <2>4. CASE Connect(w) \/ EnterPhase(w) \/ TransferEnds(w)
    BY <2>4 DEF Connect, EnterPhase, TransferEnds, EndTransfer
  <2>5. CASE RecordOutcome(w) \/ CheckCancel(w)
    BY <2>5 DEF RecordOutcome, CheckCancel
  <2>6. CASE LoopFault(w) \/ UpdaterFault(w) \/ ExecutionFault(w) \/ ConcludeFault(w)
    BY <2>6 DEF LoopFault, UpdaterFault, ExecutionFault, ConcludeFault, Faulting
  <2>7. CASE RetryFault(w)
    BY <2>7, LeaveType DEF RetryFault, Faulting
  <2> QED  BY <2>1, <2>2, <2>3, <2>4, <2>5, <2>6, <2>7 DEF FaultStep
<1> QED  BY <1>1, OwnFrame DEF Respectful, OwnInv

\* The steps that write a row without starting an attempt.
LEMMA OwnWrite ==
    ASSUME OwnInv, NEW w \in Worker, Conclude(w) \/ ApplyEvent(w) \/ RequeueAutomatically(w)
    PROVE  Own'
<1> USE DEF OwnInv, TypeInv, TypeOK
<1>1. CASE Conclude(w)
  <2>1. cur[w] \in Job /\ jobs[cur[w]] \in Row
    BY <1>1 DEF Conclude, Locals, HasJob, Running
  <2>2. /\ \A v \in Worker : /\ pc'[v] \in Running => v # w /\ pc'[v] = pc[v]
                            /\ cur'[v] = cur[v]
        /\ overlap' = overlap
        /\ \A j \in Job \ {cur[w]} : jobs'[j] = jobs[j]
        /\ pc[w] \in Running
    BY <1>1 DEF Conclude, Goto, Running, countVars
  <2>3. Respectful
    BY <2>1, <2>2 DEF Respectful, Own, NoDoubleRun, Locals, HasJob
  <2> QED  BY <2>3, OwnFrame
<1>2. CASE ApplyEvent(w)
  <2> DEFINE e == Head(chan[w])
             j == cur[w]
  <2>1. /\ pc[w] \in Running /\ j \in Job /\ jobs[j] \in Row
        /\ pc' = pc /\ cur' = cur /\ overlap' = overlap
        /\ \A k \in Job \ {j} : jobs'[k] = jobs[k]
    BY <1>2 DEF ApplyEvent, Locals, HasJob, workerVars, countVars
  <2>2. CASE e = "started" /\ jobs' = [jobs EXCEPT ![j] = SetExecution(jobs[j], att[w])]
    <3>1. jobs'[j].status = jobs[j].status
      BY <2>1, <2>2, SetExecutionStatus
    <3> QED  BY <2>1, <3>1, OwnFrame DEF Respectful, Locals, HasJob
  <2>3. CASE e \in Phase /\ jobs' = [jobs EXCEPT ![j] = UpdateProgress(jobs[j], e)]
    <3>1. \/ jobs'[j].status = jobs[j].status
          \/ jobs[j].status \in Phase /\ jobs'[j].status \in Phase
      BY <2>1, <2>3, ProgressStatus
    <3> QED  BY <2>1, <3>1, OwnFrame DEF Respectful, Locals, HasJob, Phase
  <2>4. CASE e \in Outcome /\ jobs' = [jobs EXCEPT ![j] = FinishRow(jobs[j], e)]
    <3>1. jobs'[j].status \in {jobs[j].status} \cup Terminal
      BY <2>1, <2>4, FinishStatus
    <3>2. pc[w] \notin AtWork
      <4>1. ASSUME pc[w] \in AtWork PROVE FALSE
        <5>1. e \in {"started"} \cup Phase
          BY <1>2, <4>1 DEF ApplyEvent, Silent
        <5> QED  BY <2>4, <5>1 DEF Phase, Outcome, Failure
      <4> QED  BY <4>1
    <3>3. Respectful
      BY <2>1, <3>1, <3>2 DEF Respectful, Own, NoDoubleRun, Locals, HasJob, AtWork, Terminal
    <3> QED  BY <3>3, OwnFrame
  <2> QED  BY <1>2, <2>2, <2>3, <2>4 DEF ApplyEvent
<1>3. CASE RequeueAutomatically(w)
  <2>1. /\ cur[w] \in Job /\ overlap => overlap'
        /\ \A j \in Job \ {cur[w]} : jobs'[j] = jobs[j]
        /\ \/ jobs' = jobs
           \/ ~overlap' => ~InHand(cur[w])
    BY <1>3 DEF RequeueAutomatically, Locals, HasJob
  <2>2. \A v \in Worker : pc'[v] \in Running => v # w /\ pc'[v] = pc[v] /\ cur'[v] = cur[v]
    BY <1>3, LeaveType DEF RequeueAutomatically, Running
  <2>3. Respectful
    BY <1>3, <2>1, <2>2 DEF RequeueAutomatically, Respectful, InHand, Locals, HasJob
  <2> QED  BY <2>3, OwnFrame
<1> QED  BY <1>1, <1>2, <1>3

\* A claim: nobody else can hold a row that is still in the queue.
LEMMA OwnClaim ==
    ASSUME OwnInv, NEW w \in Worker, Claim(w)
    PROVE  Own'
<1> USE DEF OwnInv, TypeInv, TypeOK, Goto
<1>1. cur[w] \in Job /\ InBudget(jobs[cur[w]])
  BY DEF Claim, Locals, HasJob, Budgets
<1>2. CASE CanClaim(jobs[cur[w]])
  <2>1. /\ pc' = [pc EXCEPT ![w] = "create"] /\ cur' = cur /\ overlap' = overlap
        /\ jobs' = [jobs EXCEPT ![cur[w]] = ClaimRow(jobs[cur[w]])]
        /\ jobs[cur[w]].status = "queued"
    BY <1>2 DEF Claim, countVars, CanClaim
  <2>2. jobs'[cur[w]].status = "connecting"
    BY <1>1, <1>2, <2>1, ClaimRowType
  <2>3. ASSUME ~overlap, NEW v \in Worker \ {w}, pc'[v] \in Running
        PROVE  /\ pc[v] \in Running /\ cur'[v] = cur[v] /\ cur[v] # cur[w]
               /\ jobs'[cur[v]] = jobs[cur[v]]
    BY <2>1, <2>3 DEF Own, TakenIsOut, Locals, HasJob
  <2>4. TakenIsOut'
    BY <2>1, <2>2, <2>3 DEF Own, TakenIsOut
  <2>5. NoDoubleRun'
    BY <2>1, <2>3 DEF Own, NoDoubleRun
  <2>6. EndedIsQuiet'
    BY <2>1, <2>2, <2>3 DEF Own, EndedIsQuiet, IsActive, AtWork, Phase
  <2> QED  BY <2>4, <2>5, <2>6 DEF Own
<1>3. CASE ~CanClaim(jobs[cur[w]])
  <2>1. /\ jobs' = jobs /\ overlap' = overlap
        /\ \A v \in Worker : pc'[v] \in Running => pc'[v] = pc[v] /\ cur'[v] = cur[v]
    BY <1>3 DEF Claim, countVars, Running
  <2> QED  BY <2>1, OwnFrame DEF Respectful
<1> QED  BY <1>2, <1>3

\* The user interface, exits and starts.
LEMMA OwnCalls ==
    ASSUME OwnInv, UserStep \/ Exit \/ Open
    PROVE  Own'
<1> USE DEF OwnInv, TypeInv, TypeOK
<1>1. ASSUME NEW j \in Job, Enqueue(j) \/ RequestCancel(j) \/ Retry(j) PROVE Own'
  <2>1. /\ \A v \in Worker : cur'[v] = cur[v] /\ (pc'[v] \in Running => pc'[v] = pc[v])
        /\ \A k \in Job \ {j} : jobs'[k] = jobs[k]
    <3>1. CASE Enqueue(j)
      <4>1. \A v \in Worker : pc'[v] = pc[v] \/ pc'[v] = "next"
        BY <3>1, WakeType DEF Enqueue
      <4> QED  BY <3>1, <4>1 DEF Enqueue, Running
    <3>2. CASE RequestCancel(j)
      BY <3>2 DEF RequestCancel, workerVars
    <3>3. CASE Retry(j)
      BY <3>3, WakeType DEF Retry, Running
    <3> QED  BY <1>1, <3>1, <3>2, <3>3
  <2>2. CASE Enqueue(j)
    <3>1. jobs[j].status = "absent" /\ overlap' = overlap
      BY <2>2 DEF Enqueue, countVars
    <3> QED  BY <2>1, <3>1, OwnFrame DEF Respectful, Own, TakenIsOut, Locals, HasJob, Phase
  <2>3. CASE RequestCancel(j)
    <3>1. overlap' = overlap /\ jobs[j] \in Row
          /\ jobs' = [jobs EXCEPT ![j] = CancelRow(jobs[j])]
      BY <2>3 DEF RequestCancel, countVars
    <3>2. jobs'[j].status \in {jobs[j].status, "cancelled"}
          /\ (jobs'[j].status = jobs[j].status \/ jobs[j].status = "queued")
      BY <3>1, CancelStatus
    <3> QED  BY <2>1, <3>1, <3>2, OwnFrame DEF Respectful, Locals, HasJob, Phase
  <2>4. CASE Retry(j)
    <3>1. overlap => overlap'
      BY <2>4 DEF Retry
    <3>2. ~overlap' => ~InHand(j)
      BY <2>4 DEF Retry
    <3> QED  BY <2>1, <3>1, <3>2, OwnFrame DEF Respectful, InHand, Locals, HasJob
  <2> QED  BY <1>1, <2>2, <2>3, <2>4
<1>2. ASSUME NEW e \in Exec, SignalExecution(e) PROVE Own'
  BY <1>2, OwnFrame DEF SignalExecution, Respectful, dbVars, workerVars, countVars
<1>3. CASE Exit \/ Open
  BY <1>3, OwnFrame DEF Exit, Open, Respectful, Running, countVars
<1> QED  BY <1>1, <1>2, <1>3 DEF UserStep

\* Only RecordOutcome sends a last event, and it ends the work.
LEMMA SilentStep ==
    ASSUME OwnInv, [Next]_vars
    PROVE  Silent'
<1> DEFINE E == {"started"} \cup Phase
<1> USE DEF OwnInv, TypeInv, TypeOK, Silent
<1>1. ASSUME NEW w \in Worker, WorkerStep(w) PROVE Silent'
  <2> USE DEF Goto, AtWork, Running, eventVars
  <2>1. CASE NextRunnable(w) \/ AwaitNotify(w) \/ CreateExecution(w)
    BY <2>1 DEF NextRunnable, AwaitNotify, CreateExecution
  <2>2. CASE Claim(w)
    <3>1. <<>> \in Seq(E)
      OBVIOUS
    <3>2. chan' = [chan EXCEPT ![w] = <<>>] \/ (chan' = chan /\ pc' = [pc EXCEPT ![w] = "next"])
      BY <2>2 DEF Claim
    <3>3. \A v \in Worker \ {w} : pc'[v] = pc[v]
      BY <2>2 DEF Claim
    <3> QED  BY <3>1, <3>2, <3>3
  <2>3. CASE MarkRunning(w)
    BY <2>3 DEF MarkRunning, Emit
  <2>4. CASE AnnounceConnecting(w)
    <3>1. chan[w] \in Seq(E) => Append(chan[w], "connecting") \in Seq(E)
      BY DEF Phase
    <3> QED  BY <2>4, <3>1 DEF AnnounceConnecting, Emit
  <2>5. CASE Connect(w) \/ TransferEnds(w)
    BY <2>5 DEF Connect, TransferEnds, EndTransfer
  <2>6. CASE EnterPhase(w)
    <3>1. Head(plan[w]) \in Phase
      BY <2>6 DEF EnterPhase
    <3> QED  BY <2>6, <3>1 DEF EnterPhase, Emit
  <2>7. CASE RecordOutcome(w) \/ Conclude(w)
    BY <2>7 DEF RecordOutcome, Conclude, Emit
  <2>8. CASE Decide(w)
    <3>1. CASE LeaveJob(w)
      BY <2>8, <3>1, LeaveType DEF Decide
    <3>2. CASE Goto(w, "backoff")
      BY <2>8, <3>2 DEF Decide
    <3> QED  BY <2>8, <3>1, <3>2 DEF Decide
  <2>9. CASE RequeueAutomatically(w)
    BY <2>9, LeaveType DEF RequeueAutomatically
  <2> QED  BY <1>1, <2>1, <2>2, <2>3, <2>4, <2>5, <2>6, <2>7, <2>8, <2>9 DEF WorkerStep
<1>2. ASSUME NEW w \in Worker, UpdaterStep(w) PROVE Silent'
  <2>1. CASE ApplyEvent(w)
    <3>1. chan[w] \in Seq(E) => Tail(chan[w]) \in Seq(E)
      BY <2>1 DEF ApplyEvent
    <3> QED  BY <2>1, <3>1 DEF ApplyEvent, workerVars
  <2>2. CASE CheckCancel(w)
    BY <2>2 DEF CheckCancel, workerVars
  <2> QED  BY <1>2, <2>1, <2>2 DEF UpdaterStep
<1>3. ASSUME NEW w \in Worker, FaultStep(w) PROVE Silent'
  <2> USE DEF Goto, AtWork, Running, eventVars, workerVars
  <2>1. CASE LoopFault(w) \/ ExecutionFault(w) \/ ConcludeFault(w)
    BY <2>1 DEF LoopFault, ExecutionFault, ConcludeFault
  <2>2. CASE UpdaterFault(w)
    BY <2>2 DEF UpdaterFault
  <2>3. CASE RetryFault(w)
    BY <2>3, LeaveType DEF RetryFault
  <2> QED  BY <1>3, <2>1, <2>2, <2>3 DEF FaultStep
<1>4. CASE UserStep
  <2>1. ASSUME NEW j \in Job, Enqueue(j) \/ Retry(j) PROVE Silent'
    <3>1. \A v \in Worker : pc'[v] \in AtWork => pc'[v] = pc[v]
      BY <2>1, WakeType DEF Enqueue, Retry, AtWork, Running
    <3> QED  BY <2>1, <3>1 DEF Enqueue, Retry, eventVars
  <2>2. ASSUME NEW j \in Job, RequestCancel(j) PROVE Silent'
    BY <2>2 DEF RequestCancel, workerVars, eventVars
  <2>3. ASSUME NEW e \in Exec, SignalExecution(e) PROVE Silent'
    BY <2>3 DEF SignalExecution, workerVars, eventVars
  <2> QED  BY <1>4, <2>1, <2>2, <2>3 DEF UserStep
<1>5. CASE Exit \/ Open
  BY <1>5 DEF Exit, Open, AtWork, Running
<1>6. CASE UNCHANGED vars
  BY <1>6 DEF vars
<1> QED  BY <1>1, <1>2, <1>3, <1>4, <1>5, <1>6 DEF Next

LEMMA OwnInit == Init => OwnInv
BY TypeInit DEF Init, OwnInv, Own, Silent, TakenIsOut, NoDoubleRun, EndedIsQuiet, AtWork, Running

LEMMA OwnStep == OwnInv /\ [Next]_vars => OwnInv'
<1> SUFFICES ASSUME OwnInv, [Next]_vars PROVE OwnInv'
  OBVIOUS
<1>1. TypeInv' /\ Silent'
  BY TypeStep, SilentStep DEF OwnInv
<1>2. ASSUME NEW w \in Worker, WorkerStep(w) \/ UpdaterStep(w) \/ FaultStep(w) PROVE Own'
  BY <1>2, OwnIdle, OwnWrite, OwnClaim DEF WorkerStep, UpdaterStep
<1>3. ASSUME UNCHANGED vars PROVE Own'
  BY <1>3, OwnFrame DEF vars, Respectful, OwnInv
<1>4. Own'
  BY <1>2, <1>3, OwnCalls DEF Next
<1> QED  BY <1>1, <1>4 DEF OwnInv

\* While no job is requeued under a worker's hands, no two workers execute
\* the same job, whatever the retries, failing statements and restarts.
THEOREM ExclusiveExecution == Spec => []NoDoubleRun
<1>1. OwnInv => NoDoubleRun
  BY DEF OwnInv, Own
<1> QED  BY <1>1, OwnInit, OwnStep, PTL DEF Spec

\* Under the same proviso a job shown as ended has no transfer at work.
THEOREM EndedJobsAreQuiet == Spec => []EndedIsQuiet
<1>1. OwnInv => EndedIsQuiet
  BY DEF OwnInv, Own
<1> QED  BY <1>1, OwnInit, OwnStep, PTL DEF Spec
-----------------------------------------------------------------------------
(* Executions.  Attempts are numbered by the claims that start them; so an *)
(* execution has one worker, and what is recorded, announced or cancelled  *)
(* under its number is about that attempt.                                 *)

\* Nothing carries the number of an attempt that has not begun, and no two
\* workers have the same number of the same job.
Numbered ==
    /\ \A w \in Worker : pc[w] \in Running => att[w] <= jobs[cur[w]].attempts
    /\ \A v, w \in Worker : v # w /\ pc[v] \in Running /\ pc[w] \in Running /\ cur[v] = cur[w]
                               => att[v] # att[w]
    /\ \A j \in Job : /\ jobs[j].exec <= jobs[j].attempts
                      /\ jobs[j].status \in {"absent", "queued"} => jobs[j].exec = 0
    /\ \A e \in registry \cup cancelled \cup signals : e[2] <= jobs[e[1]].attempts

\* Before its execution is registered, an attempt has sent nothing and its row
\* does not name the execution.
Unannounced == \A w \in Worker : pc[w] \in {"create", "mark"} =>
                   chan[w] = <<>> /\ jobs[cur[w]].exec # att[w]

\* The events a worker has sent and its updater has not taken.
Pending(w) == {chan[w][i] : i \in 1..Len(chan[w])}

\* How an attempt ended is recorded in its execution row before it is said.
Recorded == \A w \in Worker : pc[w] \in Running =>
    /\ \A o \in Outcome \cap Pending(w) : pc[w] = "drain" /\ execs[ExecOf(w)] = StatusOf(o)
    /\ pc[w] = "drain" /\ out[w] # "lost" => execs[ExecOf(w)] = StatusOf(out[w])

\* An attempt is the last one of its job, and its row is active until its last
\* event has been sent.
Latest == ~overlap =>
    /\ \A w \in Worker : pc[w] \in Running => att[w] = jobs[cur[w]].attempts
    /\ \A w \in Worker : pc[w] \in Running \ {"drain"} => IsActive(cur[w])
    /\ \A j \in Job : jobs[j].exec \in {0, jobs[j].attempts}

\* An updater learns the execution before anything else about it.
Introduced == ~overlap => \A w \in Worker :
    /\ pc[w] \in Running /\ IsActive(cur[w]) /\ upd[w] \in {"recv", "check"}
    /\ \/ chan[w] # <<>> \/ pc[w] \in {"announce", "connect", "transfer", "record"}
       \/ pc[w] = "drain" /\ out[w] # "lost"
    => \/ jobs[cur[w]].exec = att[w]
       \/ chan[w] # <<>> /\ Head(chan[w]) = "started"

\* The current attempt of a job is cancelled only on request.
Requested == ~overlap =>
    /\ \A j \in Job : IsActive(j) /\ <<j, jobs[j].attempts>> \in signals \cup cancelled
                         => jobs[j].cancel
    /\ \A w \in Worker :
          /\ pc[w] \in Running /\ IsActive(cur[w])
          /\ \/ pc[w] \in {"record", "drain"} /\ out[w] = "cancelled"
             \/ "cancelled" \in Pending(w)
          => jobs[cur[w]].cancel

Trail   == Numbered /\ Unannounced /\ Recorded /\ Latest /\ Introduced /\ Requested
TrailInv == OwnInv /\ Trail /\ CancelDelivered /\ JobMatchesExecution

\* What the statements of the repository do to the fields a trail is about.
LEMMA ClaimFields ==
    ASSUME NEW row \in Row
    PROVE  /\ ClaimRow(row).status = "connecting" /\ ClaimRow(row).attempts = row.attempts + 1
           /\ ClaimRow(row).exec = row.exec /\ ClaimRow(row).cancel = FALSE
BY DEF ClaimRow, Row

LEMMA ExecutionFields ==
    ASSUME NEW row \in Row, NEW a
    PROVE  /\ SetExecution(row, a).status = row.status /\ SetExecution(row, a).attempts = row.attempts
           /\ SetExecution(row, a).cancel = row.cancel
           /\ SetExecution(row, a).exec = IF row.status \in Phase THEN a ELSE row.exec
BY DEF SetExecution, Row

LEMMA ProgressFields ==
    ASSUME NEW row \in Row, NEW p
    PROVE  /\ UpdateProgress(row, p).attempts = row.attempts /\ UpdateProgress(row, p).cancel = row.cancel
           /\ UpdateProgress(row, p).exec = row.exec
           /\ UpdateProgress(row, p).status = IF row.status \in Phase THEN p ELSE row.status
BY DEF UpdateProgress, Row

LEMMA FinishFields ==
    ASSUME NEW row \in Row, NEW o
    PROVE  /\ FinishRow(row, o).attempts = row.attempts /\ FinishRow(row, o).cancel = row.cancel
           /\ FinishRow(row, o).exec = row.exec
           /\ FinishRow(row, o).status = IF row.status \in Phase THEN StatusOf(o) ELSE row.status
BY DEF FinishRow, Row

LEMMA CancelFields ==
    ASSUME NEW row \in Row
    PROVE  /\ CancelRow(row).attempts = row.attempts /\ CancelRow(row).cancel = TRUE
           /\ CancelRow(row).exec = row.exec
           /\ CancelRow(row).status = IF row.status = "queued" THEN "cancelled" ELSE row.status
BY DEF CancelRow, Row

LEMMA QueueFields ==
    ASSUME NEW row \in Row
    PROVE  /\ RetryRow(row).status = "queued" /\ RetryRow(row).attempts = row.attempts
           /\ RetryRow(row).exec = 0 /\ RetryRow(row).cancel = FALSE
           /\ RequeueRow(row).status = "queued" /\ RequeueRow(row).attempts = row.attempts
           /\ RequeueRow(row).exec = 0 /\ RequeueRow(row).cancel = FALSE
           /\ NewRow(row).status = "queued" /\ NewRow(row).attempts = row.attempts
           /\ NewRow(row).exec = row.exec /\ NewRow(row).cancel = row.cancel
BY DEF RetryRow, RequeueRow, NewRow, Row

LEMMA RecoverFields ==
    ASSUME NEW row \in Row
    PROVE  /\ RecoverRow(row).attempts = row.attempts /\ RecoverRow(row).exec = row.exec
           /\ RecoverRow(row).cancel = row.cancel
           /\ RecoverRow(row).status = IF row.status \in Phase THEN "uncertain" ELSE row.status
BY DEF RecoverRow, Row

LEMMA StatusOfType == \A o : StatusOf(o) \in Terminal
BY DEF StatusOf, Terminal

\* A claim that finds the row queued starts an attempt; nothing else does.
Starts(w) == Claim(w) /\ CanClaim(jobs[cur[w]])

Steady == \A v \in Worker : pc'[v] \in Running =>
              pc[v] \in Running /\ cur'[v] = cur[v] /\ att'[v] = att[v]

\* The updater of w has just named its execution in the row of j.
Named(w, j) == /\ pc[w] \in Running /\ cur[w] = j /\ jobs'[j].exec = att[w]
               /\ jobs[j].status \in Phase
               /\ upd[w] = "recv" /\ chan[w] # <<>> /\ Head(chan[w]) = "started"
               /\ upd'[w] = "check" /\ UNCHANGED <<pc, cur, att>>

\* How any other step changes a row.
RowMoves(j) ==
    /\ jobs'[j].attempts = jobs[j].attempts
    /\ jobs'[j].status \in Phase =>
          jobs[j].status \in Phase /\ (jobs[j].cancel => jobs'[j].cancel)
    /\ jobs'[j].status \in {"absent", "queued"} =>
          jobs'[j].exec = 0 \/ (jobs[j].status \in {"absent", "queued"} /\ jobs'[j].exec = jobs[j].exec)
    /\ \/ jobs'[j].exec = jobs[j].exec
       \/ jobs'[j].exec = 0 /\ jobs'[j].status = "queued"
       \/ \E w \in Worker : Named(w, j)

LEMMA SteadyStep ==
    ASSUME TypeInv, [Next]_vars, ~\E w \in Worker : Starts(w)
    PROVE  Steady
<1> USE DEF TypeInv, TypeOK, Goto, Running, Steady
<1>1. ASSUME NEW w \in Worker, WorkerStep(w) PROVE Steady
  <2>1. CASE NextRunnable(w) \/ AwaitNotify(w) \/ Claim(w)
    BY <2>1 DEF NextRunnable, AwaitNotify, Claim, Starts
  <2>2. CASE Decide(w)
    <3>1. CASE LeaveJob(w)
      BY <3>1, LeaveType
    <3> QED  BY <2>2, <3>1 DEF Decide
  <2>3. CASE CreateExecution(w) \/ MarkRunning(w) \/ AnnounceConnecting(w)
    BY <2>3 DEF CreateExecution, MarkRunning, AnnounceConnecting
  <2>4. CASE Connect(w) \/ EnterPhase(w) \/ TransferEnds(w)
    BY <2>4 DEF Connect, EnterPhase, TransferEnds, EndTransfer
  <2>5. CASE RecordOutcome(w) \/ Conclude(w)
    BY <2>5 DEF RecordOutcome, Conclude
  <2>6. CASE RequeueAutomatically(w)
    BY <2>6, LeaveType DEF RequeueAutomatically
  <2> QED  BY <1>1, <2>1, <2>2, <2>3, <2>4, <2>5, <2>6 DEF WorkerStep
<1>2. ASSUME NEW w \in Worker, UpdaterStep(w) PROVE Steady
  BY <1>2 DEF UpdaterStep, ApplyEvent, CheckCancel, workerVars
<1>3. ASSUME NEW w \in Worker, FaultStep(w) PROVE Steady
  <2>1. CASE RetryFault(w)
    BY <2>1, LeaveType DEF RetryFault
  <2> QED  BY <1>3, <2>1
          DEF FaultStep, LoopFault, UpdaterFault, ExecutionFault, ConcludeFault, workerVars
<1>4. CASE UserStep
  <2>1. ASSUME NEW j \in Job, Enqueue(j) \/ Retry(j) PROVE Steady
    <3>1. \A v \in Worker : pc'[v] = pc[v] \/ pc'[v] = "next"
      BY <2>1, WakeType DEF Enqueue, Retry
    <3> QED  BY <2>1, <3>1 DEF Enqueue, Retry
  <2> QED  BY <1>4, <2>1 DEF UserStep, RequestCancel, SignalExecution, workerVars
<1>5. CASE Exit \/ Open \/ UNCHANGED vars
  BY <1>5 DEF Exit, Open, vars
<1> QED  BY <1>1, <1>2, <1>3, <1>4, <1>5 DEF Next

\* Every step that writes one row or none.
LEMMA RowMoveStep ==
    ASSUME TypeInv, Numbered, [Next]_vars, ~\E w \in Worker : Starts(w), NEW j \in Job
    PROVE  RowMoves(j)
<1>0. /\ jobs \in [Job -> Row] /\ jobs[j] \in Row
      /\ jobs[j].status = "absent" => jobs[j].exec = 0
  BY DEF Numbered, TypeInv, TypeOK
<1>1. ASSUME jobs'[j] = jobs[j] PROVE RowMoves(j)
  BY <1>1 DEF RowMoves
<1>2. ASSUME NEW k \in Job, NEW r, jobs' = [jobs EXCEPT ![k] = r], k # j PROVE RowMoves(j)
  BY <1>0, <1>1, <1>2
<1>3. ASSUME NEW r, jobs' = [jobs EXCEPT ![j] = r] PROVE jobs'[j] = r
  BY <1>0, <1>3
<1>4. ASSUME NEW o, jobs'[j] = FinishRow(jobs[j], o) PROVE RowMoves(j)
  <2>1. StatusOf(o) \notin Phase \cup {"absent", "queued"}
    BY StatusOfType DEF Phase, Terminal
  <2> QED  BY <1>0, <1>4, <2>1, FinishFields DEF RowMoves
<1>5. ASSUME NEW w \in Worker, Conclude(w) PROVE RowMoves(j)
  <2>1. cur[w] \in Job /\ jobs' = [jobs EXCEPT ![cur[w]] = FinishRow(jobs[cur[w]], Verdict(w))]
    BY <1>5 DEF Conclude, TypeInv, Locals, HasJob, Running
  <2> QED  BY <2>1, <1>2, <1>3, <1>4
<1>6. ASSUME NEW w \in Worker, RequeueAutomatically(w) PROVE RowMoves(j)
  <2>1. cur[w] \in Job /\ (jobs' = jobs \/ jobs' = [jobs EXCEPT ![cur[w]] = RequeueRow(jobs[cur[w]])])
    BY <1>6 DEF RequeueAutomatically, TypeInv, Locals, HasJob
  <2>2. CASE jobs'[j] = RequeueRow(jobs[j])
    BY <1>0, <2>2, QueueFields DEF RowMoves, Phase
  <2> QED  BY <2>1, <2>2, <1>1, <1>2, <1>3
<1>7. ASSUME NEW w \in Worker, ApplyEvent(w) PROVE RowMoves(j)
  <2> DEFINE e == Head(chan[w])
  <2>1. /\ pc[w] \in Running /\ cur[w] \in Job /\ UNCHANGED <<pc, cur, att>>
        /\ upd[w] = "recv" /\ chan[w] # <<>>
        /\ upd \in [Worker -> {"off", "recv", "check", "dead"}]
    BY <1>7 DEF ApplyEvent, TypeInv, TypeOK, Locals, HasJob, workerVars
  <2>2. \/ /\ jobs' = [jobs EXCEPT ![cur[w]] = SetExecution(jobs[cur[w]], att[w])]
           /\ upd' = [upd EXCEPT ![w] = "check"] /\ e = "started"
        \/ e \in Phase /\ jobs' = [jobs EXCEPT ![cur[w]] = UpdateProgress(jobs[cur[w]], e)]
        \/ jobs' = [jobs EXCEPT ![cur[w]] = FinishRow(jobs[cur[w]], e)]
    BY <1>7 DEF ApplyEvent
  <2>3. CASE cur[w] # j
    BY <2>1, <2>2, <2>3, <1>2
  <2>4. CASE /\ cur[w] = j /\ jobs'[j] = SetExecution(jobs[j], att[w]) /\ upd'[w] = "check"
             /\ e = "started"
    <3>1. jobs[j].status \notin Phase => jobs'[j].exec = jobs[j].exec
      BY <1>0, <2>4, ExecutionFields
    <3>2. jobs[j].status \in Phase => Named(w, j)
      BY <1>0, <2>1, <2>4, ExecutionFields DEF Named
    <3>3. /\ jobs'[j].attempts = jobs[j].attempts /\ jobs'[j].status = jobs[j].status
          /\ jobs'[j].cancel = jobs[j].cancel
      BY <1>0, <2>4, ExecutionFields
    <3>4. jobs[j].status \in {"absent", "queued"} => jobs[j].status \notin Phase
      BY DEF Phase
    <3> QED  BY <3>1, <3>2, <3>3, <3>4 DEF RowMoves
  <2>5. CASE e \in Phase /\ jobs'[j] = UpdateProgress(jobs[j], e)
    BY <1>0, <2>5, ProgressFields DEF RowMoves, Phase
  <2> HIDE DEF e
  <2> QED  BY <1>3, <1>4, <2>1, <2>2, <2>3, <2>4, <2>5
<1>8. ASSUME NEW k \in Job, Enqueue(k) \/ RequestCancel(k) \/ Retry(k) PROVE RowMoves(j)
  <2>1. \/ jobs[k].status = "absent" /\ jobs' = [jobs EXCEPT ![k] = NewRow(jobs[k])]
        \/ jobs' = [jobs EXCEPT ![k] = CancelRow(jobs[k])]
        \/ jobs' = [jobs EXCEPT ![k] = RetryRow(jobs[k])]
    BY <1>8 DEF Enqueue, RequestCancel, Retry
  <2>2. CASE k # j
    BY <2>1, <2>2, <1>2
  <2>3. CASE jobs[j].status = "absent" /\ jobs'[j] = NewRow(jobs[j])
    BY <1>0, <2>3, QueueFields DEF RowMoves, Phase
  <2>4. CASE jobs'[j] = CancelRow(jobs[j])
    BY <1>0, <2>4, CancelFields DEF RowMoves, Phase
  <2>5. CASE jobs'[j] = RetryRow(jobs[j])
    BY <1>0, <2>5, QueueFields DEF RowMoves, Phase
  <2> QED  BY <1>3, <2>1, <2>2, <2>3, <2>4, <2>5
<1>9. CASE Open
  <2>1. jobs'[j] = RecoverRow(jobs[j])
    BY <1>9 DEF Open
  <2> QED  BY <1>0, <2>1, RecoverFields DEF RowMoves, Phase
<1>10. ASSUME NEW w \in Worker, WorkerStep(w) \/ UpdaterStep(w) \/ FaultStep(w) PROVE RowMoves(j)
  <2> USE <1>1 DEF dbVars
  <2>1. CASE Claim(w)
    BY <2>1 DEF Claim, Starts
  <2> QED
    BY <1>5, <1>6, <1>7, <1>10, <2>1
       DEF WorkerStep, UpdaterStep, FaultStep, NextRunnable, AwaitNotify, CreateExecution,
           MarkRunning, AnnounceConnecting, Connect, EnterPhase, TransferEnds, RecordOutcome,
           Decide, CheckCancel, LoopFault, UpdaterFault, ExecutionFault, ConcludeFault, RetryFault
<1>11. CASE Exit \/ UNCHANGED vars \/ \E e \in Exec : SignalExecution(e)
  BY <1>1, <1>11 DEF Exit, SignalExecution, dbVars, vars
<1> QED  BY <1>8, <1>9, <1>10, <1>11 DEF Next, UserStep

\* What steps add to the registry, the cancelled tokens and the pending calls.
LEMMA TokenStep ==
    ASSUME TypeInv, [Next]_vars, NEW e \in registry' \cup cancelled' \cup signals'
    PROVE  \/ e \in registry \cup cancelled \cup signals
           \/ \E w \in Worker : pc[w] = "mark" /\ e = ExecOf(w)
           \/ \E j \in Job : /\ e = <<j, jobs[j].exec>> /\ e \in signals' /\ jobs[j].status \in Phase
                             /\ jobs[j].exec # 0 /\ jobs'[j].cancel
<1> DEFINE G == \/ e \in registry \cup cancelled \cup signals
                \/ \E w \in Worker : pc[w] = "mark" /\ e = ExecOf(w)
                \/ \E j \in Job : /\ e = <<j, jobs[j].exec>> /\ e \in signals'
                                  /\ jobs[j].status \in Phase
                                  /\ jobs[j].exec # 0 /\ jobs'[j].cancel
<1>1. ASSUME UNCHANGED <<registry, cancelled, signals>> PROVE G
  BY <1>1
<1>2. ASSUME NEW w \in Worker, WorkerStep(w) \/ UpdaterStep(w) \/ FaultStep(w) PROVE G
  <2>1. ASSUME Connect(w) \/ TransferEnds(w) PROVE G
    BY <2>1 DEF Connect, TransferEnds, EndTransfer
  <2>2. CASE MarkRunning(w)
    BY <2>2 DEF MarkRunning
  <2>3. CASE CheckCancel(w)
    BY <2>3 DEF CheckCancel
  <2> HIDE DEF G
  <2>4. CASE UNCHANGED tokenVars
    BY <2>4, <1>1 DEF tokenVars
  <2> QED  BY <1>2, <2>1, <2>2, <2>3, <2>4
          DEF WorkerStep, UpdaterStep, FaultStep, NextRunnable, AwaitNotify, CreateExecution, Claim,
              AnnounceConnecting, EnterPhase, RecordOutcome, Decide, Conclude, RequeueAutomatically,
              ApplyEvent, LoopFault, UpdaterFault, ExecutionFault, ConcludeFault, RetryFault
<1>3. ASSUME NEW j \in Job, RequestCancel(j) PROVE G
  <2>1. jobs[j] \in Row /\ jobs'[j] = CancelRow(jobs[j])
    BY <1>3 DEF RequestCancel, TypeInv, TypeOK
  <2>2. jobs'[j].cancel
    BY <2>1, CancelFields
  <2> QED  BY <1>3, <2>2 DEF RequestCancel, IsActive
<1>4. ASSUME NEW k \in Exec, SignalExecution(k) PROVE G
  BY <1>4 DEF SignalExecution
<1>5. ASSUME Exit PROVE G
  BY <1>5 DEF Exit
<1> HIDE DEF G
<1>6. ASSUME NEW j \in Job, Enqueue(j) \/ Retry(j) PROVE G
  BY <1>1, <1>6 DEF Enqueue, Retry, tokenVars
<1>7. ASSUME UserStep PROVE G
  BY <1>3, <1>4, <1>6, <1>7 DEF UserStep
<1>8. G
  <2>1. UNCHANGED vars \/ Open => UNCHANGED <<registry, cancelled, signals>>
    BY DEF vars, Open, tokenVars
  <2> QED  BY <1>1, <1>2, <1>5, <1>7, <2>1 DEF Next
<1> QED  BY <1>8 DEF G

\* The step that starts an attempt.
LEMMA StartStep ==
    ASSUME TypeInv, NEW w \in Worker, Starts(w)
    PROVE  /\ pc[w] = "claim" /\ cur[w] \in Job /\ jobs[cur[w]].status = "queued"
           /\ jobs'[cur[w]].status = "connecting"
           /\ jobs'[cur[w]].attempts = jobs[cur[w]].attempts + 1
           /\ jobs'[cur[w]].exec = jobs[cur[w]].exec /\ jobs'[cur[w]].cancel = FALSE
           /\ \A j \in Job \ {cur[w]} : jobs'[j] = jobs[j]
           /\ pc'[w] = "create" /\ cur' = cur /\ att'[w] = jobs[cur[w]].attempts + 1
           /\ upd'[w] = "recv" /\ chan'[w] = <<>>
           /\ \A v \in Worker \ {w} : /\ pc'[v] = pc[v] /\ att'[v] = att[v] /\ upd'[v] = upd[v]
                                      /\ chan'[v] = chan[v]
           /\ UNCHANGED <<execs, registry, cancelled, signals, out, faults, overlap>>
<1>1. cur[w] \in Job /\ jobs[cur[w]] \in Row /\ pc[w] = "claim"
  BY DEF Starts, Claim, TypeInv, TypeOK, Locals, HasJob
<1>2. jobs' = [jobs EXCEPT ![cur[w]] = ClaimRow(jobs[cur[w]])] /\ jobs[cur[w]].status = "queued"
  BY DEF Starts, Claim, CanClaim
<1>3. jobs'[cur[w]] = ClaimRow(jobs[cur[w]]) /\ \A j \in Job \ {cur[w]} : jobs'[j] = jobs[j]
  BY <1>1, <1>2 DEF TypeInv, TypeOK
<1>4. /\ pc'[w] = "create" /\ cur' = cur /\ att'[w] = jobs[cur[w]].attempts + 1
      /\ upd'[w] = "recv" /\ chan'[w] = <<>>
      /\ \A v \in Worker \ {w} : /\ pc'[v] = pc[v] /\ att'[v] = att[v] /\ upd'[v] = upd[v]
                                 /\ chan'[v] = chan[v]
      /\ UNCHANGED <<execs, registry, cancelled, signals, out, faults, overlap>>
  BY DEF Starts, Claim, TypeInv, TypeOK, Goto, tokenVars, countVars
<1> QED  BY <1>1, <1>2, <1>3, <1>4, ClaimFields

\* Attempts and executions keep their numbers.
LEMMA NumberedStep ==
    ASSUME TypeInv, TypeInv', Numbered, [Next]_vars
    PROVE  Numbered'
<1>0. /\ \A j \in Job : jobs[j].attempts \in Nat /\ jobs'[j].attempts \in Nat
                        /\ jobs[j].exec \in Nat
      /\ \A w \in Worker : att[w] \in Nat /\ (pc[w] \in Running => cur[w] \in Job)
      /\ \A e \in registry \cup cancelled \cup signals : e[1] \in Job /\ e[2] \in Nat
  BY QueueAssumption DEF TypeInv, TypeOK, Row, Locals, HasJob, Exec
<1>1. \A j \in Job : jobs[j].attempts <= jobs'[j].attempts
  <2>1. ASSUME NEW w \in Worker, Starts(w) PROVE \A j \in Job : jobs[j].attempts <= jobs'[j].attempts
    <3>1. /\ cur[w] \in Job /\ jobs'[cur[w]].attempts = jobs[cur[w]].attempts + 1
          /\ \A j \in Job \ {cur[w]} : jobs'[j] = jobs[j]
      BY <2>1, StartStep
    <3> QED  BY <1>0, <3>1
  <2>2. (~\E w \in Worker : Starts(w)) => \A j \in Job : jobs[j].attempts = jobs'[j].attempts
    BY RowMoveStep DEF RowMoves
  <2> QED  BY <1>0, <2>1, <2>2
<1>2. \A e \in registry' \cup cancelled' \cup signals' : e[2] <= jobs'[e[1]].attempts
  <2> SUFFICES ASSUME NEW e \in registry' \cup cancelled' \cup signals'
               PROVE  e[2] <= jobs'[e[1]].attempts
    OBVIOUS
  <2>1. CASE e \in registry \cup cancelled \cup signals
    BY <1>0, <1>1, <2>1 DEF Numbered
  <2>2. ASSUME NEW w \in Worker, pc[w] = "mark", e = ExecOf(w) PROVE e[2] <= jobs'[e[1]].attempts
    BY <1>0, <1>1, <2>2 DEF Numbered, Running, ExecOf
  <2>3. ASSUME NEW j \in Job, e = <<j, jobs[j].exec>> PROVE e[2] <= jobs'[e[1]].attempts
    BY <1>0, <1>1, <2>3 DEF Numbered
  <2> QED  BY <2>1, <2>2, <2>3, TokenStep
<1>3. ASSUME NEW w \in Worker, Starts(w) PROVE Numbered'
  <2> DEFINE k == cur[w]
  <2>0. /\ pc[w] = "claim" /\ k \in Job /\ jobs[k].status = "queued"
        /\ jobs'[k].status = "connecting" /\ jobs'[k].attempts = jobs[k].attempts + 1
        /\ jobs'[k].exec = jobs[k].exec /\ \A j \in Job \ {k} : jobs'[j] = jobs[j]
        /\ cur' = cur /\ att'[w] = jobs[k].attempts + 1
        /\ \A v \in Worker \ {w} : pc'[v] = pc[v] /\ att'[v] = att[v]
    BY <1>3, StartStep
  <2>1. \A v \in Worker : pc'[v] \in Running => att'[v] <= jobs'[cur'[v]].attempts
    BY <1>0, <2>0 DEF Numbered
  <2>2. \A v \in Worker \ {w} : pc[v] \in Running /\ cur[v] = k => att[v] < jobs[k].attempts + 1
    BY <1>0, <2>0 DEF Numbered
  <2>3. \A u, v \in Worker : u # v /\ pc'[u] \in Running /\ pc'[v] \in Running /\ cur'[u] = cur'[v]
                                => att'[u] # att'[v]
    BY <1>0, <2>0, <2>2 DEF Numbered
  <2>4. \A j \in Job : /\ jobs'[j].exec <= jobs'[j].attempts
                       /\ jobs'[j].status \in {"absent", "queued"} => jobs'[j].exec = 0
    BY <1>0, <2>0 DEF Numbered
  <2> QED  BY <1>2, <2>1, <2>3, <2>4 DEF Numbered
<1>4. CASE ~\E w \in Worker : Starts(w)
  <2>1. Steady /\ \A j \in Job : RowMoves(j)
    BY <1>4, SteadyStep, RowMoveStep
  <2>2. \A v \in Worker : pc'[v] \in Running => att'[v] <= jobs'[cur'[v]].attempts
    BY <1>0, <2>1 DEF Numbered, Steady, RowMoves
  <2>3. \A u, v \in Worker : u # v /\ pc'[u] \in Running /\ pc'[v] \in Running /\ cur'[u] = cur'[v]
                                => att'[u] # att'[v]
    BY <2>1 DEF Numbered, Steady
  <2>4. ASSUME NEW j \in Job
        PROVE  /\ jobs'[j].exec <= jobs'[j].attempts
               /\ jobs'[j].status \in {"absent", "queued"} => jobs'[j].exec = 0
    BY <1>0, <2>1 DEF Numbered, RowMoves, Named
  <2> QED  BY <1>2, <2>2, <2>3, <2>4 DEF Numbered
<1> QED  BY <1>3, <1>4

-----------------------------------------------------------------------------
(* One attempt, seen from its worker: where it is, what it has sent, what  *)
(* its updater and its execution row say.                                  *)

\* A step of somebody else.
Untouched(v) ==
    /\ pc'[v] = pc[v] /\ out'[v] = out[v] /\ upd'[v] = upd[v] /\ chan'[v] = chan[v]
    /\ execs'[ExecOf(v)] = execs[ExecOf(v)]

\* A step of the transfer.
Proceeds(v) ==
    /\ upd'[v] = upd[v]
    /\ \/ pc[v] = "create" /\ pc'[v] = "mark" /\ chan'[v] = chan[v]
       \/ pc[v] = "mark" /\ pc'[v] = "announce" /\ chan'[v] = Append(chan[v], "started")
       \/ pc[v] = "announce" /\ pc'[v] = "connect" /\ chan'[v] = Append(chan[v], "connecting")
       \/ pc[v] = "connect" /\ pc'[v] = "transfer" /\ chan'[v] = chan[v]
       \/ /\ pc[v] = "transfer" /\ pc'[v] = "transfer"
          /\ \E p \in Phase : chan'[v] = Append(chan[v], p)
       \/ /\ pc[v] \in {"connect", "transfer"} /\ pc'[v] = "record" /\ chan'[v] = chan[v]
          /\ out'[v] = "cancelled" => ExecOf(v) \in cancelled
       \/ /\ pc[v] = "record" /\ pc'[v] = "drain" /\ out'[v] = out[v] /\ out[v] \in Outcome
          /\ chan'[v] = Append(chan[v], out[v]) /\ execs'[ExecOf(v)] = StatusOf(out[v])
       \/ /\ pc[v] \in {"create", "mark", "announce", "record", "drain"} /\ pc'[v] = "drain"
          /\ out'[v] = "lost" /\ chan'[v] = chan[v]
          /\ pc[v] = "drain" => execs'[ExecOf(v)] = execs[ExecOf(v)]

\* A step of the updater.
Updates(v) ==
    /\ pc'[v] = pc[v] /\ out'[v] = out[v] /\ execs'[ExecOf(v)] = execs[ExecOf(v)]
    /\ \/ /\ upd[v] = "recv" /\ chan[v] # <<>> /\ chan'[v] = Tail(chan[v])
          /\ Head(chan[v]) = "started" => jobs'[cur[v]] = SetExecution(jobs[cur[v]], att[v])
       \/ upd[v] = "check" /\ chan'[v] = chan[v]
       \/ upd'[v] = "dead" /\ chan'[v] = <<>>

AttemptMoves(v) == Untouched(v) \/ Proceeds(v) \/ Updates(v)

\* Two attempts never share an execution.
LEMMA ExecOfUnique ==
    ASSUME Numbered, NEW v \in Worker, NEW w \in Worker, v # w,
           pc[v] \in Running, pc[w] \in Running
    PROVE  ExecOf(v) # ExecOf(w)
BY DEF Numbered, ExecOf

\* Whose execution rows a step writes.
LEMMA ExecStep ==
    ASSUME TypeInv, [Next]_vars, NEW e \in Exec, execs'[e] # execs[e]
    PROVE  \/ execs[e] = "running" /\ \A v \in Worker : pc'[v] = "next"
           \/ \E w \in Worker : pc[w] \in {"create", "mark", "record"} /\ e = ExecOf(w)
<1> USE DEF TypeInv, TypeOK
<1>1. CASE Open
  BY <1>1 DEF Open, RecoverExec
<1>2. ASSUME NEW w \in Worker, CreateExecution(w) \/ MarkRunning(w) \/ RecordOutcome(w)
      PROVE  pc[w] \in {"create", "mark", "record"} /\ e = ExecOf(w)
  BY <1>2 DEF CreateExecution, MarkRunning, RecordOutcome
<1>3. execs' # execs
  OBVIOUS
<1>4. ASSUME NEW w \in Worker, WorkerStep(w) \/ UpdaterStep(w) \/ FaultStep(w)
      PROVE  CreateExecution(w) \/ MarkRunning(w) \/ RecordOutcome(w)
  BY <1>3, <1>4
     DEF WorkerStep, UpdaterStep, FaultStep, NextRunnable, AwaitNotify, Claim,
         AnnounceConnecting, Connect, EnterPhase, TransferEnds, Decide, Conclude, RequeueAutomatically,
         ApplyEvent, CheckCancel, LoopFault, UpdaterFault, ExecutionFault, ConcludeFault, RetryFault, dbVars
<1>5. ~UserStep /\ ~Exit /\ ~UNCHANGED vars
  BY <1>3 DEF UserStep, Enqueue, RequestCancel, Retry, SignalExecution, Exit, dbVars, vars
<1> QED  BY <1>1, <1>2, <1>4, <1>5 DEF Next

LEMMA AttemptStep ==
    ASSUME TypeInv, Numbered, [Next]_vars, ~\E w \in Worker : Starts(w),
           NEW v \in Worker, pc'[v] \in Running
    PROVE  AttemptMoves(v)
<1>0. pc[v] \in Running /\ cur'[v] = cur[v] /\ att'[v] = att[v]
  BY SteadyStep DEF Steady
<1>1. ExecOf(v) \in Exec
  BY <1>0, ExecOfType
<1>2. ASSUME pc'[v] = pc[v], out'[v] = out[v], upd'[v] = upd[v], chan'[v] = chan[v],
             ~\E w \in Worker : pc[w] \in {"create", "mark", "record"} /\ ExecOf(v) = ExecOf(w)
      PROVE  AttemptMoves(v)
  <2>1. execs'[ExecOf(v)] = execs[ExecOf(v)]
    BY <1>1, <1>2, ExecStep, <1>0 DEF Running
  <2> QED  BY <1>2, <2>1 DEF AttemptMoves, Untouched
<1>3. ASSUME pc'[v] = pc[v], out'[v] = out[v], upd'[v] = upd[v], chan'[v] = chan[v], execs' = execs
      PROVE  AttemptMoves(v)
  BY <1>3 DEF AttemptMoves, Untouched
<1>4. ASSUME NEW w \in Worker, w # v, WorkerStep(w) \/ UpdaterStep(w) \/ FaultStep(w)
      PROVE  AttemptMoves(v)
  <2> USE DEF TypeInv, TypeOK, Goto, Running, eventVars, workerVars
  <2>1. pc'[v] = pc[v]
    <3>1. CASE LeaveJob(w)
      BY <1>0, <1>4, <3>1, LeaveType
    <3> QED  BY <1>4, <3>1
            DEF WorkerStep, UpdaterStep, FaultStep, NextRunnable, AwaitNotify, CreateExecution, Claim,
                MarkRunning, AnnounceConnecting, Connect, EnterPhase, TransferEnds, EndTransfer,
                RecordOutcome, Decide, Conclude, RequeueAutomatically, ApplyEvent, CheckCancel,
                LoopFault, UpdaterFault, ExecutionFault, ConcludeFault, RetryFault
  <2>2. out'[v] = out[v] /\ upd'[v] = upd[v] /\ chan'[v] = chan[v]
    BY <1>4
       DEF WorkerStep, UpdaterStep, FaultStep, NextRunnable, AwaitNotify, CreateExecution, Claim,
           MarkRunning, AnnounceConnecting, Connect, EnterPhase, TransferEnds, EndTransfer, Emit,
           RecordOutcome, Decide, Conclude, RequeueAutomatically, ApplyEvent, CheckCancel,
           LoopFault, UpdaterFault, ExecutionFault, ConcludeFault, RetryFault
  <2>3. execs'[ExecOf(v)] = execs[ExecOf(v)]
    <3>1. CASE CreateExecution(w) \/ MarkRunning(w) \/ RecordOutcome(w)
      <4>1. ExecOf(v) # ExecOf(w)
        BY <1>0, <1>4, <3>1, ExecOfUnique DEF CreateExecution, MarkRunning, RecordOutcome
      <4> QED  BY <1>1, <3>1, <4>1 DEF CreateExecution, MarkRunning, RecordOutcome
    <3> QED  BY <1>4, <3>1
            DEF WorkerStep, UpdaterStep, FaultStep, NextRunnable, AwaitNotify, Claim,
                AnnounceConnecting, Connect, EnterPhase, TransferEnds, Decide, Conclude,
                RequeueAutomatically, ApplyEvent, CheckCancel, LoopFault, UpdaterFault,
                ExecutionFault, ConcludeFault, RetryFault, dbVars
  <2> QED  BY <2>1, <2>2, <2>3 DEF AttemptMoves, Untouched
<1>5. CASE WorkerStep(v)
  <2> USE DEF TypeInv, TypeOK, Goto
  <2>1. CASE CreateExecution(v) \/ MarkRunning(v) \/ AnnounceConnecting(v)
    BY <2>1 DEF AttemptMoves, Proceeds, CreateExecution, MarkRunning, AnnounceConnecting, Emit, eventVars
  <2>2. CASE Connect(v) \/ TransferEnds(v)
    BY <2>2 DEF AttemptMoves, Proceeds, Connect, TransferEnds, EndTransfer, eventVars
  <2>3. CASE EnterPhase(v)
    <3>1. Head(plan[v]) \in Phase
      BY <2>3 DEF EnterPhase
    <3> QED  BY <2>3, <3>1 DEF AttemptMoves, Proceeds, EnterPhase, Emit
  <2>4. CASE RecordOutcome(v)
    <3>1. out[v] \in Outcome
      BY <2>4 DEF RecordOutcome, Locals
    <3> QED  BY <1>1, <2>4, <3>1 DEF AttemptMoves, Proceeds, RecordOutcome, Emit
  <2>5. CASE LeaveJob(v)
    BY <2>5, LeaveType DEF Running
  <2> QED  BY <1>0, <1>5, <2>1, <2>2, <2>3, <2>4, <2>5
          DEF WorkerStep, NextRunnable, AwaitNotify, Claim, Starts, Conclude, Decide,
              RequeueAutomatically, Running
<1>6. CASE UpdaterStep(v)
  <2>1. pc' = pc /\ out' = out /\ execs' = execs
    BY <1>6 DEF UpdaterStep, ApplyEvent, CheckCancel, workerVars, dbVars
  <2>2. CASE CheckCancel(v)
    BY <2>1, <2>2 DEF AttemptMoves, Updates, CheckCancel
  <2>3. CASE ApplyEvent(v)
    <3>1. upd[v] = "recv" /\ chan[v] # <<>> /\ chan'[v] = Tail(chan[v])
      BY <2>3 DEF ApplyEvent, TypeInv, TypeOK
    <3>2. Head(chan[v]) = "started" => jobs'[cur[v]] = SetExecution(jobs[cur[v]], att[v])
      <4>1. "started" \notin Phase \cup Outcome /\ cur[v] \in Job
        BY <1>0 DEF Phase, Outcome, Failure, TypeInv, Locals, HasJob
      <4> QED  BY <2>3, <4>1 DEF ApplyEvent, TypeInv, TypeOK
    <3> QED  BY <2>1, <3>1, <3>2 DEF AttemptMoves, Updates
  <2> QED  BY <1>6, <2>2, <2>3 DEF UpdaterStep
<1>7. CASE FaultStep(v)
  <2> USE DEF TypeInv, TypeOK, Goto
  <2>1. CASE UpdaterFault(v)
    BY <2>1 DEF AttemptMoves, Updates, UpdaterFault, workerVars, dbVars
  <2>2. CASE ExecutionFault(v)
    BY <2>2 DEF AttemptMoves, Proceeds, ExecutionFault, eventVars, dbVars
  <2>3. CASE RetryFault(v)
    BY <1>0, <2>3 DEF RetryFault, Running
  <2> QED  BY <1>0, <1>7, <2>1, <2>2, <2>3 DEF FaultStep, LoopFault, ConcludeFault, Running
<1>8. CASE UserStep
  <2>1. out' = out /\ upd' = upd /\ chan' = chan /\ execs' = execs
    BY <1>8 DEF UserStep, Enqueue, RequestCancel, Retry, SignalExecution, dbVars, workerVars, eventVars
  <2>2. pc'[v] = pc[v]
    <3>1. ASSUME WakeWorkers(pc) PROVE pc'[v] = pc[v]
      BY <1>0, <3>1, WakeType DEF TypeInv, TypeOK, Running
    <3> QED  BY <1>8, <3>1 DEF UserStep, Enqueue, RequestCancel, Retry, SignalExecution, workerVars
  <2> QED  BY <1>3, <2>1, <2>2
<1>9. CASE Exit \/ Open
  BY <1>0, <1>9 DEF Exit, Open, Running
<1>10. CASE UNCHANGED vars
  BY <1>3, <1>10 DEF vars
<1> QED  BY <1>4, <1>5, <1>6, <1>7, <1>8, <1>9, <1>10 DEF Next

\* The end of an attempt, by its last event or by the worker.
EndedBy(w, j) ==
    /\ pc[w] \in Running /\ cur[w] = j /\ jobs[j].status \in Phase
    /\ execs' = execs /\ jobs'[j].exec = jobs[j].exec /\ overlap' = overlap
    /\ \E o \in Outcome :
          /\ jobs'[j].status = StatusOf(o)
          /\ \/ o \in Pending(w) /\ upd[w] = "recv" /\ chan[w] # <<>> /\ Head(chan[w]) = o
             \/ /\ pc[w] = "drain" /\ pc'[w] = "decide"
                /\ \/ o = "permanent"
                   \/ o = out[w] /\ upd[w] = "recv" /\ chan[w] = <<>>

\* A row leaves the phases of a transfer by such an end, or by the recovery.
LEMMA EndStep ==
    ASSUME TypeInv, [Next]_vars, NEW j \in Job,
           jobs[j].status \in Phase, jobs'[j].status \notin Phase
    PROVE  \/ \E w \in Worker : EndedBy(w, j)
           \/ jobs'[j].status = "uncertain" /\ \A w \in Worker : pc[w] = "off" /\ pc'[w] = "next"
<1>0. jobs \in [Job -> Row] /\ jobs[j] \in Row
  BY DEF TypeInv, TypeOK
<1>1. ASSUME NEW w \in Worker, ApplyEvent(w) PROVE EndedBy(w, j)
  <2> DEFINE e == Head(chan[w])
  <2>1. /\ pc[w] \in Running /\ cur[w] \in Job /\ upd[w] = "recv" /\ chan[w] # <<>>
        /\ execs' = execs /\ overlap' = overlap
    BY <1>1 DEF ApplyEvent, TypeInv, Locals, HasJob, dbVars, workerVars, countVars
  <2>2. e \in Pending(w)
    <3>1. chan[w] \in Seq(Event)
      BY DEF TypeInv, TypeOK, Event
    <3> QED  BY <2>1, <3>1 DEF Pending
  <2>3. /\ cur[w] = j /\ e \in Outcome /\ jobs'[j] = FinishRow(jobs[j], e)
    <3>1. ASSUME cur[w] # j PROVE FALSE
      BY <1>0, <1>1, <2>1, <3>1 DEF ApplyEvent
    <3>2. CASE jobs' = [jobs EXCEPT ![j] = SetExecution(jobs[j], att[w])]
      BY <1>0, <3>2, ExecutionFields
    <3>3. CASE e \in Phase /\ jobs' = [jobs EXCEPT ![j] = UpdateProgress(jobs[j], e)]
      BY <1>0, <3>3, ProgressFields
    <3>4. CASE e \in Outcome /\ jobs' = [jobs EXCEPT ![j] = FinishRow(jobs[j], e)]
      BY <1>0, <3>1, <3>4
    <3> QED  BY <1>1, <3>1, <3>2, <3>3, <3>4 DEF ApplyEvent
  <2>4. jobs'[j].status = StatusOf(e) /\ jobs'[j].exec = jobs[j].exec
    BY <1>0, <2>3, FinishFields
  <2> QED  BY <2>1, <2>2, <2>3, <2>4 DEF EndedBy
<1>2. ASSUME NEW w \in Worker, Conclude(w) PROVE EndedBy(w, j)
  <2>1. /\ pc[w] = "drain" /\ pc'[w] = "decide" /\ cur[w] \in Job
        /\ jobs' = [jobs EXCEPT ![cur[w]] = FinishRow(jobs[cur[w]], Verdict(w))]
        /\ execs' = execs /\ overlap' = overlap
    BY <1>2 DEF Conclude, Goto, TypeInv, TypeOK, Locals, HasJob, Running, countVars
  <2>2. cur[w] = j /\ jobs'[j] = FinishRow(jobs[j], Verdict(w))
    BY <1>0, <2>1
  <2>3. jobs'[j].status = StatusOf(Verdict(w)) /\ jobs'[j].exec = jobs[j].exec
    BY <1>0, <2>2, FinishFields
  <2>4. Verdict(w) \in Outcome
    BY DEF Verdict, Outcome, Failure, TypeInv, TypeOK
  <2>5. \/ Verdict(w) = "permanent"
        \/ Verdict(w) = out[w] /\ upd[w] = "recv" /\ chan[w] = <<>>
    BY <1>2 DEF Conclude, Drained, Verdict
  <2> QED  BY <2>1, <2>2, <2>3, <2>4, <2>5 DEF EndedBy, Running
<1>3. ASSUME NEW w \in Worker, RequeueAutomatically(w) PROVE FALSE
  <2>1. cur[w] \in Job /\ (jobs' = jobs \/ (CanRequeue(jobs[cur[w]]) /\ \E r : jobs' = [jobs EXCEPT ![cur[w]] = r]))
    BY <1>3 DEF RequeueAutomatically, TypeInv, Locals, HasJob
  <2> QED  BY <1>0, <2>1 DEF CanRequeue, Phase
<1>4. ASSUME NEW w \in Worker, Claim(w) PROVE FALSE
  BY <1>0, <1>4 DEF Claim, CanClaim, Phase
<1>5. ASSUME NEW k \in Job, Enqueue(k) \/ Retry(k) PROVE FALSE
  BY <1>0, <1>5 DEF Enqueue, Retry, CanRetry, Phase
<1>6. ASSUME NEW k \in Job, RequestCancel(k) PROVE FALSE
  <2>1. jobs' = [jobs EXCEPT ![k] = CancelRow(jobs[k])]
    BY <1>6 DEF RequestCancel
  <2>2. jobs'[j] = jobs[j] \/ jobs'[j] = CancelRow(jobs[j])
    BY <1>0, <2>1
  <2> QED  BY <1>0, <2>2, CancelFields DEF Phase
<1>7. ASSUME Open
      PROVE  jobs'[j].status = "uncertain" /\ \A w \in Worker : pc[w] = "off" /\ pc'[w] = "next"
  <2>1. jobs'[j] = RecoverRow(jobs[j])
    BY <1>7 DEF Open
  <2> QED  BY <1>0, <1>7, <2>1, RecoverFields DEF Open, TypeInv, Locals
<1>8. jobs' # jobs
  OBVIOUS
<1>9. ASSUME NEW w \in Worker, WorkerStep(w) \/ UpdaterStep(w) \/ FaultStep(w) PROVE EndedBy(w, j)
  BY <1>1, <1>2, <1>3, <1>4, <1>8, <1>9
     DEF WorkerStep, UpdaterStep, FaultStep, NextRunnable, AwaitNotify, CreateExecution,
         MarkRunning, AnnounceConnecting, Connect, EnterPhase, TransferEnds, RecordOutcome,
         Decide, CheckCancel, LoopFault, UpdaterFault, ExecutionFault, ConcludeFault, RetryFault, dbVars
<1>10. ~UserStep /\ ~Exit /\ ~UNCHANGED vars
  BY <1>5, <1>6, <1>8 DEF UserStep, SignalExecution, Exit, dbVars, vars
<1> QED  BY <1>7, <1>9, <1>10 DEF Next

LEMMA OverlapStep == [Next]_vars /\ overlap => overlap'
<1>1. ASSUME NEW w \in Worker, WorkerStep(w) \/ UpdaterStep(w) \/ FaultStep(w), overlap PROVE overlap'
  BY <1>1
     DEF WorkerStep, UpdaterStep, FaultStep, NextRunnable, AwaitNotify, CreateExecution, Claim,
         MarkRunning, AnnounceConnecting, Connect, EnterPhase, TransferEnds, RecordOutcome, Conclude,
         RequeueAutomatically, ApplyEvent, Decide, CheckCancel, LoopFault, UpdaterFault,
         ExecutionFault, ConcludeFault, RetryFault, Faulting, countVars
<1>2. (UserStep \/ Exit \/ Open \/ UNCHANGED vars) /\ overlap => overlap'
  BY DEF UserStep, Enqueue, RequestCancel, Retry, SignalExecution, Exit, Open, countVars, vars
<1> QED  BY <1>1, <1>2 DEF Next

\* Events are taken in the order in which they were sent.
LEMMA PendingMoves ==
    ASSUME TypeInv, NEW v \in Worker
    PROVE  /\ chan[v] = <<>> => Pending(v) = {}
           /\ chan'[v] = chan[v] => Pending(v)' = Pending(v)
           /\ \A e : chan'[v] = Append(chan[v], e) => Pending(v)' = Pending(v) \cup {e}
           /\ chan[v] # <<>> /\ chan'[v] = Tail(chan[v]) => Pending(v)' \subseteq Pending(v)
           /\ chan'[v] = <<>> => Pending(v)' = {}
           /\ \A e \in Event : chan'[v] = Append(chan[v], e)
                        => chan'[v] # <<>> /\ Head(chan'[v]) = IF chan[v] = <<>> THEN e ELSE Head(chan[v])
<1>0. chan[v] \in Seq(Event)
  BY DEF TypeInv, TypeOK, Event
<1>1. chan[v] = <<>> => Pending(v) = {}
  BY DEF Pending
<1>2. chan'[v] = chan[v] => Pending(v)' = Pending(v)
  BY DEF Pending
<1>3. ASSUME NEW e, chan'[v] = Append(chan[v], e) PROVE Pending(v)' = Pending(v) \cup {e}
  <2>1. /\ Len(chan'[v]) = Len(chan[v]) + 1
        /\ \A i \in 1..Len(chan[v]) : chan'[v][i] = chan[v][i]
        /\ chan'[v][Len(chan[v]) + 1] = e
    BY <1>0, <1>3
  <2> QED  BY <1>0, <2>1 DEF Pending
<1>4. ASSUME chan[v] # <<>>, chan'[v] = Tail(chan[v]) PROVE Pending(v)' \subseteq Pending(v)
  <2>1. /\ Len(chan'[v]) = Len(chan[v]) - 1
        /\ \A i \in 1..Len(chan'[v]) : chan'[v][i] = chan[v][i + 1] /\ i + 1 \in 1..Len(chan[v])
    BY <1>0, <1>4
  <2> QED  BY <2>1 DEF Pending
<1>5. chan'[v] = <<>> => Pending(v)' = {}
  BY DEF Pending
<1>6. ASSUME NEW e \in Event, chan'[v] = Append(chan[v], e)
      PROVE  chan'[v] # <<>> /\ Head(chan'[v]) = IF chan[v] = <<>> THEN e ELSE Head(chan[v])
  <2>1. chan'[v] \in Seq(Event) /\ chan'[v] # <<>> /\ Head(chan'[v]) = chan'[v][1]
    BY <1>0, <1>6
  <2>2. CASE chan[v] = <<>>
    BY <1>0, <1>6, <2>1, <2>2
  <2>3. CASE chan[v] # <<>>
    <3>1. 1 \in 1..Len(chan[v]) /\ Head(chan[v]) = chan[v][1]
      BY <1>0, <2>3
    <3> QED  BY <1>0, <1>6, <2>1, <2>3, <3>1
  <2> QED  BY <2>2, <2>3
<1> QED  BY <1>1, <1>2, <1>3, <1>4, <1>5, <1>6

-----------------------------------------------------------------------------
(* The parts of the trail.                                                 *)

\* What holds of ids and numbers in every proof below.
LEMMA Bounds ==
    ASSUME TypeInv
    PROVE  /\ \A j \in Job : /\ jobs[j] \in Row /\ jobs[j].attempts \in Nat /\ jobs[j].exec \in Nat
           /\ \A w \in Worker : att[w] \in Nat /\ (pc[w] \in Running => cur[w] \in Job /\ att[w] # 0)
BY QueueAssumption DEF TypeInv, TypeOK, Row, Locals, HasJob

LEMMA UnannouncedStep ==
    ASSUME TypeInv, Numbered, Unannounced, [Next]_vars
    PROVE  Unannounced'
<1> SUFFICES ASSUME NEW v \in Worker, pc'[v] \in {"create", "mark"}
             PROVE  chan'[v] = <<>> /\ jobs'[cur'[v]].exec # att'[v]
  BY DEF Unannounced
<1>1. ASSUME NEW w \in Worker, Starts(w) PROVE chan'[v] = <<>> /\ jobs'[cur'[v]].exec # att'[v]
  <2> DEFINE k == cur[w]
  <2>1. /\ k \in Job /\ jobs'[k].exec = jobs[k].exec /\ \A j \in Job \ {k} : jobs'[j] = jobs[j]
        /\ cur' = cur /\ att'[w] = jobs[k].attempts + 1 /\ chan'[w] = <<>>
        /\ \A u \in Worker \ {w} : pc'[u] = pc[u] /\ att'[u] = att[u] /\ chan'[u] = chan[u]
    BY <1>1, StartStep
  <2>2. CASE v = w
    BY <2>1, <2>2, Bounds DEF Numbered
  <2>3. CASE v # w
    BY <2>1, <2>3, Bounds DEF Unannounced, Running
  <2> QED  BY <2>2, <2>3
<1>2. CASE ~\E w \in Worker : Starts(w)
  <2>1. pc[v] \in Running /\ cur'[v] = cur[v] /\ att'[v] = att[v]
    BY <1>2, SteadyStep DEF Steady, Running
  <2>2. AttemptMoves(v)
    BY <1>2, AttemptStep DEF Running
  <2>3. pc[v] \in {"create", "mark"} /\ chan'[v] = <<>>
    BY <2>2 DEF AttemptMoves, Untouched, Proceeds, Updates, Unannounced
  <2>4. chan[v] = <<>> /\ jobs[cur[v]].exec # att[v]
    BY <2>3 DEF Unannounced
  <2>5. cur[v] \in Job /\ att[v] # 0
    BY <2>1, Bounds
  <2>6. jobs'[cur[v]].exec \in {jobs[cur[v]].exec, 0} \/ \E w \in Worker : Named(w, cur[v])
    BY <1>2, <2>5, RowMoveStep DEF RowMoves
  <2>7. ASSUME NEW w \in Worker, Named(w, cur[v]) PROVE jobs'[cur[v]].exec # att[v]
    <3>1. v # w
      BY <2>4, <2>7 DEF Named
    <3> QED  BY <2>1, <2>7, <3>1 DEF Named, Numbered
  <2> QED  BY <2>1, <2>3, <2>4, <2>5, <2>6, <2>7
<1> QED  BY <1>1, <1>2

LEMMA RecordedStep ==
    ASSUME TypeInv, Numbered, Recorded, [Next]_vars
    PROVE  Recorded'
<1> SUFFICES ASSUME NEW v \in Worker, pc'[v] \in Running
             PROVE  /\ \A o \in Outcome \cap Pending(v)' :
                           pc'[v] = "drain" /\ execs'[ExecOf(v)'] = StatusOf(o)
                    /\ pc'[v] = "drain" /\ out'[v] # "lost" => execs'[ExecOf(v)'] = StatusOf(out'[v])
  BY DEF Recorded
<1>1. ASSUME NEW w \in Worker, Starts(w), v = w
      PROVE  Pending(v)' = {} /\ pc'[v] = "create"
  BY <1>1, StartStep, PendingMoves
<1>2. ASSUME NEW w \in Worker, Starts(w), v # w
      PROVE  /\ pc[v] \in Running /\ Pending(v)' = Pending(v) /\ ExecOf(v)' = ExecOf(v)
             /\ pc'[v] = pc[v] /\ out'[v] = out[v] /\ execs' = execs
  <2>1. /\ cur' = cur /\ out' = out /\ execs' = execs
        /\ \A u \in Worker \ {w} : pc'[u] = pc[u] /\ att'[u] = att[u] /\ chan'[u] = chan[u]
    BY <1>2, StartStep
  <2>2. Pending(v)' = Pending(v)
    BY <1>2, <2>1, PendingMoves
  <2> QED  BY <1>2, <2>1, <2>2 DEF ExecOf
<1>3. CASE ~\E w \in Worker : Starts(w)
  <2>1. pc[v] \in Running /\ ExecOf(v)' = ExecOf(v)
    BY <1>3, SteadyStep DEF Steady, ExecOf
  <2>2. AttemptMoves(v)
    BY <1>3, AttemptStep
  <2>3. /\ \A o \in Outcome \cap Pending(v) : pc[v] = "drain" /\ execs[ExecOf(v)] = StatusOf(o)
        /\ pc[v] = "drain" /\ out[v] # "lost" => execs[ExecOf(v)] = StatusOf(out[v])
    BY <2>1 DEF Recorded
  <2>4. CASE Untouched(v)
    BY <2>1, <2>3, <2>4, PendingMoves DEF Untouched
  <2>5. CASE Updates(v)
    <3>1. Pending(v)' \subseteq Pending(v)
      BY <2>5, PendingMoves DEF Updates
    <3> QED  BY <2>1, <2>3, <2>5, <3>1 DEF Updates
  <2>6. CASE Proceeds(v)
    <3>1. ("started" \notin Outcome) /\ Phase \cap Outcome = {} /\ "connecting" \notin Outcome
      BY DEF Outcome, Failure, Phase
    <3>2. CASE pc'[v] # "drain"
      <4>1. pc[v] # "drain" /\ Outcome \cap Pending(v) = {}
        BY <2>3, <2>6, <3>2 DEF Proceeds
      <4>2. \/ chan'[v] = chan[v]
            \/ \E e : e \notin Outcome /\ chan'[v] = Append(chan[v], e)
        BY <2>6, <3>1, <3>2 DEF Proceeds
      <4>3. Outcome \cap Pending(v)' = {}
        BY <4>1, <4>2, PendingMoves
      <4> QED  BY <3>2, <4>3
    <3>3. CASE /\ pc[v] = "record" /\ pc'[v] = "drain" /\ out'[v] = out[v] /\ out[v] \in Outcome
               /\ chan'[v] = Append(chan[v], out[v]) /\ execs'[ExecOf(v)] = StatusOf(out[v])
      <4>1. Pending(v)' = Pending(v) \cup {out[v]}
        BY <3>3, PendingMoves
      <4>2. Outcome \cap Pending(v) = {}
        BY <2>3, <3>3
      <4> QED  BY <2>1, <3>3, <4>1, <4>2
    <3>4. CASE /\ pc'[v] = "drain" /\ out'[v] = "lost" /\ chan'[v] = chan[v]
               /\ pc[v] = "drain" => execs'[ExecOf(v)] = execs[ExecOf(v)]
      BY <2>1, <2>3, <3>4, PendingMoves
    <3> QED  BY <2>6, <3>2, <3>3, <3>4 DEF Proceeds
  <2> QED  BY <2>2, <2>4, <2>5, <2>6 DEF AttemptMoves
<1>4. ASSUME NEW w \in Worker, Starts(w), v # w
      PROVE  /\ \A o \in Outcome \cap Pending(v)' :
                    pc'[v] = "drain" /\ execs'[ExecOf(v)'] = StatusOf(o)
             /\ pc'[v] = "drain" /\ out'[v] # "lost" => execs'[ExecOf(v)'] = StatusOf(out'[v])
  BY <1>2, <1>4 DEF Recorded
<1> QED  BY <1>1, <1>3, <1>4

LEMMA LatestStep ==
    ASSUME OwnInv, Numbered, Recorded, Latest, [Next]_vars
    PROVE  Latest'
<1> SUFFICES ASSUME ~overlap'
             PROVE  /\ \A v \in Worker : pc'[v] \in Running => att'[v] = jobs'[cur'[v]].attempts
                    /\ \A v \in Worker : pc'[v] \in Running \ {"drain"} => jobs'[cur'[v]].status \in Phase
                    /\ \A j \in Job : jobs'[j].exec \in {0, jobs'[j].attempts}
  BY DEF Latest, IsActive
<1>0. ~overlap /\ TypeInv
  BY OverlapStep DEF OwnInv
<1>1. ASSUME NEW w \in Worker, Starts(w)
      PROVE  /\ \A v \in Worker : pc'[v] \in Running => att'[v] = jobs'[cur'[v]].attempts
             /\ \A v \in Worker : pc'[v] \in Running \ {"drain"} => jobs'[cur'[v]].status \in Phase
             /\ \A j \in Job : jobs'[j].exec \in {0, jobs'[j].attempts}
  <2> DEFINE k == cur[w]
  <2>1. /\ k \in Job /\ jobs[k].status = "queued" /\ jobs'[k].status = "connecting"
        /\ jobs'[k].attempts = jobs[k].attempts + 1 /\ jobs'[k].exec = jobs[k].exec
        /\ \A j \in Job \ {k} : jobs'[j] = jobs[j]
        /\ cur' = cur /\ att'[w] = jobs[k].attempts + 1
        /\ \A u \in Worker \ {w} : pc'[u] = pc[u] /\ att'[u] = att[u]
    BY <1>0, <1>1, StartStep
  <2>2. \A v \in Worker \ {w} : pc[v] \in Running => cur[v] \in Job \ {k}
    BY <1>0, <2>1, Bounds DEF OwnInv, Own, TakenIsOut
  <2>3. \A v \in Worker : pc'[v] \in Running => att'[v] = jobs'[cur'[v]].attempts
    BY <1>0, <2>1, <2>2 DEF Latest
  <2>4. \A v \in Worker : pc'[v] \in Running \ {"drain"} => jobs'[cur'[v]].status \in Phase
    BY <1>0, <2>1, <2>2 DEF Latest, IsActive, Phase
  <2>5. \A j \in Job : jobs'[j].exec \in {0, jobs'[j].attempts}
    BY <1>0, <2>1 DEF Latest, Numbered
  <2> QED  BY <2>3, <2>4, <2>5
<1>2. CASE ~\E w \in Worker : Starts(w)
  <2>1. /\ Steady /\ \A j \in Job : RowMoves(j)
        /\ \A v \in Worker : pc'[v] \in Running => AttemptMoves(v)
    BY <1>0, <1>2, SteadyStep, RowMoveStep, AttemptStep
  <2>2. \A v \in Worker : pc'[v] \in Running => att'[v] = jobs'[cur'[v]].attempts
    BY <1>0, <2>1, Bounds DEF Latest, Steady, RowMoves
  <2>3. ASSUME NEW v \in Worker, pc'[v] \in Running \ {"drain"} PROVE jobs'[cur'[v]].status \in Phase
    <3>1. cur'[v] = cur[v] /\ cur[v] \in Job /\ pc[v] \in Running
      BY <1>0, <2>1, <2>3, Bounds DEF Steady
    <3>2. AttemptMoves(v)
      BY <2>1, <2>3
    <3>3. pc[v] # "drain"
      BY <2>3, <3>2 DEF AttemptMoves, Untouched, Proceeds, Updates
    <3>4. jobs[cur[v]].status \in Phase
      BY <1>0, <3>1, <3>3 DEF Latest, IsActive
    <3>5. ASSUME NEW w \in Worker, EndedBy(w, cur[v]) PROVE FALSE
      <4>1. w = v
        BY <1>0, <3>1, <3>5 DEF EndedBy, OwnInv, Own, NoDoubleRun
      <4> QED  BY <3>1, <3>3, <3>5, <4>1 DEF EndedBy, Recorded
    <3>6. pc[v] # "off"
      BY <3>1 DEF Running
    <3> QED  BY <1>0, <3>1, <3>4, <3>5, <3>6, EndStep
  <2>4. ASSUME NEW j \in Job PROVE jobs'[j].exec \in {0, jobs'[j].attempts}
    <3>1. RowMoves(j) /\ jobs[j].exec \in {0, jobs[j].attempts}
      BY <1>0, <2>1 DEF Latest
    <3>2. ASSUME NEW w \in Worker, Named(w, j) PROVE jobs'[j].exec = jobs[j].attempts
      BY <1>0, <3>2 DEF Named, Latest
    <3> QED  BY <3>1, <3>2 DEF RowMoves
  <2> QED  BY <2>2, <2>3, <2>4
<1> QED  BY <1>1, <1>2

LEMMA IntroducedStep ==
    ASSUME OwnInv, Numbered, Unannounced, Introduced, [Next]_vars
    PROVE  Introduced'
<1> SUFFICES ASSUME ~overlap', NEW v \in Worker, pc'[v] \in Running, jobs'[cur'[v]].status \in Phase,
                    upd'[v] \in {"recv", "check"},
                    \/ chan'[v] # <<>> \/ pc'[v] \in {"announce", "connect", "transfer", "record"}
                    \/ pc'[v] = "drain" /\ out'[v] # "lost"
             PROVE  \/ jobs'[cur'[v]].exec = att'[v]
                    \/ chan'[v] # <<>> /\ Head(chan'[v]) = "started"
  BY DEF Introduced, IsActive
<1>0. ~overlap /\ TypeInv
  BY OverlapStep DEF OwnInv
<1>1. ASSUME pc[v] \in Running, jobs[cur[v]].status \in Phase, upd[v] \in {"recv", "check"},
             \/ chan[v] # <<>> \/ pc[v] \in {"announce", "connect", "transfer", "record"}
             \/ pc[v] = "drain" /\ out[v] # "lost"
      PROVE  jobs[cur[v]].exec = att[v] \/ (chan[v] # <<>> /\ Head(chan[v]) = "started")
  BY <1>0, <1>1 DEF Introduced, IsActive
<1>2. ASSUME NEW w \in Worker, Starts(w)
      PROVE  jobs'[cur'[v]].exec = att'[v] \/ (chan'[v] # <<>> /\ Head(chan'[v]) = "started")
  <2> DEFINE k == cur[w]
  <2>1. /\ k \in Job /\ jobs[k].status = "queued" /\ \A j \in Job \ {k} : jobs'[j] = jobs[j]
        /\ cur' = cur /\ out' = out /\ pc'[w] = "create" /\ chan'[w] = <<>>
        /\ \A u \in Worker \ {w} : /\ pc'[u] = pc[u] /\ att'[u] = att[u] /\ upd'[u] = upd[u]
                                   /\ chan'[u] = chan[u]
    BY <1>0, <1>2, StartStep
  <2>2. v # w
    BY <2>1
  <2>3. cur[v] \in Job \ {k}
    BY <1>0, <2>1, <2>2, Bounds DEF OwnInv, Own, TakenIsOut
  <2> QED  BY <1>1, <2>1, <2>2, <2>3
<1>3. CASE ~\E w \in Worker : Starts(w)
  <2> DEFINE c == cur[v]
             G == jobs'[c].exec = att[v] \/ (chan'[v] # <<>> /\ Head(chan'[v]) = "started")
  <2>1. pc[v] \in Running /\ cur'[v] = c /\ att'[v] = att[v] /\ c \in Job
    BY <1>0, <1>3, SteadyStep, Bounds DEF Steady
  <2>2. AttemptMoves(v) /\ RowMoves(c)
    BY <1>0, <1>3, <2>1, AttemptStep, RowMoveStep
  <2>3. jobs[c].status \in Phase
    BY <2>1, <2>2 DEF RowMoves
  <2>4. ASSUME jobs[c].exec = att[v] PROVE G
    <3>1. ASSUME NEW w \in Worker, Named(w, c) PROVE w = v
      BY <1>0, <2>1, <3>1 DEF Named, OwnInv, Own, NoDoubleRun
    <3>2. jobs'[c].status # "queued"
      BY <2>1 DEF Phase
    <3>3. jobs'[c].exec = att[v]
      BY <2>1, <2>2, <2>4, <3>1, <3>2, Bounds, <1>0 DEF RowMoves, Named
    <3> QED  BY <3>3
  <2>5. CASE Untouched(v)
    BY <1>1, <2>1, <2>3, <2>4, <2>5 DEF Untouched
  <2>6. CASE Updates(v)
    <3>1. CASE upd[v] = "recv" /\ chan[v] # <<>> /\ Head(chan[v]) = "started"
                /\ jobs'[c] = SetExecution(jobs[c], att[v])
      BY <1>0, <2>1, <2>3, <3>1, Bounds, ExecutionFields
    <3>2. CASE upd[v] = "recv" /\ chan[v] # <<>> /\ Head(chan[v]) # "started"
      BY <1>1, <2>1, <2>3, <2>4, <3>2
    <3>3. CASE upd[v] = "check" /\ chan'[v] = chan[v]
      BY <1>1, <2>1, <2>3, <2>4, <2>6, <3>3 DEF Updates
    <3> QED  BY <2>1, <2>6, <3>1, <3>2, <3>3 DEF Updates
  <2>7. CASE Proceeds(v)
    <3>1. upd[v] \in {"recv", "check"}
      BY <2>7 DEF Proceeds
    <3>2. ASSUME chan[v] # <<>> \/ pc[v] \in {"announce", "connect", "transfer", "record"},
                 \/ chan'[v] = chan[v]
                 \/ \E e \in Event : chan'[v] = Append(chan[v], e)
          PROVE  G
      <4>1. jobs[c].exec = att[v] \/ (chan[v] # <<>> /\ Head(chan[v]) = "started")
        BY <1>1, <2>1, <2>3, <3>1, <3>2
      <4>2. ASSUME chan[v] # <<>>, Head(chan[v]) = "started"
            PROVE  chan'[v] # <<>> /\ Head(chan'[v]) = "started"
        BY <1>0, <3>2, <4>2, PendingMoves
      <4> QED  BY <2>4, <4>1, <4>2
    <3>3. CASE pc[v] = "mark" /\ chan'[v] = Append(chan[v], "started")
      <4>1. chan[v] = <<>> /\ "started" \in Event
        BY <3>3 DEF Unannounced, Event
      <4> QED  BY <1>0, <3>3, <4>1, PendingMoves
    <3>4. CASE pc[v] = "create" /\ pc'[v] = "mark" /\ chan'[v] = chan[v]
      BY <3>4 DEF Unannounced
    <3>5. Phase \subseteq Event /\ Outcome \subseteq Event /\ "connecting" \in Phase
      BY DEF Event, Phase
    <3>6. CASE pc'[v] = "drain" /\ out'[v] = "lost" /\ chan'[v] = chan[v]
      <4>1. chan[v] # <<>>
        BY <3>6
      <4> QED  BY <2>1, <3>2, <3>6, <4>1
    <3>7. CASE pc[v] \in {"announce", "connect", "transfer"} /\ pc'[v] # "drain"
      <4>1. chan'[v] = chan[v] \/ \E e \in Event : chan'[v] = Append(chan[v], e)
        BY <2>7, <3>5, <3>7 DEF Proceeds
      <4> QED  BY <2>1, <3>2, <3>7, <4>1
    <3>8. CASE pc[v] = "record" /\ out[v] \in Outcome /\ chan'[v] = Append(chan[v], out[v])
      BY <2>1, <3>2, <3>5, <3>8
    <3> QED  BY <2>7, <3>3, <3>4, <3>6, <3>7, <3>8 DEF Proceeds
  <2> QED  BY <2>1, <2>2, <2>5, <2>6, <2>7 DEF AttemptMoves
<1> QED  BY <1>2, <1>3

\* A token is cancelled, or about to be, because the row says so.
LEMMA TokenWanted ==
    ASSUME TypeInv, [Next]_vars, NEW e \in cancelled' \cup signals', e \notin cancelled \cup signals
    PROVE  jobs[e[1]].cancel \/ jobs'[e[1]].cancel
<1>1. ASSUME NEW w \in Worker, CheckCancel(w) PROVE jobs[e[1]].cancel
  BY <1>1 DEF CheckCancel, ExecOf
<1>2. ASSUME NEW j \in Job, RequestCancel(j) PROVE jobs'[e[1]].cancel
  <2>1. jobs[j] \in Row /\ jobs'[j] = CancelRow(jobs[j])
    BY <1>2 DEF RequestCancel, TypeInv, TypeOK
  <2>2. e = <<j, jobs[j].exec>>
    BY <1>2 DEF RequestCancel
  <2> QED  BY <2>1, <2>2, CancelFields
<1>3. ~UNCHANGED <<cancelled, signals>>
  OBVIOUS
<1>4. ASSUME NEW w \in Worker, WorkerStep(w) \/ UpdaterStep(w) \/ FaultStep(w) PROVE CheckCancel(w)
  <2>1. ~Connect(w) /\ ~TransferEnds(w) /\ ~MarkRunning(w)
    BY DEF Connect, TransferEnds, EndTransfer, MarkRunning
  <2> QED  BY <1>3, <1>4, <2>1
          DEF WorkerStep, UpdaterStep, FaultStep, NextRunnable, AwaitNotify, CreateExecution, Claim,
              AnnounceConnecting, EnterPhase, RecordOutcome, Decide, Conclude, RequeueAutomatically,
              ApplyEvent, LoopFault, UpdaterFault, ExecutionFault, ConcludeFault, RetryFault, tokenVars
<1>5. ~Exit /\ ~Open /\ ~UNCHANGED vars /\ ~\E k \in Exec : SignalExecution(k)
  BY <1>3 DEF Exit, Open, vars, SignalExecution, tokenVars
<1>6. \A j \in Job : ~Enqueue(j) /\ ~Retry(j)
  BY <1>3 DEF Enqueue, Retry, tokenVars
<1> QED  BY <1>1, <1>2, <1>4, <1>5, <1>6 DEF Next, UserStep

LEMMA RequestedStep ==
    ASSUME OwnInv, Numbered, Latest, Requested, [Next]_vars
    PROVE  Requested'
<1> SUFFICES ASSUME ~overlap'
             PROVE  /\ \A j \in Job : /\ jobs'[j].status \in Phase
                                      /\ <<j, jobs'[j].attempts>> \in signals' \cup cancelled'
                                      => jobs'[j].cancel
                    /\ \A v \in Worker :
                          /\ pc'[v] \in Running /\ jobs'[cur'[v]].status \in Phase
                          /\ \/ pc'[v] \in {"record", "drain"} /\ out'[v] = "cancelled"
                             \/ "cancelled" \in Pending(v)'
                          => jobs'[cur'[v]].cancel
  BY DEF Requested, IsActive
<1>0. ~overlap /\ TypeInv
  BY OverlapStep DEF OwnInv
<1>1. ASSUME NEW v \in Worker, pc[v] \in Running, jobs[cur[v]].status \in Phase,
             \/ pc[v] \in {"record", "drain"} /\ out[v] = "cancelled"
             \/ "cancelled" \in Pending(v)
      PROVE  jobs[cur[v]].cancel
  BY <1>0, <1>1 DEF Requested, IsActive
<1>2. ASSUME NEW w \in Worker, Starts(w)
      PROVE  /\ \A j \in Job : /\ jobs'[j].status \in Phase
                               /\ <<j, jobs'[j].attempts>> \in signals' \cup cancelled'
                               => jobs'[j].cancel
             /\ \A v \in Worker :
                   /\ pc'[v] \in Running /\ jobs'[cur'[v]].status \in Phase
                   /\ \/ pc'[v] \in {"record", "drain"} /\ out'[v] = "cancelled"
                      \/ "cancelled" \in Pending(v)'
                   => jobs'[cur'[v]].cancel
  <2> DEFINE k == cur[w]
  <2>1. /\ k \in Job /\ jobs[k].status = "queued" /\ \A j \in Job \ {k} : jobs'[j] = jobs[j]
        /\ jobs'[k].attempts = jobs[k].attempts + 1
        /\ cur' = cur /\ out' = out /\ pc'[w] = "create" /\ chan'[w] = <<>>
        /\ signals' = signals /\ cancelled' = cancelled
        /\ \A u \in Worker \ {w} : pc'[u] = pc[u] /\ chan'[u] = chan[u]
    BY <1>0, <1>2, StartStep
  <2>2. <<k, jobs[k].attempts + 1>> \notin signals \cup cancelled
    <3>1. jobs[k].attempts \in Nat
      BY <1>0, <2>1, Bounds
    <3> QED  BY <3>1 DEF Numbered
  <2>3. \A j \in Job : /\ jobs'[j].status \in Phase
                       /\ <<j, jobs'[j].attempts>> \in signals' \cup cancelled'
                       => jobs'[j].cancel
    BY <1>0, <2>1, <2>2 DEF Requested, IsActive
  <2>4. ASSUME NEW v \in Worker, pc'[v] \in Running, jobs'[cur'[v]].status \in Phase,
               \/ pc'[v] \in {"record", "drain"} /\ out'[v] = "cancelled"
               \/ "cancelled" \in Pending(v)'
        PROVE  jobs'[cur'[v]].cancel
    <3>1. v # w
      BY <1>0, <2>1, <2>4, PendingMoves
    <3>2. pc'[v] = pc[v] /\ Pending(v)' = Pending(v)
      BY <1>0, <2>1, <3>1, PendingMoves
    <3>3. cur[v] \in Job \ {k}
      BY <1>0, <2>1, <2>4, <3>1, <3>2, Bounds DEF OwnInv, Own, TakenIsOut
    <3> QED  BY <1>1, <2>1, <2>4, <3>2, <3>3
  <2> QED  BY <2>3, <2>4
<1>3. CASE ~\E w \in Worker : Starts(w)
  <2>1. /\ Steady /\ \A j \in Job : RowMoves(j)
        /\ \A v \in Worker : pc'[v] \in Running => AttemptMoves(v)
    BY <1>0, <1>3, SteadyStep, RowMoveStep, AttemptStep
  <2>2. ASSUME NEW j \in Job, jobs'[j].status \in Phase,
               <<j, jobs'[j].attempts>> \in signals' \cup cancelled'
        PROVE  jobs'[j].cancel
    <3> DEFINE e == <<j, jobs'[j].attempts>>
    <3>1. e[1] = j /\ RowMoves(j) /\ jobs'[j].attempts = jobs[j].attempts
      BY <2>1 DEF RowMoves
    <3>2. e \in signals \cup cancelled => jobs[j].cancel
      BY <1>0, <2>2, <3>1 DEF Requested, IsActive, RowMoves
    <3>3. e \notin signals \cup cancelled => jobs[j].cancel \/ jobs'[j].cancel
      BY <1>0, <2>2, <3>1, TokenWanted
    <3> QED  BY <2>2, <3>1, <3>2, <3>3 DEF RowMoves
  <2>3. ASSUME NEW v \in Worker, pc'[v] \in Running, jobs'[cur'[v]].status \in Phase,
               \/ pc'[v] \in {"record", "drain"} /\ out'[v] = "cancelled"
               \/ "cancelled" \in Pending(v)'
        PROVE  jobs'[cur'[v]].cancel
    <3> DEFINE c == cur[v]
    <3>1. pc[v] \in Running /\ cur'[v] = c /\ c \in Job
      BY <1>0, <2>1, <2>3, Bounds DEF Steady
    <3>2. AttemptMoves(v) /\ RowMoves(c)
      BY <2>1, <2>3, <3>1
    <3>3. jobs[c].status \in Phase /\ (jobs[c].cancel => jobs'[c].cancel)
      BY <2>3, <3>1, <3>2 DEF RowMoves
    <3>4. ASSUME ExecOf(v) \in cancelled PROVE jobs[c].cancel
      BY <1>0, <3>1, <3>3, <3>4 DEF Latest, Requested, IsActive, ExecOf
    <3>5. CASE Untouched(v)
      <4>1. Pending(v)' = Pending(v)
        BY <1>0, <3>5, PendingMoves DEF Untouched
      <4> QED  BY <1>1, <2>3, <3>1, <3>3, <3>5, <4>1 DEF Untouched
    <3>6. CASE Updates(v)
      <4>1. Pending(v)' \subseteq Pending(v)
        BY <1>0, <3>6, PendingMoves DEF Updates
      <4> QED  BY <1>1, <2>3, <3>1, <3>3, <3>6, <4>1 DEF Updates
    <3>7. CASE Proceeds(v)
      <4>1. CASE "cancelled" \in Pending(v)
        BY <1>1, <3>1, <3>3, <4>1
      <4>2. CASE pc[v] = "record" /\ out[v] = "cancelled"
        BY <1>1, <3>1, <3>3, <4>2
      <4>3. "cancelled" \notin Phase
        BY DEF Phase
      <4>4. CASE "cancelled" \in Pending(v)'
        <5>1. chan'[v] = chan[v] => "cancelled" \in Pending(v)
          BY <1>0, <4>4, PendingMoves
        <5>2. ASSUME NEW e, chan'[v] = Append(chan[v], e), e # "cancelled" PROVE "cancelled" \in Pending(v)
          <6>1. Pending(v)' = Pending(v) \cup {e}
            BY <1>0, <5>2, PendingMoves
          <6> QED  BY <4>4, <5>2, <6>1
        <5> QED  BY <3>7, <4>1, <4>2, <4>3, <5>1, <5>2 DEF Proceeds
      <4>5. CASE pc'[v] \in {"record", "drain"} /\ out'[v] = "cancelled"
        BY <3>1, <3>3, <3>4, <3>7, <4>2, <4>5 DEF Proceeds
      <4> QED  BY <2>3, <4>4, <4>5
    <3> QED  BY <3>2, <3>5, <3>6, <3>7 DEF AttemptMoves
  <2> QED  BY <2>2, <2>3
<1> QED  BY <1>2, <1>3

LEMMA FaultsStep == TypeInv /\ [Next]_vars /\ faults > 0 => faults' > 0
<1> SUFFICES ASSUME TypeInv, [Next]_vars, faults > 0 PROVE faults' > 0
  OBVIOUS
<1>1. faults \in Nat
  BY DEF TypeInv, TypeOK
<1>2. ASSUME NEW w \in Worker, FaultStep(w) PROVE faults' > 0
  BY <1>1, <1>2 DEF FaultStep, LoopFault, UpdaterFault, ExecutionFault, ConcludeFault, RetryFault, Faulting
<1>3. ASSUME NEW w \in Worker, WorkerStep(w) \/ UpdaterStep(w) PROVE faults' = faults
  BY <1>3
     DEF WorkerStep, UpdaterStep, NextRunnable, AwaitNotify, CreateExecution, Claim,
         MarkRunning, AnnounceConnecting, Connect, EnterPhase, TransferEnds, RecordOutcome, Conclude,
         RequeueAutomatically, ApplyEvent, Decide, CheckCancel, countVars
<1>4. UserStep \/ Exit \/ Open \/ UNCHANGED vars => faults' = faults
  BY DEF UserStep, Enqueue, RequestCancel, Retry, SignalExecution, Exit, Open, countVars, vars
<1> QED  BY <1>2, <1>3, <1>4 DEF Next

\* What a cancelled token, a pending call, a registration and the updater's
\* look at the flag become.
LEMMA DeliveryStep ==
    ASSUME TypeInv, [Next]_vars, NEW e
    PROVE  /\ e \in cancelled => e \in cancelled' \/ e \notin registry'
           /\ e \in signals => e \in cancelled' \cup signals' \/ e \notin registry'
           /\ e \in registry' \ registry => \E w \in Worker : pc[w] = "mark" /\ e = ExecOf(w)
           /\ \A w \in Worker : upd[w] = "check" /\ e = ExecOf(w) =>
                 \/ upd'[w] = "check" \/ faults' > 0 \/ e \notin registry'
                 \/ jobs[cur[w]].cancel => e \in cancelled'
<1> DEFINE G == /\ e \in cancelled => e \in cancelled' \/ e \notin registry'
                /\ e \in signals => e \in cancelled' \cup signals' \/ e \notin registry'
                /\ e \in registry' \ registry => \E w \in Worker : pc[w] = "mark" /\ e = ExecOf(w)
                /\ \A w \in Worker : upd[w] = "check" /\ e = ExecOf(w) =>
                      \/ upd'[w] = "check" \/ faults' > 0 \/ e \notin registry'
                      \/ jobs[cur[w]].cancel => e \in cancelled'
<1>0. upd \in [Worker -> {"off", "recv", "check", "dead"}] /\ faults \in Nat
      /\ \A w \in Worker : upd[w] # "off" => pc[w] \in Running
  BY DEF TypeInv, TypeOK, Locals
<1>1. ASSUME UNCHANGED <<registry, cancelled, signals>>,
             \A w \in Worker : upd[w] = "check" => upd'[w] = "check" \/ faults' > 0
      PROVE  G
  BY <1>1
<1>2. ASSUME NEW w \in Worker, WorkerStep(w) \/ UpdaterStep(w) \/ FaultStep(w) PROVE G
  <2>1. CASE Connect(w) \/ TransferEnds(w)
    BY <2>1 DEF Connect, TransferEnds, EndTransfer, eventVars
  <2>2. CASE MarkRunning(w)
    BY <2>2 DEF MarkRunning
  <2>3. CASE CheckCancel(w)
    BY <1>0, <2>3 DEF CheckCancel
  <2>4. CASE Conclude(w) \/ Claim(w) \/ ApplyEvent(w)
    <3>1. UNCHANGED <<registry, cancelled, signals>>
      BY <2>4 DEF Conclude, Claim, ApplyEvent, tokenVars
    <3>2. \A v \in Worker : upd[v] = "check" => upd'[v] = "check"
      BY <1>0, <2>4 DEF Conclude, Claim, ApplyEvent, Drained, Closed, Running, eventVars
    <3> QED  BY <1>1, <3>1, <3>2
  <2>5. CASE FaultStep(w)
    <3>1. UNCHANGED <<registry, cancelled, signals>> /\ faults' = faults + 1
      BY <2>5 DEF FaultStep, LoopFault, UpdaterFault, ExecutionFault, ConcludeFault, RetryFault,
                  Faulting, tokenVars
    <3> QED  BY <1>0, <1>1, <3>1
  <2>6. CASE UNCHANGED tokenVars /\ UNCHANGED upd
    BY <1>1, <2>6 DEF tokenVars
  <2> HIDE DEF G
  <2> QED  BY <1>2, <2>1, <2>2, <2>3, <2>4, <2>5, <2>6
          DEF WorkerStep, UpdaterStep, NextRunnable, AwaitNotify, CreateExecution,
              AnnounceConnecting, EnterPhase, RecordOutcome, Decide, RequeueAutomatically, eventVars
<1>3. ASSUME NEW j \in Job, RequestCancel(j) PROVE G
  BY <1>3 DEF RequestCancel, eventVars
<1>4. ASSUME NEW k \in Exec, SignalExecution(k) PROVE G
  BY <1>4 DEF SignalExecution, eventVars
<1>5. ASSUME Exit PROVE G
  BY <1>5 DEF Exit
<1> HIDE DEF G
<1>6. ASSUME NEW j \in Job, Enqueue(j) \/ Retry(j) PROVE G
  BY <1>1, <1>6 DEF Enqueue, Retry, tokenVars, eventVars
<1>7. ASSUME UserStep PROVE G
  BY <1>3, <1>4, <1>6, <1>7 DEF UserStep
<1>8. UNCHANGED vars \/ Open => UNCHANGED <<registry, cancelled, signals, upd>>
  BY DEF vars, Open, tokenVars, eventVars
<1>9. G
  BY <1>1, <1>2, <1>5, <1>7, <1>8 DEF Next
<1> QED  BY <1>9 DEF G

\* The flag of an active row is set by request_cancel, which names the
\* execution it has to signal.
LEMMA WishStep ==
    ASSUME TypeInv, [Next]_vars, NEW j \in Job, jobs[j].status \in Phase, jobs[j].exec # 0,
           ~jobs[j].cancel, jobs'[j].cancel
    PROVE  <<j, jobs[j].exec>> \in signals'
<1>0. jobs \in [Job -> Row] /\ jobs[j] \in Row
  BY DEF TypeInv, TypeOK
<1>1. jobs[j].cancel = FALSE /\ jobs'[j].cancel # FALSE
  BY <1>0 DEF Row
<1>2. ASSUME NEW k \in Job, NEW r, jobs' = [jobs EXCEPT ![k] = r], k # j PROVE FALSE
  BY <1>0, <1>2
<1>3. ASSUME NEW w \in Worker, Claim(w) \/ Conclude(w) \/ RequeueAutomatically(w) \/ ApplyEvent(w)
      PROVE  FALSE
  <2>1. cur[w] \in Job
    BY <1>3 DEF Claim, Conclude, RequeueAutomatically, ApplyEvent, TypeInv, Locals, HasJob, Running
  <2>2. \/ jobs' = jobs
        \/ jobs' = [jobs EXCEPT ![cur[w]] = ClaimRow(jobs[cur[w]])]
        \/ jobs' = [jobs EXCEPT ![cur[w]] = RequeueRow(jobs[cur[w]])]
        \/ jobs' = [jobs EXCEPT ![cur[w]] = SetExecution(jobs[cur[w]], att[w])]
        \/ \E p : jobs' = [jobs EXCEPT ![cur[w]] = UpdateProgress(jobs[cur[w]], p)]
        \/ \E o : jobs' = [jobs EXCEPT ![cur[w]] = FinishRow(jobs[cur[w]], o)]
    BY <1>3 DEF Claim, Conclude, RequeueAutomatically, ApplyEvent
  <2>3. jobs' # jobs /\ cur[w] = j
    BY <1>2, <2>1, <2>2
  <2>4. \/ jobs'[j] = ClaimRow(jobs[j]) \/ jobs'[j] = RequeueRow(jobs[j])
        \/ jobs'[j] = SetExecution(jobs[j], att[w])
        \/ \E p : jobs'[j] = UpdateProgress(jobs[j], p)
        \/ \E o : jobs'[j] = FinishRow(jobs[j], o)
    BY <1>0, <2>2, <2>3
  <2>5. jobs'[j].cancel \in {jobs[j].cancel, FALSE}
    <3>1. ASSUME NEW p, jobs'[j] = UpdateProgress(jobs[j], p) PROVE jobs'[j].cancel = jobs[j].cancel
      BY <1>0, <3>1, ProgressFields
    <3>2. ASSUME NEW o, jobs'[j] = FinishRow(jobs[j], o) PROVE jobs'[j].cancel = jobs[j].cancel
      BY <1>0, <3>2, FinishFields
    <3>3. jobs'[j] = SetExecution(jobs[j], att[w]) => jobs'[j].cancel = jobs[j].cancel
      BY <1>0, ExecutionFields
    <3>4. jobs'[j] = ClaimRow(jobs[j]) => jobs'[j].cancel = FALSE
      BY <1>0, ClaimFields
    <3>5. jobs'[j] = RequeueRow(jobs[j]) => jobs'[j].cancel = FALSE
      BY <1>0, QueueFields
    <3> QED  BY <2>4, <3>1, <3>2, <3>3, <3>4, <3>5
  <2> QED  BY <1>1, <2>5
<1>4. ASSUME NEW k \in Job, Enqueue(k) \/ Retry(k) PROVE FALSE
  <2>1. k = j => jobs'[j] = NewRow(jobs[j]) \/ jobs'[j] = RetryRow(jobs[j])
    BY <1>0, <1>4 DEF Enqueue, Retry
  <2>2. k = j
    BY <1>2, <1>4 DEF Enqueue, Retry
  <2> QED  BY <1>0, <1>1, <2>1, <2>2, QueueFields
<1>5. ASSUME NEW k \in Job, RequestCancel(k) PROVE <<j, jobs[j].exec>> \in signals'
  <2>1. k = j
    BY <1>2, <1>5 DEF RequestCancel
  <2> QED  BY <1>5, <2>1 DEF RequestCancel, Phase
<1>6. ~Open
  <2>1. Open => jobs'[j] = RecoverRow(jobs[j])
    BY DEF Open
  <2> QED  BY <1>0, <1>1, <2>1, RecoverFields
<1>7. jobs' # jobs
  OBVIOUS
<1>8. ASSUME NEW w \in Worker, WorkerStep(w) \/ UpdaterStep(w) \/ FaultStep(w) PROVE FALSE
  BY <1>3, <1>7, <1>8
     DEF WorkerStep, UpdaterStep, FaultStep, NextRunnable, AwaitNotify, CreateExecution,
         MarkRunning, AnnounceConnecting, Connect, EnterPhase, TransferEnds, RecordOutcome,
         Decide, CheckCancel, LoopFault, UpdaterFault, ExecutionFault, ConcludeFault, RetryFault, dbVars
<1>9. ~Exit /\ ~UNCHANGED vars /\ ~\E e \in Exec : SignalExecution(e)
  BY <1>7 DEF SignalExecution, Exit, dbVars, vars
<1> QED  BY <1>4, <1>5, <1>6, <1>8, <1>9 DEF Next, UserStep

LEMMA CancelDeliveredStep ==
    ASSUME TypeInv, TypeInv', Numbered, Unannounced, CancelDelivered, [Next]_vars
    PROVE  CancelDelivered'
<1> SUFFICES ASSUME NEW j \in Job, jobs'[j].status \in Phase, jobs'[j].cancel, jobs'[j].exec # 0,
                    ~(faults' > 0)
             PROVE  LET e == <<j, jobs'[j].exec>> IN
                    \/ e \in cancelled' \/ e \notin registry' \/ e \in signals'
                    \/ \E w \in Worker : ExecOf(w)' = e /\ upd'[w] = "check"
  BY DEF CancelDelivered, IsActive
<1> DEFINE e == <<j, jobs'[j].exec>>
<1>0. ~(faults > 0)
  BY FaultsStep
<1>1. ASSUME NEW w \in Worker, Starts(w)
      PROVE  \/ e \in cancelled' \/ e \notin registry' \/ e \in signals'
             \/ \E v \in Worker : ExecOf(v)' = e /\ upd'[v] = "check"
  <2> DEFINE k == cur[w]
  <2>1. /\ pc[w] = "claim" /\ k \in Job /\ jobs'[k].cancel = FALSE
        /\ \A i \in Job \ {k} : jobs'[i] = jobs[i]
        /\ cur' = cur /\ UNCHANGED <<registry, cancelled, signals>>
        /\ \A v \in Worker \ {w} : att'[v] = att[v] /\ upd'[v] = upd[v]
    BY <1>1, StartStep
  <2>2. jobs'[j] = jobs[j]
    BY <2>1
  <2>3. upd[w] # "check"
    BY <2>1 DEF TypeInv, Locals, Running
  <2>4. ASSUME NEW v \in Worker, ExecOf(v) = e, upd[v] = "check"
        PROVE  ExecOf(v)' = e /\ upd'[v] = "check"
    BY <2>1, <2>3, <2>4 DEF ExecOf
  <2> QED  BY <1>0, <2>1, <2>2, <2>4 DEF CancelDelivered, IsActive
<1>2. CASE ~\E w \in Worker : Starts(w)
  <2>1. RowMoves(j) /\ Steady
    BY <1>2, RowMoveStep, SteadyStep
  <2>2. jobs[j].status \in Phase /\ jobs'[j].status # "queued"
    BY <2>1 DEF RowMoves, Phase
  <2>3. ASSUME NEW w \in Worker, Named(w, j)
        PROVE  ExecOf(w)' = e /\ upd'[w] = "check"
    BY <2>3 DEF Named, ExecOf
  <2>4. CASE jobs'[j].exec = jobs[j].exec
    <3>1. CASE ~jobs[j].cancel
      BY <2>2, <2>4, <3>1, WishStep
    <3>2. CASE jobs[j].cancel
      <4>1. e = <<j, jobs[j].exec>> /\ jobs[j].exec # 0
        BY <2>4
      <4>2. \/ e \in cancelled \/ e \notin registry \/ e \in signals
            \/ \E w \in Worker : ExecOf(w) = e /\ upd[w] = "check"
        BY <1>0, <2>2, <3>2, <4>1 DEF CancelDelivered, IsActive
      <4>3. CASE e \in cancelled \cup signals
        BY <4>3, DeliveryStep
      <4>4. CASE e \notin registry
        <5>1. ASSUME NEW w \in Worker, pc[w] = "mark", e = ExecOf(w) PROVE FALSE
          BY <4>1, <5>1 DEF Unannounced, ExecOf
        <5> QED  BY <4>4, <5>1, DeliveryStep
      <4>5. ASSUME NEW w \in Worker, ExecOf(w) = e, upd[w] = "check"
            PROVE  \/ e \in cancelled' \/ e \notin registry'
                   \/ ExecOf(w)' = e /\ upd'[w] = "check"
        <5>1. cur[w] = j
          BY <4>5 DEF ExecOf
        <5>2. upd'[w] = "check" => ExecOf(w)' = ExecOf(w)
          BY <2>1 DEF Steady, ExecOf, TypeInv, Locals
        <5> QED  BY <3>2, <4>5, <5>1, <5>2, DeliveryStep
      <4> QED  BY <4>2, <4>3, <4>4, <4>5
    <3> QED  BY <3>1, <3>2
  <2> QED  BY <2>1, <2>2, <2>3, <2>4 DEF RowMoves
<1> QED  BY <1>1, <1>2

\* A row outside the phases of a transfer stays as it is, goes to the queue,
\* or is cancelled there.
LEMMA RestStep ==
    ASSUME TypeInv, [Next]_vars, ~\E w \in Worker : Starts(w), NEW j \in Job,
           jobs[j].status \notin Phase
    PROVE  \/ jobs'[j].status \in {jobs[j].status, "queued"}
           \/ jobs[j].status = "queued" /\ jobs'[j].status = "cancelled"
<1> DEFINE G == \/ jobs'[j].status \in {jobs[j].status, "queued"}
                \/ jobs[j].status = "queued" /\ jobs'[j].status = "cancelled"
<1>0. jobs \in [Job -> Row] /\ jobs[j] \in Row
  BY DEF TypeInv, TypeOK
<1>1. ASSUME jobs'[j] = jobs[j] PROVE G
  BY <1>1
<1>2. ASSUME NEW k \in Job, NEW r, jobs' = [jobs EXCEPT ![k] = r], k # j \/ r.status = jobs[j].status
      PROVE  G
  BY <1>0, <1>2
<1>3. ASSUME NEW w \in Worker, Conclude(w) \/ RequeueAutomatically(w) \/ ApplyEvent(w)
      PROVE  G
  <2> HIDE DEF G
  <2>1. cur[w] \in Job
    BY <1>3 DEF Conclude, RequeueAutomatically, ApplyEvent, TypeInv, Locals, HasJob, Running
  <2>2. \/ jobs' = jobs
        \/ jobs' = [jobs EXCEPT ![cur[w]] = RequeueRow(jobs[cur[w]])]
        \/ jobs' = [jobs EXCEPT ![cur[w]] = SetExecution(jobs[cur[w]], att[w])]
        \/ \E p : jobs' = [jobs EXCEPT ![cur[w]] = UpdateProgress(jobs[cur[w]], p)]
        \/ \E o : jobs' = [jobs EXCEPT ![cur[w]] = FinishRow(jobs[cur[w]], o)]
    BY <1>3 DEF Conclude, RequeueAutomatically, ApplyEvent
  <2>3. CASE jobs' = jobs \/ cur[w] # j
    BY <1>1, <1>2, <2>1, <2>2, <2>3
  <2>4. CASE cur[w] = j
    <3>1. ASSUME NEW p PROVE UpdateProgress(jobs[j], p).status = jobs[j].status
      BY <1>0, ProgressFields
    <3>2. ASSUME NEW o PROVE FinishRow(jobs[j], o).status = jobs[j].status
      BY <1>0, FinishFields
    <3>3. SetExecution(jobs[j], att[w]).status = jobs[j].status
      BY <1>0, ExecutionFields
    <3>4. CASE jobs' = [jobs EXCEPT ![j] = RequeueRow(jobs[j])]
      <4>1. jobs'[j] = RequeueRow(jobs[j])
        BY <1>0, <3>4
      <4> QED  BY <1>0, <4>1, QueueFields DEF G
    <3> QED  BY <1>1, <1>2, <2>2, <2>4, <3>1, <3>2, <3>3, <3>4
  <2> QED  BY <2>3, <2>4
<1>4. ASSUME NEW k \in Job, Enqueue(k) \/ Retry(k) \/ RequestCancel(k) PROVE G
  <2>1. CASE k = j
    <3>1. \/ jobs'[j] = NewRow(jobs[j]) \/ jobs'[j] = RetryRow(jobs[j])
          \/ jobs[j].status = "queued" /\ jobs'[j] = CancelRow(jobs[j])
      BY <1>0, <1>4, <2>1 DEF Enqueue, Retry, RequestCancel, IsActive
    <3>2. NewRow(jobs[j]).status = "queued" /\ RetryRow(jobs[j]).status = "queued"
      BY <1>0, QueueFields
    <3>3. jobs[j].status = "queued" => CancelRow(jobs[j]).status = "cancelled"
      BY <1>0, CancelFields
    <3> QED  BY <3>1, <3>2, <3>3
  <2> HIDE DEF G
  <2> QED  BY <1>2, <1>4, <2>1 DEF Enqueue, Retry, RequestCancel
<1>5. ASSUME Open PROVE G
  <2>1. jobs'[j] = RecoverRow(jobs[j])
    BY <1>5 DEF Open
  <2> QED  BY <1>0, <2>1, RecoverFields
<1> HIDE DEF G
<1>6. ASSUME NEW w \in Worker, WorkerStep(w) \/ UpdaterStep(w) \/ FaultStep(w) PROVE G
  BY <1>1, <1>3, <1>6
     DEF WorkerStep, UpdaterStep, FaultStep, NextRunnable, AwaitNotify, CreateExecution, Claim, Starts,
         MarkRunning, AnnounceConnecting, Connect, EnterPhase, TransferEnds, RecordOutcome,
         Decide, CheckCancel, LoopFault, UpdaterFault, ExecutionFault, ConcludeFault, RetryFault, dbVars
<1>7. Exit \/ UNCHANGED vars \/ (\E e \in Exec : SignalExecution(e)) => jobs' = jobs
  BY DEF SignalExecution, Exit, dbVars, vars
<1>8. G
  BY <1>1, <1>4, <1>5, <1>6, <1>7 DEF Next, UserStep
<1> QED  BY <1>8 DEF G

LEMMA JobMatchesStep ==
    ASSUME OwnInv, Numbered, Recorded, Latest, Introduced, JobMatchesExecution, [Next]_vars
    PROVE  JobMatchesExecution'
<1> SUFFICES ASSUME ~overlap', NEW j \in Job
             PROVE  /\ jobs'[j].status = "succeeded" => jobs'[j].exec # 0
                    /\ jobs'[j].status \in {"succeeded", "cancelled"} /\ jobs'[j].exec # 0
                          => execs'[<<j, jobs'[j].exec>>] = jobs'[j].status
  BY DEF JobMatchesExecution
<1>0. ~overlap /\ TypeInv /\ jobs[j].exec \in Nat
  BY OverlapStep, Bounds DEF OwnInv
<1>1. ASSUME NEW w \in Worker, Starts(w)
      PROVE  /\ jobs'[j].status = "succeeded" => jobs'[j].exec # 0
             /\ jobs'[j].status \in {"succeeded", "cancelled"} /\ jobs'[j].exec # 0
                   => execs'[<<j, jobs'[j].exec>>] = jobs'[j].status
  <2>1. /\ jobs'[cur[w]].status = "connecting" /\ execs' = execs
        /\ \A i \in Job \ {cur[w]} : jobs'[i] = jobs[i]
    BY <1>0, <1>1, StartStep
  <2> QED  BY <1>0, <2>1 DEF JobMatchesExecution
<1>2. ASSUME ~\E w \in Worker : Starts(w), jobs'[j].status \in {"succeeded", "cancelled"}
      PROVE  /\ jobs'[j].status = "succeeded" => jobs'[j].exec # 0
             /\ jobs'[j].exec # 0 => execs'[<<j, jobs'[j].exec>>] = jobs'[j].status
  <2>1. RowMoves(j)
    BY <1>0, <1>2, RowMoveStep
  <2>2. CASE jobs[j].status \in Phase
    <3>1. jobs'[j].status \notin Phase \cup {"uncertain"}
      BY <1>2 DEF Phase
    <3>2. PICK w \in Worker : EndedBy(w, j)
      BY <1>0, <2>2, <3>1, EndStep
    <3>3. /\ pc[w] \in Running /\ cur[w] = j /\ execs' = execs /\ jobs'[j].exec = jobs[j].exec
          /\ att[w] \in Nat \ {0}
      BY <1>0, <3>2, Bounds DEF EndedBy
    <3>4. PICK o \in Outcome :
              /\ jobs'[j].status = StatusOf(o)
              /\ \/ o \in Pending(w) /\ upd[w] = "recv" /\ chan[w] # <<>> /\ Head(chan[w]) = o
                 \/ /\ pc[w] = "drain"
                    /\ o = "permanent" \/ (o = out[w] /\ upd[w] = "recv" /\ chan[w] = <<>>)
      BY <3>2 DEF EndedBy
    <3>5. /\ upd[w] = "recv" /\ execs[ExecOf(w)] = StatusOf(o)
          /\ \/ chan[w] # <<>> /\ Head(chan[w]) # "started"
             \/ pc[w] = "drain" /\ out[w] # "lost" /\ chan[w] = <<>>
      <4>1. o # "permanent"
        BY <1>2, <3>4 DEF StatusOf
      <4>2. o \notin {"lost", "started"}
        BY DEF Outcome, Failure
      <4> QED  BY <3>3, <3>4, <4>1, <4>2 DEF Recorded
    <3>6. jobs[j].exec = att[w]
      BY <1>0, <2>2, <3>3, <3>5 DEF Introduced, IsActive
    <3> QED  BY <3>3, <3>4, <3>5, <3>6 DEF ExecOf
  <2>3. CASE jobs[j].status \notin Phase
    <3>1. jobs'[j].exec = jobs[j].exec
      BY <1>2, <2>1, <2>3 DEF RowMoves, Named
    <3>2. \/ jobs'[j].status = jobs[j].status
          \/ jobs[j].status = "queued" /\ jobs'[j].status = "cancelled"
      BY <1>0, <1>2, <2>3, RestStep
    <3>3. CASE jobs[j].status = "queued" /\ jobs'[j].status = "cancelled"
      BY <3>1, <3>3 DEF Numbered
    <3>4. CASE jobs'[j].status = jobs[j].status /\ jobs[j].exec # 0
      <4> DEFINE e == <<j, jobs[j].exec>>
      <4>1. execs[e] = jobs[j].status
        BY <1>0, <1>2, <3>4 DEF JobMatchesExecution
      <4>2. e \in Exec
        BY <1>0, <3>4, QueueAssumption DEF TypeInv, TypeOK, Row, Exec
      <4>3. ASSUME NEW w \in Worker, pc[w] \in {"create", "mark", "record"}, e = ExecOf(w) PROVE FALSE
        BY <1>0, <2>3, <4>3 DEF Latest, IsActive, ExecOf, Running
      <4>4. execs'[e] = execs[e]
        BY <1>0, <1>2, <3>4, <4>1, <4>2, <4>3, ExecStep
      <4> QED  BY <1>2, <3>1, <3>4, <4>1, <4>4
    <3>5. CASE jobs'[j].status = jobs[j].status /\ jobs[j].exec = 0
      BY <1>0, <1>2, <3>1, <3>5 DEF JobMatchesExecution
    <3> QED  BY <3>2, <3>3, <3>4, <3>5
  <2> QED  BY <2>2, <2>3
<1> QED  BY <1>1, <1>2

-----------------------------------------------------------------------------
(* The trail as a whole.                                                   *)

LEMMA TrailInit == Init => TrailInv
<1> SUFFICES ASSUME Init PROVE TrailInv
  OBVIOUS
<1>1. OwnInv
  BY OwnInit
<1>2. \A j \in Job : /\ jobs[j].status = "absent" /\ jobs[j].exec = 0 /\ jobs[j].attempts = 0
  BY DEF Init
<1>3. /\ \A w \in Worker : pc[w] = "next"
      /\ registry = {} /\ cancelled = {} /\ signals = {}
  BY DEF Init
<1>4. Numbered /\ Unannounced /\ Recorded
  BY <1>2, <1>3 DEF Numbered, Unannounced, Recorded, Running
<1>5. Latest /\ Introduced /\ Requested
  BY <1>2, <1>3 DEF Latest, Introduced, Requested, Running, IsActive, Phase
<1>6. CancelDelivered /\ JobMatchesExecution
  BY <1>2 DEF CancelDelivered, JobMatchesExecution, IsActive, Phase
<1> QED  BY <1>1, <1>4, <1>5, <1>6 DEF TrailInv, Trail

LEMMA TrailStep == TrailInv /\ [Next]_vars => TrailInv'
<1> SUFFICES ASSUME TrailInv, [Next]_vars PROVE TrailInv'
  OBVIOUS
<1> USE DEF TrailInv, Trail
<1>1. OwnInv' /\ TypeInv /\ TypeInv'
  BY OwnStep DEF OwnInv
<1>2. Numbered' /\ Unannounced' /\ Recorded'
  BY <1>1, NumberedStep, UnannouncedStep, RecordedStep
<1>3. Latest' /\ Introduced' /\ Requested'
  BY LatestStep, IntroducedStep, RequestedStep
<1>4. CancelDelivered' /\ JobMatchesExecution'
  BY <1>1, CancelDeliveredStep, JobMatchesStep
<1> QED  BY <1>1, <1>2, <1>3, <1>4

\* A request to cancel a running job is not lost between request_cancel and
\* set_execution: its token is cancelled or gone, or somebody is about to.
THEOREM CancellationsArrive == Spec => []CancelDelivered
<1>1. TrailInv => CancelDelivered
  BY DEF TrailInv
<1> QED  BY <1>1, TrailInit, TrailStep, PTL DEF Spec

\* A job shown as succeeded or cancelled points at an execution record with
\* that status, while no job is requeued under a worker's hands.
THEOREM RowsMatchExecutions == Spec => []JobMatchesExecution
<1>1. TrailInv => JobMatchesExecution
  BY DEF TrailInv
<1> QED  BY <1>1, TrailInit, TrailStep, PTL DEF Spec

-----------------------------------------------------------------------------
(* What the queue implements.                                              *)

\* A statement on one row, as the user of its job sees it.
LEMMA SeenWrite ==
    ASSUME TypeInv, NEW j \in Job, NEW r \in Row, jobs' = [jobs EXCEPT ![j] = r]
    PROVE  /\ JQ!Become(j, Shown(r)) /\ JQ!Wanted(j, r.cancel)
           /\ [i \in Job |-> jobs'[i].attempts]
                 = [[i \in Job |-> jobs[i].attempts] EXCEPT ![j] = r.attempts]
           /\ Shown(r) = Shown(jobs[j])
                 => [i \in Job |-> Shown(jobs'[i])] = [i \in Job |-> Shown(jobs[i])]
           /\ r.cancel = jobs[j].cancel
                 => [i \in Job |-> jobs'[i].cancel] = [i \in Job |-> jobs[i].cancel]
           /\ r.attempts = jobs[j].attempts
                 => [i \in Job |-> jobs'[i].attempts] = [i \in Job |-> jobs[i].attempts]
<1>1. jobs'[j] = r /\ \A i \in Job \ {j} : jobs'[i] = jobs[i]
  BY DEF TypeInv, TypeOK
<1>2. /\ \A i \in Job : Shown(jobs'[i]) = IF i = j THEN Shown(r) ELSE Shown(jobs[i])
      /\ \A i \in Job : jobs'[i].attempts = IF i = j THEN r.attempts ELSE jobs[i].attempts
      /\ \A i \in Job : jobs'[i].cancel = IF i = j THEN r.cancel ELSE jobs[i].cancel
  BY <1>1
<1>3. JQ!Become(j, Shown(r)) /\ JQ!Wanted(j, r.cancel)
  BY <1>2 DEF JQ!Become, JQ!Wanted
<1>4. [i \in Job |-> jobs'[i].attempts]
         = [[i \in Job |-> jobs[i].attempts] EXCEPT ![j] = r.attempts]
  BY <1>2
<1>5. /\ Shown(r) = Shown(jobs[j])
            => [i \in Job |-> Shown(jobs'[i])] = [i \in Job |-> Shown(jobs[i])]
      /\ r.cancel = jobs[j].cancel
            => [i \in Job |-> jobs'[i].cancel] = [i \in Job |-> jobs[i].cancel]
      /\ r.attempts = jobs[j].attempts
            => [i \in Job |-> jobs'[i].attempts] = [i \in Job |-> jobs[i].attempts]
  BY <1>2
<1> QED  BY <1>3, <1>4, <1>5

\* What the statements of the repository make of a job, to its user.
SeenSame == UNCHANGED JQ!vars

LEMMA SeenFinish ==
    ASSUME TypeInv, NEW j \in Job, NEW o \in Outcome,
           jobs' = [jobs EXCEPT ![j] = FinishRow(jobs[j], o)], overlap' = overlap,
           o = "cancelled" /\ IsActive(j) => jobs[j].cancel \/ overlap
    PROVE  JQ!Next \/ SeenSame
<1> DEFINE r == FinishRow(jobs[j], o)
<1>1. r \in Row /\ jobs[j] \in Row
  BY UpdateRowType DEF TypeInv, TypeOK, Budgets, InBudget
<1>2. /\ r.attempts = jobs[j].attempts /\ r.cancel = jobs[j].cancel
      /\ r.status = IF jobs[j].status \in Phase THEN StatusOf(o) ELSE jobs[j].status
  BY <1>1, FinishFields
<1>3. StatusOf(o) \in JQ!Ending /\ StatusOf(o) \notin Phase
      /\ (StatusOf(o) = "cancelled" => o = "cancelled")
  BY DEF StatusOf, JQ!Ending, Phase
<1> HIDE DEF r
<1>4. /\ JQ!Become(j, Shown(r))
      /\ Shown(r) = Shown(jobs[j])
            => [i \in Job |-> Shown(jobs'[i])] = [i \in Job |-> Shown(jobs[i])]
      /\ [i \in Job |-> jobs'[i].cancel] = [i \in Job |-> jobs[i].cancel]
      /\ [i \in Job |-> jobs'[i].attempts] = [i \in Job |-> jobs[i].attempts]
  BY <1>1, <1>2, SeenWrite DEF r
<1>5. CASE jobs[j].status \in Phase
  <2>1. Shown(r) = StatusOf(o) /\ Shown(jobs[j]) = "active"
    BY <1>2, <1>3, <1>5 DEF Shown
  <2>2. JQ!End(j, StatusOf(o))
    BY <1>3, <1>4, <1>5, <2>1 DEF JQ!End, IsActive
  <2> QED  BY <1>3, <2>2 DEF JQ!Next
<1>6. CASE jobs[j].status \notin Phase
  <2>1. Shown(r) = Shown(jobs[j])
    BY <1>2, <1>6 DEF Shown
  <2> QED  BY <1>4, <2>1 DEF SeenSame, JQ!vars
<1> QED  BY <1>5, <1>6

LEMMA SeenQueue ==
    ASSUME TypeInv, NEW j \in Job, NEW r \in Row, jobs' = [jobs EXCEPT ![j] = r],
           r.status = "queued", r.attempts = jobs[j].attempts, r.cancel = FALSE,
           jobs[j].status \in {"failed", "uncertain"}, jobs[j].attempts < MaxAttempts,
           overlap' \in {overlap, TRUE}
    PROVE  JQ!Next
<1>1. Shown(r) = "queued" /\ Shown(jobs[j]) \in {"failed", "uncertain"}
  BY DEF Shown, Phase
<1>2. /\ JQ!Become(j, Shown(r)) /\ JQ!Wanted(j, r.cancel)
      /\ [i \in Job |-> jobs'[i].attempts] = [i \in Job |-> jobs[i].attempts]
  BY SeenWrite
<1>3. JQ!Again(j)
  BY <1>1, <1>2 DEF JQ!Again
<1> QED  BY <1>3 DEF JQ!Next

LEMMA SeenTake ==
    ASSUME TypeInv, NEW j \in Job, NEW r \in Row, jobs' = [jobs EXCEPT ![j] = r],
           r.status = "connecting", r.attempts = jobs[j].attempts + 1, r.cancel = FALSE,
           jobs[j].status = "queued", jobs[j].attempts < MaxAttempts, overlap' = overlap
    PROVE  JQ!Next
<1>1. Shown(r) = "active" /\ Shown(jobs[j]) = "queued"
  BY DEF Shown, Phase
<1>2. /\ JQ!Become(j, Shown(r)) /\ JQ!Wanted(j, r.cancel)
      /\ [i \in Job |-> jobs'[i].attempts]
            = [[i \in Job |-> jobs[i].attempts] EXCEPT ![j] = r.attempts]
  BY SeenWrite
<1>3. JQ!Take(j)
  BY <1>1, <1>2 DEF JQ!Take
<1> QED  BY <1>3 DEF JQ!Next

LEMMA SeenCancel ==
    ASSUME TypeInv, NEW j \in Job, NEW r \in Row, jobs' = [jobs EXCEPT ![j] = r],
           r.status = IF jobs[j].status = "queued" THEN "cancelled" ELSE jobs[j].status,
           r.attempts = jobs[j].attempts, r.cancel = TRUE,
           jobs[j].status = "queued" \/ jobs[j].status \in Phase, overlap' = overlap
    PROVE  JQ!Next
<1>1. /\ JQ!Become(j, Shown(r)) /\ JQ!Wanted(j, r.cancel)
      /\ Shown(r) = Shown(jobs[j])
            => [i \in Job |-> Shown(jobs'[i])] = [i \in Job |-> Shown(jobs[i])]
      /\ [i \in Job |-> jobs'[i].attempts] = [i \in Job |-> jobs[i].attempts]
  BY SeenWrite
<1>2. CASE jobs[j].status = "queued"
  <2>1. Shown(r) = "cancelled" /\ Shown(jobs[j]) = "queued"
    BY <1>2 DEF Shown, Phase
  <2>2. JQ!Withdraw(j)
    BY <1>1, <2>1 DEF JQ!Withdraw
  <2> QED  BY <2>2 DEF JQ!Next
<1>3. CASE jobs[j].status \in Phase
  <2>1. Shown(r) = "active" /\ Shown(jobs[j]) = "active"
    BY <1>3 DEF Shown, Phase
  <2>2. JQ!Ask(j)
    BY <1>1, <2>1 DEF JQ!Ask
  <2> QED  BY <2>2 DEF JQ!Next
<1> QED  BY <1>2, <1>3

\* Rows whose job looks the same afterwards.
LEMMA SeenQuiet ==
    ASSUME TypeInv, NEW j \in Job, NEW r \in Row, jobs' = [jobs EXCEPT ![j] = r],
           overlap' = overlap, r.attempts = jobs[j].attempts, r.cancel = jobs[j].cancel,
           r.status = jobs[j].status \/ (r.status \in Phase /\ jobs[j].status \in Phase)
    PROVE  SeenSame
<1>1. Shown(r) = Shown(jobs[j])
  BY DEF Shown
<1>2. /\ [i \in Job |-> Shown(jobs'[i])] = [i \in Job |-> Shown(jobs[i])]
      /\ [i \in Job |-> jobs'[i].cancel] = [i \in Job |-> jobs[i].cancel]
      /\ [i \in Job |-> jobs'[i].attempts] = [i \in Job |-> jobs[i].attempts]
  BY <1>1, SeenWrite
<1> QED  BY <1>2 DEF SeenSame, JQ!vars

\* The steps of a worker and of its updater.
LEMMA SeenWorker ==
    ASSUME TrailInv, NEW w \in Worker, WorkerStep(w) \/ UpdaterStep(w) \/ FaultStep(w)
    PROVE  JQ!Next \/ SeenSame
<1>0. TypeInv /\ jobs \in [Job -> Row]
  BY DEF TrailInv, OwnInv, TypeInv, TypeOK
<1>1. ASSUME Starts(w) PROVE JQ!Next
  <2> DEFINE j == cur[w]
             r == ClaimRow(jobs[j])
  <2>1. j \in Job /\ jobs' = [jobs EXCEPT ![j] = r] /\ jobs[j].status = "queued" /\ overlap' = overlap
    BY <1>0, <1>1 DEF Starts, Claim, CanClaim, TypeInv, Locals, HasJob, countVars
  <2>2. jobs[j].attempts < MaxAttempts /\ r \in Row /\ r.status = "connecting"
        /\ r.attempts = jobs[j].attempts + 1 /\ r.cancel = FALSE
    BY <1>0, <2>1, ClaimRowType, ClaimFields DEF TypeInv, Budgets, InBudget, CanClaim
  <2> HIDE DEF j, r
  <2> QED  BY <1>0, <2>1, <2>2, SeenTake
<1>2. ASSUME NEW o \in Outcome, pc[w] \in Running, IsActive(cur[w]), o = "cancelled", ~overlap,
             o \in Pending(w) \/ (pc[w] = "drain" /\ out[w] = o)
      PROVE  jobs[cur[w]].cancel
  BY <1>2 DEF TrailInv, Trail, Requested
<1>3. ASSUME Conclude(w) PROVE JQ!Next \/ SeenSame
  <2>1. /\ cur[w] \in Job /\ jobs' = [jobs EXCEPT ![cur[w]] = FinishRow(jobs[cur[w]], Verdict(w))]
        /\ pc[w] = "drain" /\ overlap' = overlap
    BY <1>0, <1>3 DEF Conclude, TypeInv, Locals, HasJob, Running, countVars
  <2>2. Verdict(w) \in Outcome /\ (Verdict(w) = "cancelled" => out[w] = "cancelled")
    BY <1>0 DEF Verdict, Outcome, Failure, TypeInv, TypeOK
  <2> QED  BY <1>0, <1>2, <2>1, <2>2, SeenFinish DEF Running
<1>4. ASSUME RequeueAutomatically(w) PROVE JQ!Next \/ SeenSame
  <2>1. cur[w] \in Job
    BY <1>0, <1>4 DEF RequeueAutomatically, TypeInv, Locals, HasJob
  <2>2. CASE CanRequeue(jobs[cur[w]]) /\ jobs' = [jobs EXCEPT ![cur[w]] = RequeueRow(jobs[cur[w]])]
    <3>1. RequeueRow(jobs[cur[w]]) \in Row /\ jobs[cur[w]] \in Row
      BY <1>0, <2>1, <2>2, UserRowType DEF TypeInv, Budgets, InBudget
    <3>2. overlap' \in {overlap, TRUE}
      BY <1>0, <1>4, <2>2 DEF RequeueAutomatically, TypeInv, TypeOK
    <3>3. /\ RequeueRow(jobs[cur[w]]).status = "queued" /\ RequeueRow(jobs[cur[w]]).cancel = FALSE
          /\ RequeueRow(jobs[cur[w]]).attempts = jobs[cur[w]].attempts
      BY <3>1, QueueFields
    <3> QED  BY <1>0, <2>1, <2>2, <3>1, <3>2, <3>3, SeenQueue DEF CanRequeue
  <2>3. CASE UNCHANGED <<jobs, overlap>>
    BY <2>3 DEF SeenSame, JQ!vars
  <2> QED  BY <1>4, <2>2, <2>3 DEF RequeueAutomatically
<1>5. ASSUME ApplyEvent(w) PROVE JQ!Next \/ SeenSame
  <2> DEFINE e == Head(chan[w])
  <2>1. /\ pc[w] \in Running /\ cur[w] \in Job /\ overlap' = overlap
        /\ att[w] \in 0..MaxAttempts /\ chan[w] # <<>>
    BY <1>0, <1>5 DEF ApplyEvent, TypeInv, TypeOK, Locals, HasJob, countVars
  <2>2. jobs[cur[w]] \in Row /\ InBudget(jobs[cur[w]])
    BY <1>0, <2>1 DEF TypeInv, Budgets
  <2>3. CASE jobs' = [jobs EXCEPT ![cur[w]] = SetExecution(jobs[cur[w]], att[w])]
    <3> DEFINE r == SetExecution(jobs[cur[w]], att[w])
    <3>1. r \in Row /\ r.status = jobs[cur[w]].status /\ r.attempts = jobs[cur[w]].attempts
          /\ r.cancel = jobs[cur[w]].cancel
      BY <2>1, <2>2, UpdateRowType, ExecutionFields DEF InBudget
    <3> HIDE DEF r
    <3> QED  BY <1>0, <2>1, <2>3, <3>1, SeenQuiet DEF r
  <2>4. CASE e \in Phase /\ jobs' = [jobs EXCEPT ![cur[w]] = UpdateProgress(jobs[cur[w]], e)]
    <3> DEFINE r == UpdateProgress(jobs[cur[w]], e)
    <3>1. /\ r \in Row /\ r.attempts = jobs[cur[w]].attempts /\ r.cancel = jobs[cur[w]].cancel
          /\ \/ r.status = jobs[cur[w]].status
             \/ r.status \in Phase /\ jobs[cur[w]].status \in Phase
      BY <2>1, <2>2, <2>4, UpdateRowType, ProgressFields DEF InBudget
    <3> HIDE DEF r
    <3> QED  BY <1>0, <2>1, <2>4, <3>1, SeenQuiet DEF r
  <2>5. CASE e \in Outcome /\ jobs' = [jobs EXCEPT ![cur[w]] = FinishRow(jobs[cur[w]], e)]
    <3>1. e \in Pending(w)
      <4>1. chan[w] \in Seq(Event)
        BY <1>0 DEF TypeInv, TypeOK, Event
      <4> QED  BY <2>1, <4>1 DEF Pending
    <3> HIDE DEF e
    <3> QED  BY <1>0, <1>2, <2>1, <2>5, <3>1, SeenFinish
  <2> QED  BY <1>5, <2>3, <2>4, <2>5 DEF ApplyEvent
<1>6. CASE UNCHANGED <<jobs, overlap>>
  BY <1>6 DEF SeenSame, JQ!vars
<1> QED
  BY <1>1, <1>3, <1>4, <1>5, <1>6
     DEF WorkerStep, UpdaterStep, FaultStep, NextRunnable, AwaitNotify, CreateExecution, Claim, Starts,
         MarkRunning, AnnounceConnecting, Connect, EnterPhase, TransferEnds, RecordOutcome,
         Decide, CheckCancel, LoopFault, UpdaterFault, ExecutionFault, ConcludeFault, RetryFault,
         Faulting, dbVars, countVars

\* The calls of the user interface, the exit and the restart.
LEMMA SeenCalls ==
    ASSUME TypeInv, UserStep \/ Exit \/ Open
    PROVE  JQ!Next \/ SeenSame
<1>0. jobs \in [Job -> Row] /\ \A j \in Job : InBudget(jobs[j]) /\ jobs[j] \in Row
  BY DEF TypeInv, TypeOK, Budgets
<1>1. ASSUME NEW j \in Job, Enqueue(j) PROVE JQ!Next
  <2> DEFINE r == NewRow(jobs[j])
  <2>1. /\ jobs[j].status = "absent" /\ jobs' = [jobs EXCEPT ![j] = r] /\ overlap' = overlap
        /\ r \in Row /\ r.status = "queued" /\ r.attempts = jobs[j].attempts
        /\ r.cancel = jobs[j].cancel
    BY <1>0, <1>1, UserRowType, QueueFields DEF Enqueue, InBudget, countVars
  <2> HIDE DEF r
  <2>2. Shown(r) = "queued" /\ Shown(jobs[j]) = "absent"
    BY <2>1 DEF Shown, Phase
  <2>3. /\ JQ!Become(j, Shown(r))
        /\ [i \in Job |-> jobs'[i].cancel] = [i \in Job |-> jobs[i].cancel]
        /\ [i \in Job |-> jobs'[i].attempts] = [i \in Job |-> jobs[i].attempts]
    BY <2>1, SeenWrite
  <2>4. JQ!Submit(j)
    BY <2>1, <2>2, <2>3 DEF JQ!Submit
  <2> QED  BY <2>4 DEF JQ!Next
<1>2. ASSUME NEW j \in Job, RequestCancel(j) PROVE JQ!Next
  <2> DEFINE r == CancelRow(jobs[j])
  <2>1. /\ jobs[j].status = "queued" \/ jobs[j].status \in Phase
        /\ jobs' = [jobs EXCEPT ![j] = r] /\ overlap' = overlap /\ r \in Row
        /\ r.status = IF jobs[j].status = "queued" THEN "cancelled" ELSE jobs[j].status
        /\ r.attempts = jobs[j].attempts /\ r.cancel = TRUE
    BY <1>0, <1>2, UserRowType, CancelFields DEF RequestCancel, IsActive, InBudget, countVars
  <2> HIDE DEF r
  <2> QED  BY <2>1, SeenCancel
<1>3. ASSUME NEW j \in Job, Retry(j) PROVE JQ!Next
  <2> DEFINE r == RetryRow(jobs[j])
  <2>1. /\ jobs' = [jobs EXCEPT ![j] = r] /\ r \in Row /\ r.status = "queued"
        /\ r.attempts = jobs[j].attempts /\ r.cancel = FALSE
        /\ jobs[j].status \in {"failed", "uncertain"} /\ jobs[j].attempts < MaxAttempts
    BY <1>0, <1>3, UserRowType, QueueFields DEF Retry, CanRetry, InBudget
  <2>2. overlap' \in {overlap, TRUE}
    BY <1>3 DEF Retry, TypeInv, TypeOK
  <2> HIDE DEF r
  <2> QED  BY <2>1, <2>2, SeenQueue
<1>4. ASSUME Open PROVE JQ!Next
  <2>1. \A j \in Job : jobs'[j] = RecoverRow(jobs[j]) /\ overlap' = overlap
    BY <1>4 DEF Open, countVars
  <2>2. \A j \in Job : /\ jobs'[j].attempts = jobs[j].attempts /\ jobs'[j].cancel = jobs[j].cancel
                       /\ jobs'[j].status = IF jobs[j].status \in Phase THEN "uncertain"
                                            ELSE jobs[j].status
    BY <1>0, <2>1, RecoverFields
  <2>3. /\ [i \in Job |-> jobs'[i].cancel] = [i \in Job |-> jobs[i].cancel]
        /\ [i \in Job |-> jobs'[i].attempts] = [i \in Job |-> jobs[i].attempts]
    BY <2>2
  <2>4. \A j \in Job : Shown(jobs'[j]) = IF Shown(jobs[j]) = "active" THEN "uncertain"
                                         ELSE Shown(jobs[j])
    <3>1. \A j \in Job : jobs[j].status # "active"
      BY <1>0 DEF Row, Status, Phase, Terminal
    <3> QED  BY <2>2, <3>1 DEF Shown, Phase
  <2>5. JQ!Interrupt
    BY <1>4, <2>3, <2>4 DEF JQ!Interrupt, Open, countVars
  <2> QED  BY <2>5 DEF JQ!Next
<1>5. CASE Exit \/ \E e \in Exec : SignalExecution(e)
  BY <1>5 DEF Exit, SignalExecution, SeenSame, JQ!vars, dbVars, countVars
<1> QED  BY <1>1, <1>2, <1>3, <1>4, <1>5 DEF UserStep

\* Every statement on a job is a step of JobQueue or none its user sees: late
\* events and verdicts, retries and restarts never revive a job that succeeded
\* or was cancelled, never end a waiting one, never start one uncounted, and
\* cancel none unasked.
THEOREM QueueImplementsJobQueue == Spec => ImplementsJobQueue
<1>1. Init => JQ!Init
  <2> SUFFICES ASSUME Init PROVE JQ!Init
    OBVIOUS
  <2>1. \A j \in Job : jobs[j].status = "absent" /\ jobs[j].attempts = 0 /\ jobs[j].cancel = FALSE
    BY DEF Init
  <2>2. \A j \in Job : Shown(jobs[j]) = "absent"
    BY <2>1 DEF Shown, Phase
  <2> QED  BY <2>1, <2>2 DEF JQ!Init, Init
<1>2. TrailInv /\ [Next]_vars => [JQ!Next]_(JQ!vars)
  <2> SUFFICES ASSUME TrailInv, [Next]_vars PROVE JQ!Next \/ SeenSame
    BY DEF SeenSame
  <2>1. TypeInv
    BY DEF TrailInv, OwnInv
  <2>2. UNCHANGED vars => SeenSame
    BY DEF vars, SeenSame, JQ!vars
  <2> QED  BY <2>1, <2>2, SeenWorker, SeenCalls DEF Next
<1> QED  BY <1>1, <1>2, TrailInit, TrailStep, PTL DEF Spec, ImplementsJobQueue, JQ!Spec

=============================================================================
