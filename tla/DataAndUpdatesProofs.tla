------------------------ MODULE DataAndUpdatesProofs ------------------------
(***************************************************************************)
(* Proofs about the two parts that care for the application itself, for    *)
(* any constants.  DataMigration: the data survives every step of a        *)
(* migration, and one that was completed stays.  Updates: a busy phase has *)
(* somebody at work, and what is installed is what the user was shown.     *)
(***************************************************************************)
EXTENDS DataMigration, Updates, TLAPS

\* The types TypeOK leaves open, those of the memory of the two processes.
Places == {"none", "validate", "wait", "preflight", "save_source", "save_target", "copy",
           "verify", "mark", "commit", "complete", "restart"}
Worker == [pc : Places, journal : Journal \cup {NoJournal}, manifest : [File -> Content],
           retry : BOOLEAN, left : SUBSET File]

TypeInv ==
    /\ TypeOK
    /\ worker \in Worker
    /\ prepared \in Journal \cup {NoJournal}
    /\ preview = NoPreview \/ preview \in [target : Root, retry : BOOLEAN]
    /\ writes \in 0..MaxWrites /\ migrations \in 0..MaxMigrations /\ failures \in 0..MaxFailures

-----------------------------------------------------------------------------
(* What keeps the data recoverable.                                        *)

\* The next start does not leave a root for the source of its migration.
Settled(r) ==
    journal[r].target = r => journal[r].phase = "completed" /\ MarkerValid(r)

\* A root that is there and holds the last write to every file.
Holds(r) == r \in there /\ data[r] = truth

\* What the next start finds, also after a power failure.
Home == pointer # NoRoot => RootAtStart \in Root /\ Settled(RootAtStart) /\ Holds(RootAtStart)

\* The application runs on the root on record, which is settled; when it is
\* gone so is what it kept in memory.
Running ==
    /\ up => root = pointer /\ (root # NoRoot => Settled(root) /\ Holds(root))
    /\ ~up => root = NoRoot /\ cmd = "none" /\ prepared = NoJournal

\* Before a root is chosen nothing has been written anywhere.
Fresh == pointer = NoRoot =>
    /\ truth = Empty /\ worker = NoWorker
    /\ \A r \in Root : data[r] = Empty /\ journal[r] = NoJournal

\* Where start_data_root_migration is, and what it has saved.
Preparing == {"save_source", "save_target", "spawn"}
Command ==
    /\ cmd # "none" \/ work # "none" => root # NoRoot
    /\ cmd \in {"checked", "flagged"} => preview # NoPreview
    /\ cmd \in Preparing \cup {"flagged", "exit"} => starting
    /\ up /\ cmd # "exit" => worker = NoWorker
    /\ IF cmd \in Preparing
       THEN /\ prepared \in Journal /\ prepared.source = root /\ prepared.target # root
            /\ prepared.target \in there /\ prepared.phase = "prepared"
       ELSE prepared = NoJournal
    /\ cmd \in {"save_target", "spawn"} => journal[root] = prepared
    /\ cmd = "spawn" => journal[prepared.target] = prepared

\* Two journals of one migration.
Same(i, j) == i.id = j.id /\ i.source = j.source /\ i.target = j.target

\* The phase in which a worker is in a place.
InPhase ==
    LET p == worker.journal.phase
    IN  /\ worker.pc \in {"validate", "wait", "preflight"} => p = "prepared"
        /\ worker.pc = "copy" => p = "copying"
        /\ worker.pc \in {"verify", "mark", "commit"} => p = "verifying"
        /\ worker.pc = "complete" => p = "switched"
        /\ worker.pc = "restart" => p \in {"completed", "failed"}
        /\ worker.pc \in {"save_source", "save_target"} => p # "prepared"

\* What a worker has done so far.
Progress ==
    LET j == worker.journal
        p == worker.journal.phase
    IN  /\ p \in {"prepared", "copying", "verifying"} => pointer = j.source
        /\ p \in {"switched", "completed"} => pointer = j.target
        /\ p = "failed" => pointer \in {j.source, j.target}
        /\ p \in {"copying", "verifying"} => worker.manifest = truth
        /\ p \in {"switched", "completed"} \/ worker.pc \in {"mark", "commit"}
              => data[j.target] = truth
        /\ p \in {"switched", "completed"} \/ worker.pc = "commit"
              => marker[j.target] = [id |-> j.id, source |-> j.source]

\* A worker's migration has a source that holds everything, and the journals
\* on both sides are its own; until the last of them says completed, the
\* application would go back.
Migrating == worker # NoWorker =>
    LET j == worker.journal
    IN  /\ j \in Journal /\ j.source # j.target
        /\ Holds(j.source) /\ j.target \in there
        /\ Same(journal[j.source], j) /\ Same(journal[j.target], j)
        /\ journal[j.target].phase = "completed" =>
              worker.pc = "restart" /\ j.phase = "completed"
        /\ up => /\ cmd = "exit" /\ pointer = j.source
                 /\ worker.pc \in {"validate", "wait"} \/ j.phase = "failed"
        /\ InPhase /\ Progress

Safe == Home /\ Running /\ Fresh /\ Command /\ Migrating
SafeInv == TypeInv /\ Safe

-----------------------------------------------------------------------------
(* Types.                                                                  *)

\* Journals and markers, and what stands for none, are told apart.
LEMMA Nothing ==
    /\ NoJournal \notin Journal /\ NoMarker \notin Marker
    /\ \A j \in Journal : /\ j.source \in Root /\ j.target \in Root /\ j.phase \in Phase
                          /\ j.id \in 1..MaxMigrations
    /\ \A m \in Marker : m.source \in Root /\ m.id \in 1..MaxMigrations
    /\ NoJournal.source = NoRoot /\ NoJournal.target = NoRoot /\ NoJournal.phase = "none"
    /\ NoWorker.pc = "none" /\ NoWorker.journal = NoJournal /\ NoWorker \in Worker
    /\ NoPreview.target = NoRoot
BY DataMigrationAssumption
   DEF NoJournal, Journal, NoMarker, Marker, NoWorker, Worker, Places, NoPreview, Empty, Content, Absent

LEMMA TypeInit == Init => TypeInv
<1> SUFFICES ASSUME Init PROVE TypeInv
  OBVIOUS
<1>1. Empty \in [File -> Content]
  BY DataMigrationAssumption DEF Empty, Content, Absent
<1>2. TypeOK
  BY <1>1, Nothing DEF Init, TypeOK, NoWorker
<1> QED  BY <1>2, Nothing, DataMigrationAssumption DEF Init, TypeInv

\* The steps of the application and of others.
LEMMA TypeApplication ==
    ASSUME TypeInv,
           \/ \E r \in Root : SelectRoot(r) \/ Preflight(r) \/ DeleteRoot(r)
           \/ \E kind \in {"gated", "operation"} : BeginWork(kind)
           \/ \E f \in File : Write(f) \/ PutFile(f)
           \/ EndWork \/ PreflightRetry \/ CheckIdle \/ SetStarting \/ StartFails
    PROVE  TypeInv'
<1> USE Nothing, DataMigrationAssumption DEF TypeInv, TypeOK, roots, memory, counts
<1>0. Empty \in [File -> Content] /\ Foreign \in Content
  BY DEF Empty, Content, Absent, Foreign
<1>1. ASSUME NEW r \in Root, SelectRoot(r) \/ Preflight(r) PROVE TypeInv'
  <2>1. CASE SelectRoot(r)
    BY <2>1 DEF SelectRoot, PointTo
  <2>2. CASE Preflight(r)
    <3>1. preview' \in [target : Root, retry : BOOLEAN]
      BY <2>2 DEF Preflight
    <3> QED  BY <2>2, <3>1 DEF Preflight
  <2> QED  BY <1>1, <2>1, <2>2
<1>2. ASSUME NEW r \in Root, DeleteRoot(r) PROVE TypeInv'
  BY <1>0, <1>2 DEF DeleteRoot
<1>3. ASSUME NEW kind \in {"gated", "operation"}, BeginWork(kind) PROVE TypeInv'
  BY <1>3 DEF BeginWork
<1>4. ASSUME NEW f \in File, Write(f) PROVE TypeInv'
  <2>1. writes' \in 0..MaxWrites /\ writes' \in Content
    BY <1>4 DEF Write, Content
  <2>2. data' \in [Root -> [File -> Content]] /\ truth' \in [File -> Content]
    BY <1>4, <2>1 DEF Write
  <2> QED  BY <1>4, <2>1, <2>2 DEF Write
<1>5. ASSUME NEW f \in File, PutFile(f) PROVE TypeInv'
  <2>1. data' \in [Root -> [File -> Content]]
    BY <1>0, <1>5 DEF PutFile
  <2> QED  BY <1>5, <2>1 DEF PutFile
<1>6. CASE EndWork \/ CheckIdle \/ SetStarting \/ StartFails
  BY <1>6 DEF EndWork, CheckIdle, SetStarting, StartFails
<1>7. CASE PreflightRetry
  <2>1. root \in Root /\ journal[root] \in Journal
    BY <1>7 DEF PreflightRetry
  <2> QED  BY <1>7, <2>1 DEF PreflightRetry
<1> QED  BY <1>1, <1>2, <1>3, <1>4, <1>5, <1>6, <1>7

\* The steps that begin and end a migration, a process or both.
LEMMA TypeJournals ==
    ASSUME TypeInv, Command,
           \/ Consume \/ PrepareSource \/ PrepareTarget \/ Spawn \/ Exit \/ Acknowledge
           \/ Open \/ PowerFails \/ Relaunch
    PROVE  TypeInv'
<1> USE Nothing, DataMigrationAssumption DEF TypeInv, TypeOK, roots, memory, counts
<1>1. CASE Consume
  <2>1. root \in Root /\ preview.target \in Root
    BY <1>1 DEF Consume, Command
  <2>2. migrations + 1 \in 1..MaxMigrations /\ "prepared" \in Phase
    BY <1>1 DEF Consume, Phase
  <2>3. prepared' \in Journal
    BY <1>1, <2>1, <2>2 DEF Consume, Journal
  <2> QED  BY <1>1, <2>1, <2>2, <2>3 DEF Consume
<1>2. CASE PrepareSource \/ PrepareTarget
  <2>1. prepared \in Journal /\ root \in Root
    BY <1>2 DEF PrepareSource, PrepareTarget, Command, Preparing
  <2>2. prepared.target \in Root
    BY <2>1
  <2>3. journal' \in [Root -> Journal \cup {NoJournal}]
    BY <1>2, <2>1, <2>2 DEF PrepareSource, PrepareTarget
  <2> QED  BY <1>2, <2>3 DEF PrepareSource, PrepareTarget
<1>3. CASE Spawn
  <2>1. worker' \in Worker /\ worker'.journal = prepared /\ worker'.left \subseteq File
    BY <1>3 DEF Spawn, NoWorker, Worker, Places
  <2> QED  BY <1>3, <2>1 DEF Spawn
<1>4. CASE Exit
  BY <1>4 DEF Exit, Gone
<1>5. CASE Acknowledge
  <2>1. journal[root] \in Journal
    BY <1>5 DEF Acknowledge
  <2> QED  BY <1>5, <2>1 DEF Acknowledge, SaveBoth
<1>6. RootAtStart \in Root \cup {NoRoot}
  BY DEF RootAtStart
<1>7. NoWorker.left \subseteq File
  BY DEF NoWorker
<1>8. CASE Open \/ Relaunch
  BY <1>6, <1>7, <1>8 DEF Open, Relaunch, Start, PointTo
<1>9. CASE PowerFails
  <2>1. failures' \in 0..MaxFailures
    BY <1>9 DEF PowerFails
  <2> QED  BY <1>7, <1>9, <2>1 DEF PowerFails, Gone
<1> QED  BY <1>1, <1>2, <1>3, <1>4, <1>5, <1>8, <1>9

\* The steps of the worker.
LEMMA TypeWorker ==
    ASSUME TypeInv, Migrating, WorkerStep, ~Relaunch
    PROVE  TypeInv'
<1> USE Nothing, DataMigrationAssumption DEF TypeInv, TypeOK, roots, memory, counts, Keep
<1>1. worker \in Worker /\ worker.manifest \in [File -> Content] /\ worker.left \subseteq File
  BY DEF Worker
<1>2. worker # NoWorker /\ worker.journal \in Journal
  BY DEF WorkerStep, Migrating, Validate, WaitForParent, WorkerPreflight, SaveSource, SaveTarget,
         CopyFile, AllCopied, Verify, WriteMarker, Commit, Complete, WorkFails, FailureNotSaved, At
<1>3. ASSUME NEW p \in Places, Goto(p) PROVE worker' \in Worker /\ worker'.journal = worker.journal
                                             /\ worker'.left = worker.left
  BY <1>1, <1>3 DEF Goto, Worker
<1>4. ASSUME NEW p \in Phase, Transition(p)
      PROVE  worker' \in Worker /\ worker'.journal \in Journal /\ worker'.left = worker.left
  <2>1. [worker.journal EXCEPT !.phase = p] \in Journal
    BY <1>2 DEF Journal
  <2> QED  BY <1>1, <1>4, <2>1 DEF Transition, Worker, Places
<1>5. CASE Validate
  BY <1>1, <1>2, <1>5 DEF Validate, Worker, Places
<1>6. CASE WaitForParent \/ Verify \/ FailureNotSaved
  BY <1>3, <1>6 DEF WaitForParent, Verify, FailureNotSaved, Places
<1>7. CASE WorkerPreflight
  <2>1. [worker.journal EXCEPT !.phase = "copying"] \in Journal
    BY <1>2 DEF Journal, Phase
  <2>2. Names(data[worker.journal.source]) \subseteq File /\ data[worker.journal.source] \in [File -> Content]
    BY <1>2 DEF Names
  <2>3. worker' \in Worker /\ worker'.journal \in Journal /\ worker'.left \subseteq File
    <3>1. PICK retry \in BOOLEAN :
              worker' = [worker EXCEPT !.pc = "save_source", !.retry = retry,
                                       !.journal.phase = "copying",
                                       !.manifest = data[worker.journal.source],
                                       !.left = Names(data[worker.journal.source])]
      BY <1>7 DEF WorkerPreflight
    <3> DEFINE j == [worker.journal EXCEPT !.phase = "copying"]
               m == data[worker.journal.source]
               l == Names(data[worker.journal.source])
    <3>2. worker' = [pc |-> "save_source", journal |-> j, manifest |-> m, retry |-> retry, left |-> l]
      BY <1>1, <3>1 DEF Worker
    <3>3. j \in Journal /\ m \in [File -> Content] /\ l \in SUBSET File /\ "save_source" \in Places
      BY <2>1, <2>2 DEF Places
    <3> HIDE DEF j, m, l
    <3> QED  BY <3>2, <3>3 DEF Worker
  <2> QED  BY <1>7, <2>3 DEF WorkerPreflight
<1>8. CASE SaveSource
  BY <1>2, <1>3, <1>8 DEF SaveSource, Places
<1>9. CASE SaveTarget
  <2>1. AfterSave[worker.journal.phase] \in Places
    BY <1>2, <1>9 DEF SaveTarget, AfterSave, At, Migrating, InPhase, Phase, Places
  <2> QED  BY <1>2, <1>3, <1>9, <2>1 DEF SaveTarget
<1>10. ASSUME NEW f \in File, CopyFile(f) PROVE TypeInv'
  <2>1. worker' \in Worker /\ worker'.journal = worker.journal /\ worker'.left \subseteq File
    BY <1>1, <1>10 DEF CopyFile, Worker
  <2>2. data' \in [Root -> [File -> Content]]
    BY <1>2, <1>10 DEF CopyFile
  <2> QED  BY <1>10, <2>1, <2>2 DEF CopyFile
<1>11. CASE AllCopied \/ Complete \/ WorkFails
  BY <1>4, <1>11 DEF AllCopied, Complete, WorkFails, Phase
<1>12. CASE WriteMarker
  <2>1. [id |-> worker.journal.id, source |-> worker.journal.source] \in Marker
    BY <1>2 DEF Marker
  <2> QED  BY <1>2, <1>3, <1>12, <2>1 DEF WriteMarker, Places
<1>13. CASE Commit
  BY <1>2, <1>4, <1>13 DEF Commit, PointTo, Phase
<1> QED  BY <1>5, <1>6, <1>7, <1>8, <1>9, <1>10, <1>11, <1>12, <1>13 DEF WorkerStep

-----------------------------------------------------------------------------
(* Where the next start goes.                                              *)

\* While the application runs, back to the root it runs on.
LEMMA RootIsHome ==
    TypeInv /\ Running /\ up => Home /\ (root # NoRoot => RootAtStart = root)
BY Nothing DEF TypeInv, TypeOK, Running, Home, RootAtStart, Settled

LEMMA RootIsHomeNext == ASSUME TypeInv', Running', up' PROVE Home'
BY RootIsHome, PTL

\* While a worker is at work, to its source, until the target is completed.
LEMMA WorkerIsHome ==
    TypeInv /\ Migrating /\ worker # NoWorker => Home
<1> SUFFICES ASSUME TypeInv, Migrating, worker # NoWorker PROVE Home
  OBVIOUS
<1> DEFINE j == worker.journal
<1>1. /\ j \in Journal /\ j.source # j.target /\ j.source \in Root /\ j.target \in Root
      /\ Same(journal[j.source], j) /\ Same(journal[j.target], j) /\ Holds(j.source) /\ j.target \in there
      /\ pointer \in {j.source, j.target}
  BY Nothing DEF Migrating, Progress, Phase
<1>2. Settled(j.source)
  BY <1>1 DEF Settled, Same
<1>3. CASE pointer = j.source
  <2>1. RootAtStart = j.source
    BY <1>1, <1>3 DEF RootAtStart, Same
  <2> QED  BY <1>1, <1>2, <2>1 DEF Home
<1>4. CASE pointer = j.target /\ ~Settled(j.target)
  <2>1. RootAtStart = j.source
    BY <1>1, <1>4, Nothing, DataMigrationAssumption DEF RootAtStart, Settled, Same
  <2> QED  BY <1>1, <1>2, <2>1 DEF Home
<1>5. CASE pointer = j.target /\ Settled(j.target)
  <2>1. RootAtStart = j.target
    BY <1>5 DEF RootAtStart, Settled
  <2>2. journal[j.target].phase = "completed"
    BY <1>1, <1>5 DEF Settled, Same
  <2>3. j.phase = "completed"
    BY <2>2, <1>1, Nothing DEF Migrating
  <2>4. data[j.target] = truth
    BY <2>2, <2>3, <1>1, Nothing DEF Migrating, Progress
  <2> QED  BY <1>1, <1>5, <2>1, <2>4 DEF Home, Holds
<1> QED  BY <1>1, <1>3, <1>4, <1>5

LEMMA WorkerIsHomeNext == ASSUME TypeInv', Migrating', worker' # NoWorker PROVE Home'
<1>1. (TypeInv /\ Migrating /\ worker # NoWorker => Home)'
  BY WorkerIsHome, PTL
<1> QED  BY <1>1

\* A step that leaves the roots alone, at most makes a directory.
LEMMA Frame ==
    ASSUME TypeInv, Home, Running, Fresh, Migrating,
           UNCHANGED <<data, journal, marker, pointer, up, root, worker, truth>>,
           there \subseteq there', cmd' = cmd \/ worker = NoWorker,
           ~up => cmd' = "none" /\ prepared' = NoJournal
    PROVE  Home' /\ Running' /\ Fresh' /\ Migrating'
<1>1. Home'
  BY DEF Home, RootAtStart, Settled, MarkerValid, Holds
<1>2. Running'
  BY DEF Running, Settled, MarkerValid, Holds
<1>3. Fresh'
  BY DEF Fresh
<1>4. Migrating'
  BY DEF Migrating, InPhase, Progress, Same, Holds
<1> QED  BY <1>1, <1>2, <1>3, <1>4

-----------------------------------------------------------------------------
(* The steps of the application.                                           *)

\* Those that write no file and no journal.
LEMMA SafeMemory ==
    ASSUME SafeInv, TypeInv',
           \/ \E kind \in {"gated", "operation"} : BeginWork(kind)
           \/ \E r \in Root : Preflight(r)
           \/ EndWork \/ PreflightRetry \/ CheckIdle \/ SetStarting \/ Consume \/ StartFails
    PROVE  Safe'
<1> USE DEF roots, memory, counts, SafeInv, Safe
<1>1. /\ UNCHANGED <<data, journal, marker, pointer, up, root, worker, truth>>
      /\ there \subseteq there' /\ up
  BY DEF BeginWork, Preflight, EndWork, PreflightRetry, CheckIdle, SetStarting, Consume, StartFails
<1>2. cmd' = cmd \/ worker = NoWorker
  BY <1>1 DEF BeginWork, Preflight, EndWork, PreflightRetry, CheckIdle, SetStarting, Consume, StartFails,
              Command
<1>3. Command'
  <2>1. CASE EndWork \/ \E kind \in {"gated", "operation"} : BeginWork(kind)
    BY <2>1 DEF BeginWork, EndWork, Command
  <2>2. CASE PreflightRetry \/ \E r \in Root : Preflight(r)
    <3>1. preview' # NoPreview
      <4>1. ASSUME NEW r \in Root, Preflight(r) PROVE preview'.target \in Root
        BY <4>1 DEF Preflight
      <4>2. CASE PreflightRetry
        <5>1. journal[root] # NoJournal /\ root \in Root
          BY <4>2, Nothing DEF PreflightRetry, TypeInv, TypeOK
        <5>2. journal[root].target \in Root
          BY <5>1, Nothing DEF TypeInv, TypeOK
        <5> QED  BY <4>2, <5>2, Nothing, DataMigrationAssumption DEF PreflightRetry
      <4> QED  BY <2>2, <4>1, <4>2, Nothing, DataMigrationAssumption
    <3> QED  BY <2>2, <3>1 DEF Preflight, PreflightRetry, Command
  <2>3. CASE CheckIdle \/ SetStarting
    BY <2>3 DEF CheckIdle, SetStarting, Command, Preparing
  <2>4. CASE StartFails
    BY <2>4 DEF StartFails, Command, Preparing
  <2>5. CASE Consume
    <3>1. root # NoRoot /\ preview.target \in Root
      BY <2>5 DEF Consume, Command, TypeInv
    <3>2. prepared' \in Journal
      <4>1. "prepared" \in Phase /\ migrations + 1 \in 1..MaxMigrations /\ root \in Root
        BY <2>5, <3>1, DataMigrationAssumption DEF Consume, Phase, TypeInv, TypeOK
      <4> QED  BY <2>5, <3>1, <4>1 DEF Consume, Journal
    <3>3. starting' /\ worker' = NoWorker
      BY <2>5 DEF Consume, Command
    <3> QED  BY <2>5, <3>1, <3>2, <3>3 DEF Consume, Command, Preparing, Admits
  <2> QED  BY <2>1, <2>2, <2>3, <2>4, <2>5
<1> QED  BY <1>1, <1>2, <1>3, Frame

\* The choice of a root, while nothing has been written anywhere.
LEMMA SafeSelect ==
    ASSUME SafeInv, TypeInv', NEW r \in Root, SelectRoot(r)
    PROVE  Safe'
<1> USE Nothing, DataMigrationAssumption DEF SafeInv, Safe
<1>1. /\ pointer = NoRoot /\ root = NoRoot /\ up /\ truth = Empty /\ worker = NoWorker
      /\ data[r] = Empty /\ journal[r] = NoJournal
  BY DEF SelectRoot, Running, Fresh
<1>2. /\ UNCHANGED <<data, journal, marker, up, work, preview, starting, cmd, prepared, worker, truth>>
      /\ pointer' = r /\ root' = r /\ r \in there'
  BY DEF SelectRoot, PointTo
<1>3. Running'
  BY <1>1, <1>2 DEF Running, Settled, Holds
<1>4. Home'
  BY <1>1, <1>2, <1>3, RootIsHomeNext
<1>5. cmd = "none" /\ work = "none" /\ prepared = NoJournal
  BY <1>1 DEF Command, Preparing
<1>6. Command' /\ Fresh' /\ Migrating'
  BY <1>1, <1>2, <1>5 DEF Command, Preparing, Fresh, Migrating
<1> QED  BY <1>3, <1>4, <1>6

\* A write reaches the root the application runs on, from which nothing has
\* been copied yet.
LEMMA SafeWrite ==
    ASSUME SafeInv, TypeInv', NEW f \in File, Write(f)
    PROVE  Safe'
<1> USE Nothing, DataMigrationAssumption DEF SafeInv, Safe
<1>1. up /\ root # NoRoot /\ pointer = root /\ root \in Root
  BY DEF Write, Running, Command, TypeInv, TypeOK
<1>2. /\ UNCHANGED <<there, journal, marker, pointer, up, root, work, preview, starting, cmd, prepared, worker>>
      /\ data' = [data EXCEPT ![root][f] = writes']
      /\ truth' = [truth EXCEPT ![f] = writes']
  BY DEF Write, memory
<1>3. data'[root] = truth'
  BY <1>1, <1>2 DEF Running, Holds, TypeInv, TypeOK
<1>4. Running'
  BY <1>1, <1>2, <1>3 DEF Running, Settled, MarkerValid, Holds
<1>5. Home'
  BY <1>1, <1>2, <1>4, RootIsHomeNext
<1>6. Command' /\ Fresh'
  BY <1>1, <1>2 DEF Command, Preparing, Fresh
<1>7. Migrating'
  <2> SUFFICES ASSUME worker # NoWorker PROVE Migrating'
    BY <1>2 DEF Migrating
  <2>1. /\ cmd = "exit" /\ pointer = worker.journal.source
        /\ worker.pc \in {"validate", "wait"} \/ worker.journal.phase = "failed"
    BY <1>1 DEF Migrating
  <2>2. worker.journal.phase \in {"prepared", "failed"} /\ worker.pc \notin {"mark", "commit"}
    BY <2>1 DEF Migrating, InPhase
  <2>3. Holds(worker.journal.source)'
    BY <1>1, <1>2, <1>3, <2>1 DEF Migrating, Holds
  <2> QED  BY <1>2, <2>1, <2>2, <2>3 DEF Migrating, InPhase, Progress, Same
<1> QED  BY <1>4, <1>5, <1>6, <1>7

\* The journals of a migration that begins, in the source and in the target.
LEMMA SafePrepare ==
    ASSUME SafeInv, TypeInv', PrepareSource \/ PrepareTarget
    PROVE  Safe'
<1> USE Nothing, DataMigrationAssumption DEF SafeInv, Safe
<1>1. /\ up /\ root # NoRoot /\ pointer = root /\ root \in Root /\ worker = NoWorker /\ starting
      /\ prepared \in Journal /\ prepared.source = root /\ prepared.target # root
      /\ prepared.target \in there /\ prepared.phase = "prepared"
  BY DEF PrepareSource, PrepareTarget, Running, Command, Preparing, TypeInv, TypeOK
<1>2. /\ UNCHANGED <<there, data, marker, pointer, up, root, work, preview, starting, prepared, worker, truth>>
      /\ \/ journal' = [journal EXCEPT ![root] = prepared] /\ cmd' = "save_target"
         \/ /\ journal' = [journal EXCEPT ![prepared.target] = prepared] /\ cmd' = "spawn"
            /\ journal[root] = prepared
  BY DEF PrepareSource, PrepareTarget, Command
<1>3. journal'[root] \in {journal[root], prepared}
  BY <1>1, <1>2 DEF TypeInv, TypeOK
<1>4. Running'
  BY <1>1, <1>2, <1>3 DEF Running, Settled, MarkerValid, Holds
<1>5. Home'
  BY <1>1, <1>2, <1>4, RootIsHomeNext
<1>6. journal'[root] = prepared /\ (cmd' = "spawn" => journal'[prepared.target] = prepared)
  BY <1>1, <1>2 DEF TypeInv, TypeOK
<1>7. Command'
  BY <1>1, <1>2, <1>6 DEF Command, Preparing
<1>8. Fresh' /\ Migrating'
  BY <1>1, <1>2 DEF Fresh, Migrating
<1> QED  BY <1>4, <1>5, <1>7, <1>8

\* The worker starts from the journals on both sides.
LEMMA SafeSpawn ==
    ASSUME SafeInv, TypeInv', Spawn
    PROVE  Safe'
<1> USE Nothing, DataMigrationAssumption DEF SafeInv, Safe
<1>1. /\ up /\ root # NoRoot /\ pointer = root /\ starting
      /\ prepared \in Journal /\ prepared.source = root /\ prepared.target # root
      /\ prepared.target \in there /\ prepared.phase = "prepared"
      /\ journal[root] = prepared /\ journal[prepared.target] = prepared
      /\ Holds(root)
  BY DEF Spawn, Running, Command, Preparing
<1>2. /\ UNCHANGED <<there, data, journal, marker, pointer, up, root, work, preview, starting, truth>>
      /\ cmd' = "exit" /\ prepared' = NoJournal
      /\ worker'.pc = "validate" /\ worker'.journal = prepared
  BY DEF Spawn, roots, NoWorker
<1>3. Running' /\ Fresh'
  BY <1>1, <1>2 DEF Running, Settled, MarkerValid, Holds, Fresh
<1>4. Home'
  BY <1>1, <1>2, <1>3, RootIsHomeNext
<1>5. Command'
  BY <1>1, <1>2 DEF Command, Preparing
<1>6. Migrating'
  BY <1>1, <1>2 DEF Migrating, InPhase, Progress, Same, Holds
<1> QED  BY <1>3, <1>4, <1>5, <1>6

\* The process leaves or the power fails: what is on the disk stays.
LEMMA SafeGone ==
    ASSUME SafeInv, TypeInv', Exit \/ PowerFails
    PROVE  Safe'
<1> USE Nothing, DataMigrationAssumption DEF SafeInv, Safe
<1>1. /\ UNCHANGED <<there, data, journal, marker, pointer, truth>> /\ Gone
      /\ worker' \in {worker, NoWorker}
  BY DEF Exit, PowerFails, roots
<1>2. Home' /\ Running' /\ Fresh' /\ Command'
  BY <1>1 DEF Gone, Home, RootAtStart, Settled, MarkerValid, Holds, Running, Fresh, Command, Preparing
<1>3. Migrating'
  <2> SUFFICES ASSUME worker' # NoWorker PROVE Migrating'
    BY DEF Migrating
  <2> QED  BY <1>1 DEF Gone, Migrating, InPhase, Progress, Same, Holds
<1> QED  BY <1>2, <1>3

\* The application starts, by the worker or by the user.
LEMMA SafeStart ==
    ASSUME SafeInv, TypeInv', Open \/ Relaunch
    PROVE  Safe'
<1> USE Nothing, DataMigrationAssumption DEF SafeInv, Safe
<1>1. /\ UNCHANGED <<there, data, journal, marker, work, preview, starting, cmd, prepared, truth>>
      /\ ~up /\ up' /\ root' = RootAtStart /\ pointer' = RootAtStart /\ worker' = NoWorker
  BY DEF Open, Relaunch, Start, PointTo, roots, TypeInv, TypeOK
<1>2. pointer = NoRoot => RootAtStart = NoRoot
  BY DEF RootAtStart
<1>3. Running'
  BY <1>1, <1>2 DEF Home, Running, Settled, MarkerValid, Holds
<1>4. Home'
  BY <1>1, <1>3, RootIsHomeNext
<1>5. Command'
  BY <1>1 DEF Running, Command, Preparing
<1>6. Fresh' /\ Migrating'
  BY <1>1, <1>2 DEF Home, Fresh, Migrating
<1> QED  BY <1>3, <1>4, <1>5, <1>6

\* What the interface acknowledges is the journal of the root itself.
LEMMA SafeAcknowledge ==
    ASSUME SafeInv, TypeInv', Acknowledge
    PROVE  Safe'
<1> USE Nothing, DataMigrationAssumption DEF SafeInv, Safe
<1>1. /\ up /\ root \in Root /\ ~starting /\ pointer = root
      /\ UNCHANGED <<there, data, marker, pointer, up, root, work, preview, starting, cmd, prepared, worker, truth>>
  BY DEF Acknowledge, Running, memory, TypeInv, TypeOK
<1>2. cmd \notin Preparing \cup {"exit"} /\ worker = NoWorker
  BY <1>1 DEF Command, Preparing
<1>3. journal'[root] = journal[root]
  BY <1>1 DEF Acknowledge, SaveBoth
<1>4. Running' /\ Fresh' /\ Migrating'
  BY <1>1, <1>2, <1>3 DEF Running, Settled, MarkerValid, Holds, Fresh, Migrating
<1>5. Home'
  BY <1>1, <1>4, RootIsHomeNext
<1>6. Command'
  BY <1>1, <1>2 DEF Command, Preparing
<1> QED  BY <1>4, <1>5, <1>6

\* Other programs, in roots that are not in use or in a target.
LEMMA SafeOthers ==
    ASSUME SafeInv, TypeInv',
           (\E r \in Root : DeleteRoot(r)) \/ (\E f \in File : PutFile(f))
    PROVE  Safe'
<1> USE Nothing, DataMigrationAssumption DEF SafeInv, Safe
<1>1. ASSUME NEW r \in Root, DeleteRoot(r) PROVE Safe'
  <2>1. /\ up /\ r # root /\ r # pointer /\ r # prepared.target
        /\ r # worker.journal.source /\ r # worker.journal.target
        /\ UNCHANGED <<pointer, up, root, work, preview, starting, cmd, prepared, worker, truth>>
    BY <1>1 DEF DeleteRoot, InUse, memory
  <2>2. /\ there' = there \ {r} /\ data'[r] = Empty /\ journal'[r] = NoJournal
        /\ \A s \in Root \ {r} : /\ data'[s] = data[s] /\ journal'[s] = journal[s]
                                 /\ marker'[s] = marker[s]
    BY <1>1 DEF DeleteRoot, TypeInv, TypeOK
  <2>3. Running' /\ Fresh'
    BY <2>1, <2>2 DEF Running, Settled, MarkerValid, Holds, Fresh, TypeInv, TypeOK
  <2>4. Home'
    BY <2>1, <2>3, RootIsHomeNext
  <2>5. Command'
    BY <2>1, <2>2 DEF Command, Preparing, TypeInv, TypeOK
  <2>6. Migrating'
    BY <2>1, <2>2 DEF Migrating, InPhase, Progress, Same, Holds
  <2> QED  BY <2>3, <2>4, <2>5, <2>6
<1>2. ASSUME NEW f \in File, PutFile(f) PROVE Safe'
  <2>1. /\ up /\ root # NoRoot /\ prepared.target # root /\ worker = NoWorker
        /\ pointer = root
        /\ UNCHANGED <<there, journal, marker, pointer, up, root, work, preview, starting, cmd, prepared,
                       worker, truth>>
        /\ data' = [data EXCEPT ![prepared.target][f] = Foreign]
    BY <1>2 DEF PutFile, Running, Command, Preparing, memory, TypeInv, TypeOK
  <2>2. data'[root] = data[root]
    BY <2>1 DEF TypeInv, TypeOK
  <2>3. Running' /\ Fresh' /\ Migrating'
    BY <2>1, <2>2 DEF Running, Settled, MarkerValid, Holds, Fresh, Migrating
  <2>4. Home'
    BY <2>1, <2>3, RootIsHomeNext
  <2>5. Command'
    BY <2>1 DEF Command, Preparing
  <2> QED  BY <2>3, <2>4, <2>5
<1> QED  BY <1>1, <1>2

-----------------------------------------------------------------------------
(* The steps of the worker.                                                *)

\* What a step of the worker may do while the application has not left.
LEMMA WorkerFrame ==
    ASSUME SafeInv, TypeInv', worker # NoWorker, Keep, Migrating', worker' # NoWorker,
           up => /\ UNCHANGED <<there, data, marker, pointer>>
                 /\ journal'[root] \in {journal[root], worker.journal}
    PROVE  Safe'
<1> USE Nothing, DataMigrationAssumption DEF SafeInv, Safe
<1>1. /\ UNCHANGED <<up, root, work, preview, starting, cmd, prepared, truth>>
      /\ up => cmd = "exit" /\ pointer = worker.journal.source
      /\ worker.journal.source # worker.journal.target
  BY DEF Keep, memory, Migrating
<1>2. Running'
  BY <1>1 DEF Running, Settled, MarkerValid, Holds
<1>3. worker'.journal \in Journal /\ pointer' \in {worker'.journal.source, worker'.journal.target}
  BY DEF Migrating, Progress, Phase
<1>4. Fresh'
  BY <1>3 DEF Fresh
<1>5. Command'
  BY <1>1 DEF Running, Command, Preparing
<1>6. Home'
  BY WorkerIsHomeNext
<1> QED  BY <1>2, <1>4, <1>5, <1>6

\* A worker at work: what Migrating says of it, with its steps in mind.
LEMMA AtWork ==
    ASSUME SafeInv, worker # NoWorker
    PROVE  /\ worker.journal \in Journal /\ worker.journal.source # worker.journal.target
           /\ worker.journal.source \in Root /\ worker.journal.target \in Root
           /\ worker \in Worker
           /\ Holds(worker.journal.source) /\ worker.journal.target \in there
           /\ Same(journal[worker.journal.source], worker.journal)
           /\ Same(journal[worker.journal.target], worker.journal)
           /\ journal[worker.journal.target].phase = "completed" =>
                 worker.pc = "restart" /\ worker.journal.phase = "completed"
           /\ up => /\ cmd = "exit" /\ pointer = worker.journal.source
                    /\ pointer = root
                    /\ worker.pc \in {"validate", "wait"} \/ worker.journal.phase = "failed"
           /\ InPhase /\ Progress
BY Nothing DEF SafeInv, Safe, Migrating, TypeInv, Running

LEMMA Transits ==
    ASSUME worker \in Worker, worker.journal \in Journal, NEW p \in Phase, Transition(p)
    PROVE  /\ worker'.journal \in Journal /\ worker'.journal.phase = p
           /\ Same(worker'.journal, worker.journal)
           /\ worker'.pc = "save_source" /\ worker'.manifest = worker.manifest
<1>1. worker'.journal = [worker.journal EXCEPT !.phase = p]
  BY DEF Transition, Worker
<1>2. worker'.pc = "save_source" /\ worker'.manifest = worker.manifest
  BY DEF Transition, Worker
<1> QED  BY <1>1, <1>2 DEF Journal, Same

LEMMA Preflights ==
    ASSUME worker \in Worker, worker.journal \in Journal, WorkerPreflight
    PROVE  /\ worker'.journal \in Journal /\ worker'.journal.phase = "copying"
           /\ Same(worker'.journal, worker.journal)
           /\ worker'.pc = "save_source" /\ worker'.manifest = data[worker.journal.source]
           /\ UNCHANGED <<data, marker, pointer>>
<1>1. PICK retry \in BOOLEAN :
          worker' = [worker EXCEPT !.pc = "save_source", !.retry = retry,
                                   !.journal.phase = "copying",
                                   !.manifest = data[worker.journal.source],
                                   !.left = Names(data[worker.journal.source])]
  BY DEF WorkerPreflight
<1>2. worker'.journal = [worker.journal EXCEPT !.phase = "copying"]
  BY <1>1 DEF Worker
<1>3. worker'.pc = "save_source" /\ worker'.manifest = data[worker.journal.source]
  BY <1>1 DEF Worker
<1> QED  BY <1>2, <1>3 DEF Journal, Phase, Same, WorkerPreflight, roots

\* The steps that only move on, or give up.
LEMMA SafeWorkerMoves ==
    ASSUME SafeInv, TypeInv', worker # NoWorker,
           Validate \/ WaitForParent \/ AllCopied \/ Verify \/ Complete \/ WorkFails \/ FailureNotSaved
    PROVE  Safe'
<1> USE Nothing, DataMigrationAssumption, AtWork
<1> DEFINE j == worker.journal
<1>1. UNCHANGED <<there, data, journal, marker, pointer>> /\ Keep
  BY DEF Validate, WaitForParent, AllCopied, Verify, Complete, WorkFails, FailureNotSaved, roots
<1>2. UNCHANGED <<up, cmd, truth>>
  BY <1>1 DEF Keep, memory
<1>3. /\ Same(worker'.journal, j) /\ worker'.journal \in Journal /\ worker'.pc # "none"
      /\ worker'.manifest = worker.manifest
  <2>1. CASE Validate
    BY <2>1 DEF Validate, Worker, Same, TypeInv, TypeOK
  <2>2. CASE WaitForParent \/ Verify \/ FailureNotSaved
    BY <2>2 DEF WaitForParent, Verify, FailureNotSaved, Goto, Worker, Same
  <2>3. CASE AllCopied \/ Complete \/ WorkFails
    <3>1. PICK p \in Phase : Transition(p)
      BY <2>3 DEF AllCopied, Complete, WorkFails, Phase
    <3> QED  BY <3>1, Transits
  <2> QED  BY <2>1, <2>2, <2>3
<1>4. /\ worker'.journal.id = j.id /\ worker'.journal.source = j.source
      /\ worker'.journal.target = j.target /\ worker' # NoWorker
  BY <1>3 DEF Same
<1>5. /\ Holds(worker.journal.source)' /\ worker.journal'.target \in there'
      /\ Same(journal[worker.journal.source], worker.journal)'
      /\ Same(journal[worker.journal.target], worker.journal)'
  BY <1>1, <1>2, <1>4 DEF Holds, Same
<1>6. journal'[j.target].phase # "completed"
  BY <1>1 DEF Validate, WaitForParent, AllCopied, Verify, Complete, WorkFails, FailureNotSaved, At
<1>7. /\ InPhase' /\ Progress'
      /\ up' => worker'.pc \in {"validate", "wait"} \/ worker'.journal.phase = "failed"
  <2>1. CASE Validate
    BY <1>1, <1>2, <1>4, <2>1 DEF Validate, At, Worker, InPhase, Progress
  <2>2. CASE WaitForParent
    BY <1>1, <1>2, <1>4, <2>2 DEF WaitForParent, ParentGone, Goto, At, Worker, InPhase, Progress
  <2>3. CASE AllCopied \/ Complete
    <3>1. CASE AllCopied
      <4>1. worker'.journal.phase = "verifying" /\ worker'.pc = "save_source"
        BY <3>1, Transits DEF AllCopied, Phase
      <4> QED  BY <1>1, <1>2, <1>3, <1>4, <3>1, <4>1 DEF AllCopied, At, InPhase, Progress
    <3>2. CASE Complete
      <4>1. worker'.journal.phase = "completed" /\ worker'.pc = "save_source"
        BY <3>2, Transits DEF Complete, Phase
      <4> QED  BY <1>1, <1>2, <1>3, <1>4, <3>2, <4>1 DEF Complete, At, InPhase, Progress
    <3> QED  BY <2>3, <3>1, <3>2
  <2>4. CASE Verify
    BY <1>1, <1>2, <1>3, <1>4, <2>4 DEF Verify, VerifyManifest, Goto, At, Worker, InPhase, Progress
  <2>5. CASE WorkFails
    <3>1. worker'.journal.phase = "failed" /\ worker'.pc = "save_source"
      BY <2>5, Transits DEF WorkFails, Phase
    <3>2. j.phase \in Phase /\ pointer \in {j.source, j.target}
      BY Nothing DEF Progress, Phase
    <3> QED  BY <1>1, <1>2, <1>3, <1>4, <3>1, <3>2 DEF InPhase, Progress
  <2>6. CASE FailureNotSaved
    BY <1>1, <1>2, <1>3, <1>4, <2>6 DEF FailureNotSaved, Goto, Worker, InPhase, Progress
  <2> QED  BY <2>1, <2>2, <2>3, <2>4, <2>5, <2>6
<1>8. Migrating'
  BY <1>1, <1>2, <1>3, <1>4, <1>5, <1>6, <1>7 DEF Migrating
<1> QED  BY <1>1, <1>4, <1>8, WorkerFrame

\* The journal of the worker, saved in the source and then in the target.
LEMMA SafeWorkerSaves ==
    ASSUME SafeInv, TypeInv', worker # NoWorker, SaveSource \/ SaveTarget
    PROVE  Safe'
<1> USE Nothing, DataMigrationAssumption, AtWork
<1> DEFINE j == worker.journal
<1>1. /\ UNCHANGED <<there, data, marker, pointer>> /\ Keep
      /\ \/ /\ journal' = [journal EXCEPT ![j.source] = j]
            /\ worker.pc = "save_source" /\ worker' = [worker EXCEPT !.pc = "save_target"]
         \/ /\ journal' = [journal EXCEPT ![j.target] = j]
            /\ worker.pc = "save_target" /\ worker' = [worker EXCEPT !.pc = AfterSave[j.phase]]
  BY DEF SaveSource, SaveTarget, At, Goto
<1>2. UNCHANGED <<up, cmd, truth>>
  BY <1>1 DEF Keep, memory
<1>3. j.phase \in {"copying", "verifying", "switched", "completed", "failed"}
  BY <1>1 DEF InPhase, Phase
<1>4. /\ AfterSave[j.phase] \in {"copy", "verify", "complete", "restart"}
      /\ j.phase = "copying" => AfterSave[j.phase] = "copy"
      /\ j.phase = "verifying" => AfterSave[j.phase] = "verify"
      /\ j.phase = "switched" => AfterSave[j.phase] = "complete"
      /\ j.phase \in {"completed", "failed"} => AfterSave[j.phase] = "restart"
  BY <1>3 DEF AfterSave
<1>5. /\ worker'.journal = j /\ worker'.manifest = worker.manifest
      /\ \/ worker'.pc = "save_target" /\ worker.pc = "save_source"
         \/ worker'.pc = AfterSave[j.phase] /\ worker.pc = "save_target"
  BY <1>1 DEF Worker
<1>6. /\ journal'[j.source] \in {journal[j.source], j} /\ journal'[j.target] \in {journal[j.target], j}
      /\ worker'.pc = "save_target" => journal'[j.target] = journal[j.target]
      /\ up => journal'[root] \in {journal[root], j}
  <2>1. journal \in [Root -> Journal \cup {NoJournal}] /\ (up => root = j.source)
    BY DEF SafeInv, TypeInv, TypeOK
  <2>2. CASE worker.pc = "save_source"
    BY <1>1, <1>5, <2>1, <2>2
  <2>3. CASE worker.pc = "save_target"
    BY <1>1, <1>4, <1>5, <2>1, <2>3
  <2> QED  BY <1>5, <2>2, <2>3
<1>7. /\ Holds(worker.journal.source)' /\ worker.journal'.target \in there'
      /\ Same(journal[worker.journal.source], worker.journal)'
      /\ Same(journal[worker.journal.target], worker.journal)'
  BY <1>1, <1>2, <1>5, <1>6 DEF Holds, Same
<1>8. InPhase'
  BY <1>3, <1>4, <1>5 DEF InPhase
<1>9. Progress'
  BY <1>1, <1>2, <1>3, <1>4, <1>5 DEF Progress
<1>10. worker' # NoWorker
  BY <1>4, <1>5
<1>11. journal'[j.target].phase = "completed" => worker'.pc = "restart" /\ j.phase = "completed"
  BY <1>1, <1>4, <1>5, <1>6
<1>12. Migrating'
  BY <1>1, <1>2, <1>5, <1>7, <1>8, <1>9, <1>10, <1>11 DEF Migrating
<1> QED  BY <1>1, <1>6, <1>10, <1>12, WorkerFrame

\* The steps that change what is in the target, or where it is on record:
\* only when the application has left.
LEMMA SafeWorkerTarget ==
    ASSUME SafeInv, TypeInv', worker # NoWorker,
           WorkerPreflight \/ (\E f \in File : CopyFile(f)) \/ WriteMarker \/ Commit
    PROVE  Safe'
<1> USE Nothing, DataMigrationAssumption, AtWork
<1> DEFINE j == worker.journal
<1>1. /\ UNCHANGED <<there, journal>> /\ Keep
      /\ worker.pc \in {"preflight", "copy", "mark", "commit"}
  BY DEF WorkerPreflight, CopyFile, WriteMarker, Commit, roots, At
<1>2. UNCHANGED <<up, cmd, truth>>
  BY <1>1 DEF Keep, memory
<1>3. ~up
  BY <1>1 DEF InPhase
<1>4. /\ Same(worker'.journal, j) /\ worker'.journal \in Journal /\ worker'.pc # "none"
  <2>1. CASE WorkerPreflight
    BY <2>1, Preflights
  <2>2. CASE WriteMarker \/ \E f \in File : CopyFile(f)
    BY <2>2 DEF WriteMarker, CopyFile, At, Goto, Worker, Same
  <2>3. CASE Commit
    BY <2>3, Transits DEF Commit, Phase
  <2> QED  BY <2>1, <2>2, <2>3
<1>5. /\ worker'.journal.id = j.id /\ worker'.journal.source = j.source
      /\ worker'.journal.target = j.target /\ worker' # NoWorker
  BY <1>4 DEF Same
<1>6. data'[j.source] = data[j.source]
  <2>1. CASE WorkerPreflight \/ WriteMarker \/ Commit
    BY <2>1 DEF WorkerPreflight, WriteMarker, Commit, roots
  <2>2. ASSUME NEW f \in File, CopyFile(f) PROVE data'[j.source] = data[j.source]
    BY <2>2 DEF CopyFile, SafeInv, TypeInv, TypeOK
  <2> QED  BY <2>1, <2>2
<1>7. /\ Holds(worker.journal.source)' /\ worker.journal'.target \in there'
      /\ Same(journal[worker.journal.source], worker.journal)'
      /\ Same(journal[worker.journal.target], worker.journal)'
  BY <1>1, <1>2, <1>5, <1>6 DEF Holds, Same
<1>8. journal'[j.target].phase # "completed"
  BY <1>1
<1>9. InPhase' /\ Progress'
  <2>1. CASE WorkerPreflight
    <3>1. j.phase = "prepared"
      BY <2>1 DEF WorkerPreflight, At, InPhase
    <3>2. /\ worker'.journal.phase = "copying" /\ worker'.pc = "save_source"
          /\ worker'.manifest = data[j.source] /\ pointer' = pointer
      BY <2>1, Preflights
    <3> QED  BY <1>2, <1>5, <3>1, <3>2 DEF InPhase, Progress, Holds
  <2>2. ASSUME NEW f \in File, CopyFile(f) PROVE InPhase' /\ Progress'
    BY <1>2, <1>5, <2>2 DEF CopyFile, At, Worker, InPhase, Progress
  <2>3. CASE WriteMarker
    <3>1. marker'[j.target] = [id |-> j.id, source |-> j.source]
      BY <2>3 DEF WriteMarker, SafeInv, TypeInv, TypeOK
    <3> QED  BY <1>2, <1>5, <2>3, <3>1 DEF WriteMarker, At, Goto, Worker, InPhase, Progress
  <2>4. CASE Commit
    <3>1. worker'.journal.phase = "switched" /\ worker'.pc = "save_source"
      BY <2>4, Transits DEF Commit, Phase
    <3> QED  BY <1>2, <1>5, <2>4, <3>1 DEF Commit, PointTo, At, InPhase, Progress, roots
  <2> QED  BY <2>1, <2>2, <2>3, <2>4
<1>10. Migrating'
  BY <1>2, <1>3, <1>4, <1>5, <1>7, <1>8, <1>9 DEF Migrating
<1> QED  BY <1>1, <1>3, <1>5, <1>10, WorkerFrame

-----------------------------------------------------------------------------
(* Every step, and what follows for every behaviour.                       *)

LEMMA SafeInit == Init => SafeInv
<1> SUFFICES ASSUME Init PROVE SafeInv
  OBVIOUS
<1>1. TypeInv
  BY TypeInit
<1>2. Safe
  BY DataMigrationAssumption
     DEF Init, Safe, Home, Running, Fresh, Command, Preparing, Migrating
<1> QED  BY <1>1, <1>2 DEF SafeInv

LEMMA SafeStep == SafeInv /\ [Next]_vars => SafeInv'
<1> SUFFICES ASSUME SafeInv, [Next]_vars PROVE SafeInv'
  OBVIOUS
<1>1. TypeInv /\ Command /\ Migrating
  BY DEF SafeInv, Safe
<1>2. ASSUME NEW r \in Root, SelectRoot(r) \/ Preflight(r) \/ DeleteRoot(r) PROVE SafeInv'
  <2>1. TypeInv'
    BY <1>1, <1>2, TypeApplication
  <2> QED  BY <1>2, <2>1, SafeSelect, SafeMemory, SafeOthers DEF SafeInv
<1>3. ASSUME NEW kind \in {"gated", "operation"}, BeginWork(kind) PROVE SafeInv'
  <2>1. TypeInv'
    BY <1>1, <1>3, TypeApplication
  <2> QED  BY <1>3, <2>1, SafeMemory DEF SafeInv
<1>4. ASSUME NEW f \in File, Write(f) \/ PutFile(f) PROVE SafeInv'
  <2>1. TypeInv'
    BY <1>1, <1>4, TypeApplication
  <2> QED  BY <1>4, <2>1, SafeWrite, SafeOthers DEF SafeInv
<1>5. CASE EndWork \/ PreflightRetry \/ CheckIdle \/ SetStarting \/ StartFails
  <2>1. TypeInv'
    BY <1>1, <1>5, TypeApplication
  <2> QED  BY <1>5, <2>1, SafeMemory DEF SafeInv
<1>6. CASE Consume \/ PrepareSource \/ PrepareTarget \/ Spawn \/ Exit \/ Acknowledge
           \/ Open \/ PowerFails \/ Relaunch
  <2>1. TypeInv'
    BY <1>1, <1>6, TypeJournals
  <2> QED  BY <1>6, <2>1, SafeMemory, SafePrepare, SafeSpawn, SafeGone, SafeAcknowledge, SafeStart
           DEF SafeInv
<1>7. CASE WorkerStep /\ ~Relaunch
  <2>1. TypeInv'
    BY <1>1, <1>7, TypeWorker
  <2>2. worker # NoWorker
    BY <1>7, Nothing
       DEF WorkerStep, Validate, WaitForParent, WorkerPreflight, SaveSource, SaveTarget, CopyFile,
           AllCopied, Verify, WriteMarker, Commit, Complete, WorkFails, FailureNotSaved, At
  <2> QED  BY <1>7, <2>1, <2>2, SafeWorkerMoves, SafeWorkerSaves, SafeWorkerTarget DEF SafeInv, WorkerStep
<1>8. CASE UNCHANGED vars
  BY <1>8 DEF vars, roots, memory, counts, SafeInv, TypeInv, TypeOK, Safe, Home, RootAtStart, Settled,
              MarkerValid, Holds, Running, Fresh, Command, Preparing, Migrating, InPhase, Progress, Same
<1> QED  BY <1>2, <1>3, <1>4, <1>5, <1>6, <1>7, <1>8 DEF Next

THEOREM SafeAlways == Spec => []SafeInv
<1> QED  BY SafeInit, SafeStep, PTL DEF Spec

\* Types of everything that is kept, whatever is migrated and deleted.
THEOREM MigrationTypes == Spec => []TypeOK
<1>1. SafeInv => TypeOK
  BY DEF SafeInv, TypeInv
<1> QED  BY <1>1, SafeAlways, PTL

\* resolve_runtime_data_root: at every moment the next start finds a root
\* with the last write to every file in it.
THEOREM DataAlwaysRecoverable == Spec => []AlwaysRecoverable
<1>1. SafeInv => AlwaysRecoverable
  BY DEF SafeInv, Safe, Home, Holds, AlwaysRecoverable
<1> QED  BY <1>1, SafeAlways, PTL

\* migration_recovery_resolution: the root the application runs on is the one
\* the next start resolves to, so a completed migration is never undone.
THEOREM CompletedRootsStay == Spec => []NoWayBack
<1>1. SafeInv => NoWayBack
  BY RootIsHome DEF SafeInv, Safe, NoWayBack
<1> QED  BY <1>1, SafeAlways, PTL

-----------------------------------------------------------------------------
(* Updates: what is known of commands that run side by side.               *)

\* The labels of the commands; Busy are those of which two must not meet.
UpdatePlace == Clearing \cup Fetching \cup Checking \cup Installing
                 \cup {"ready", "persist", "persist_save", "auto_save"}
Busy == Checking \cup Fetching \cup Installing

\* Types of everything, and a release wherever one is worked on.
UpdatesTyped ==
    /\ UpdatesTypeOK
    /\ pc \in [Call -> UpdatePlace]
    /\ \A c \in Call : pc[c] \in Fetching \cup {"read", "resolve"} => what[c] \in Release
    /\ phase = "available" => release \in Release

\* Unless a clearing crosses them, one command at most is at work, alone with
\* the phase that is its own.
Apart ==
    ~crossed =>
       /\ \A c, d \in Call : pc[c] \in Busy => /\ pc[d] \in Busy => d = c
                                               /\ pc[d] \notin Clearing
       /\ \A c \in Call : /\ pc[c] \in Checking => phase = "checking"
                          /\ pc[c] \in Fetching => phase = "downloading"
                          /\ pc[c] \in Installing => phase = "installing"

\* A clearing that crosses nothing has taken the pending package.
Cleared == ~crossed => \A c \in Call : pc[c] \in Clearing => pending = None

\* What is worked on and what waits is the release that is shown.
Shown ==
    ~crossed =>
       /\ \A c \in Call : /\ pc[c] \in Fetching \cup {"read", "resolve"} => what[c] = release
                          /\ pc[c] = "downloaded" => pending = release
       /\ phase \in {"downloaded", "installing"} /\ pending # None => pending = release

\* state.json names what has been recorded and what waits.
Recorded ==
    ~raced /\ ~crossed =>
       /\ \A c \in Call : pc[c] \in {"pend", "downloaded"} => stored = release.version
       /\ phase \in {"downloaded", "installing"} /\ pending # None => stored = pending.version

\* A release that resolves is announced by its source and newer than what runs.
LEMMA NewerReleases ==
    ASSUME UpdatesTypeOK, NEW r \in Release, Resolves(r)
    PROVE  r.source \in Source /\ latest[r.source] = r.version /\ r.version > current
<1>1. r.source \in Source /\ r.version \in Version /\ current \in Version
  BY DEF Release, UpdatesTypeOK
<1>2. r # None
  BY <1>1 DEF None, Source
<1> QED  BY <1>1, <1>2 DEF Resolves, ParseManifest, Version

\* Every step of a command keeps the types, and works on a release it was given.
LEMMA UpdatesTypedStep ==
    ASSUME UpdatesTyped, [UpdatesNext]_updatesVars
    PROVE  UpdatesTyped'
<1> USE UpdatesAssumption
<1> USE DEF life, files, ghost, UpdatesTyped, UpdatesTypeOK, UpdatePlace, Busy, Clearing, Fetching, Checking, Installing, Bytes, Release, None, Failed, Unreachable, Source, Version
<1>1. ASSUME NEW c \in Call, Step(c) \/ Check(c) \/ Download(c) \/ Install(c) \/ Clear(c) \/ SetAutoLoad(c)
      PROVE  UpdatesTyped'
  <2>1. CASE Check(c)
    BY <2>1 DEF Check, Proceed, CanCheck, Begin
  <2>2. CASE AskGithub(c)
    <3>1. PICK a \in SourceAnswers("github") :
             IF a = Unreachable
             THEN Proceed(c, "ask_modelscope") /\ UNCHANGED what
             ELSE Proceed(c, "answer") /\ what' = [what EXCEPT ![c] = a]
      BY <2>2 DEF AskGithub
    <3>2. a # Unreachable => a \in Release \cup {None, Failed}
      BY <3>1 DEF SourceAnswers, ParseManifest
    <3>3. pc[c] = "ask_github" /\ UNCHANGED <<current, disk, latest, phase, release, pending, stored,
                                               file, part, snap>>
      BY <2>2 DEF AskGithub
    <3>4. CASE a = Unreachable
      <4>1. pc' = [pc EXCEPT ![c] = "ask_modelscope"] /\ UNCHANGED what
        BY <3>1, <3>4 DEF Proceed
      <4> QED  BY <3>3, <4>1
    <3>5. CASE a # Unreachable
      <4>1. what' = [what EXCEPT ![c] = a] /\ pc' = [pc EXCEPT ![c] = "answer"]
        BY <3>1, <3>5 DEF Proceed
      <4>2. what' \in [Call -> Release \cup {None, Failed}]
        BY <4>1, <3>2, <3>5
      <4> QED  BY <3>3, <4>1, <4>2
    <3> QED  BY <3>4, <3>5
  <2>3. CASE AskModelscope(c)
    BY <2>3 DEF AskModelscope, Proceed, SourceAnswers, ParseManifest
  <2>4. CASE TakeAnswer(c)
    BY <2>4 DEF TakeAnswer, Proceed, SourceError, Accept, Fail
  <2>5. CASE AnswerTooLate(c)
    BY <2>5 DEF AnswerTooLate, Proceed, Return
  <2>6. CASE PersistLoad(c)
    BY <2>6 DEF PersistLoad, Proceed, Load
  <2>7. CASE PersistSave(c)
    BY <2>7 DEF PersistSave, Proceed, Save, Persist, Return
  <2>8. CASE Download(c)
    BY <2>8 DEF Download, Proceed, Begin
  <2>9. CASE Fetch(c)
    BY <2>9 DEF Fetch, Proceed
  <2>10. CASE OpenPartial(c)
    <3> DEFINE v == what[c].version
    <3>1. v \in Version
      OBVIOUS
    <3>2. /\ pc[c] = "open" /\ pc' \in [Call -> UpdatePlace]
          /\ \A d \in Call : pc'[d] = IF d = c THEN IF file[v] = "whole" THEN "record" ELSE "write"
                                      ELSE pc[d]
      BY <2>10 DEF OpenPartial, Proceed
    <3>3. file' \in [Version -> Bytes] /\ part' \in [Version -> Bytes]
      BY <2>10, <3>1 DEF OpenPartial
    <3>4. UNCHANGED <<current, disk, latest, phase, release, pending, stored, what, snap>>
      BY <2>10 DEF OpenPartial
    <3> HIDE DEF v
    <3> QED  BY <3>2, <3>3, <3>4
  <2>11. CASE WriteAll(c)
    BY <2>11 DEF WriteAll, Proceed
  <2>12. CASE Rename(c)
    BY <2>12 DEF Rename, Proceed
  <2>13. CASE DownloadFails(c)
    BY <2>13 DEF DownloadFails, Proceed, Fail, Return
  <2>14. CASE RecordLoad(c)
    BY <2>14 DEF RecordLoad, Proceed, Load
  <2>15. CASE RecordSave(c)
    BY <2>15 DEF RecordSave, Proceed, Save
  <2>16. CASE SetPending(c)
    BY <2>16 DEF SetPending, Proceed
  <2>17. CASE SetDownloaded(c)
    BY <2>17 DEF SetDownloaded, Proceed, Return
  <2>18. CASE Install(c)
    BY <2>18 DEF Install, Proceed, CanInstall, Begin
  <2>19. CASE TakePending(c)
    BY <2>19 DEF TakePending, Proceed
  <2>20. CASE ReadStaged(c)
    BY <2>20 DEF ReadStaged, Proceed
  <2>21. CASE RunInstaller(c)
    BY <2>21 DEF RunInstaller, Proceed, Resolves, ParseManifest, Return
  <2>22. CASE InstallFails(c)
    BY <2>22 DEF InstallFails, Proceed, Fail, Return
  <2>23. CASE Clear(c)
    BY <2>23 DEF Clear, Proceed, Load
  <2>24. CASE RemoveStaged(c)
    BY <2>24 DEF RemoveStaged, Proceed
  <2>25. CASE ClearSave(c)
    BY <2>25 DEF ClearSave, Proceed, Save
  <2>26. CASE ClearFails(c)
    BY <2>26 DEF ClearFails, Proceed, Return
  <2>27. CASE Reset(c)
    BY <2>27 DEF Reset, Proceed, Return
  <2>28. CASE SetAutoLoad(c)
    BY <2>28 DEF SetAutoLoad, Proceed, Load
  <2>29. CASE SetAutoSave(c)
    BY <2>29 DEF SetAutoSave, Proceed, Save, Return
  <2> QED  BY <1>1, <2>1, <2>2, <2>3, <2>4, <2>5, <2>6, <2>7, <2>8, <2>9, <2>10, <2>11, <2>12, <2>13, <2>14, <2>15, <2>16, <2>17, <2>18, <2>19, <2>20, <2>21, <2>22, <2>23, <2>24, <2>25, <2>26, <2>27, <2>28, <2>29 DEF Step
<1>2. ASSUME NEW s \in Source, Publish(s)
      PROVE  UpdatesTyped'
  BY <1>2 DEF Publish
<1>3. CASE Restart
  BY <1>3 DEF Restart
<1>4. CASE UNCHANGED updatesVars
  BY <1>4 DEF updatesVars
<1> QED  BY <1>1, <1>2, <1>3, <1>4 DEF UpdatesNext

\* begin_check, begin_download and begin_install admit one command at a time,
\* until a clearing resets the phase under it.
LEMMA ApartStep ==
    ASSUME UpdatesTyped, Apart, [UpdatesNext]_updatesVars
    PROVE  Apart'
<1> USE DEF life, files, ghost, Apart, UpdatesTyped, UpdatePlace, Busy, Clearing, Fetching, Checking, Installing
<1>1. ASSUME NEW c \in Call, Step(c) \/ Check(c) \/ Download(c) \/ Install(c) \/ Clear(c) \/ SetAutoLoad(c)
      PROVE  Apart'
  <2>1. CASE Check(c)
    <3>1. CASE crossed'
      BY <3>1
    <3>2. CASE ~crossed'
      <4>1. ~crossed /\ \A d \in Call : pc[d] \notin Clearing
        BY <2>1, <3>2 DEF Check, Begin
      <4>2. phase \notin {"checking", "downloading", "installing"}
        BY <2>1 DEF Check, CanCheck
      <4>3. \A d \in Call : pc[d] \notin Busy
        BY <4>1, <4>2
      <4>4. phase' = "checking" /\ pc' = [pc EXCEPT ![c] = "ask_github"]
        BY <2>1 DEF Check, Begin, Proceed
      <4> QED  BY <4>1, <4>3, <4>4
    <3> QED  BY <3>1, <3>2
  <2>2. CASE AskGithub(c)
    BY <2>2 DEF AskGithub, Proceed, SourceAnswers, ParseManifest
  <2>3. CASE AskModelscope(c)
    BY <2>3 DEF AskModelscope, Proceed, SourceAnswers, ParseManifest
  <2>4. CASE TakeAnswer(c)
    BY <2>4 DEF TakeAnswer, Proceed, SourceError, Accept, Fail
  <2>5. CASE AnswerTooLate(c)
    BY <2>5 DEF AnswerTooLate, Proceed, Return
  <2>6. CASE PersistLoad(c)
    BY <2>6 DEF PersistLoad, Proceed, Load
  <2>7. CASE PersistSave(c)
    BY <2>7 DEF PersistSave, Proceed, Save, Persist, Return
  <2>8. CASE Download(c)
    BY <2>8 DEF Download, Proceed, Begin
  <2>9. CASE Fetch(c)
    BY <2>9 DEF Fetch, Proceed
  <2>10. CASE OpenPartial(c)
    BY <2>10 DEF OpenPartial, Proceed
  <2>11. CASE WriteAll(c)
    BY <2>11 DEF WriteAll, Proceed
  <2>12. CASE Rename(c)
    BY <2>12 DEF Rename, Proceed
  <2>13. CASE DownloadFails(c)
    BY <2>13 DEF DownloadFails, Proceed, Fail, Return
  <2>14. CASE RecordLoad(c)
    BY <2>14 DEF RecordLoad, Proceed, Load
  <2>15. CASE RecordSave(c)
    BY <2>15 DEF RecordSave, Proceed, Save
  <2>16. CASE SetPending(c)
    BY <2>16 DEF SetPending, Proceed
  <2>17. CASE SetDownloaded(c)
    BY <2>17 DEF SetDownloaded, Proceed, Return
  <2>18. CASE Install(c)
    BY <2>18 DEF Install, Proceed, CanInstall, Begin
  <2>19. CASE TakePending(c)
    BY <2>19 DEF TakePending, Proceed
  <2>20. CASE ReadStaged(c)
    BY <2>20 DEF ReadStaged, Proceed
  <2>21. CASE RunInstaller(c)
    BY <2>21 DEF RunInstaller, Proceed, Resolves, ParseManifest, Return
  <2>22. CASE InstallFails(c)
    BY <2>22 DEF InstallFails, Proceed, Fail, Return
  <2>23. CASE Clear(c)
    BY <2>23 DEF Clear, Proceed, Load
  <2>24. CASE RemoveStaged(c)
    BY <2>24 DEF RemoveStaged, Proceed
  <2>25. CASE ClearSave(c)
    BY <2>25 DEF ClearSave, Proceed, Save
  <2>26. CASE ClearFails(c)
    BY <2>26 DEF ClearFails, Proceed, Return
  <2>27. CASE Reset(c)
    BY <2>27 DEF Reset, Proceed, Return
  <2>28. CASE SetAutoLoad(c)
    BY <2>28 DEF SetAutoLoad, Proceed, Load
  <2>29. CASE SetAutoSave(c)
    BY <2>29 DEF SetAutoSave, Proceed, Save, Return
  <2> QED  BY <1>1, <2>1, <2>2, <2>3, <2>4, <2>5, <2>6, <2>7, <2>8, <2>9, <2>10, <2>11, <2>12, <2>13, <2>14, <2>15, <2>16, <2>17, <2>18, <2>19, <2>20, <2>21, <2>22, <2>23, <2>24, <2>25, <2>26, <2>27, <2>28, <2>29 DEF Step
<1>2. ASSUME NEW s \in Source, Publish(s)
      PROVE  Apart'
  BY <1>2 DEF Publish
<1>3. CASE Restart
  BY <1>3 DEF Restart
<1>4. CASE UNCHANGED updatesVars
  BY <1>4 DEF updatesVars
<1> QED  BY <1>1, <1>2, <1>3, <1>4 DEF UpdatesNext

\* clear_downloaded takes the pending package first; only a download that it
\* crosses can put another one there.
LEMMA ClearedStep ==
    ASSUME UpdatesTyped, Apart, Cleared, [UpdatesNext]_updatesVars
    PROVE  Cleared'
<1> USE DEF life, files, ghost, Cleared, Apart, UpdatesTyped, UpdatePlace, Busy, Clearing, Fetching, Checking, Installing
<1>1. ASSUME NEW c \in Call, Step(c) \/ Check(c) \/ Download(c) \/ Install(c) \/ Clear(c) \/ SetAutoLoad(c)
      PROVE  Cleared'
  <2>1. CASE Check(c)
    BY <2>1 DEF Check, Proceed, CanCheck, Begin
  <2>2. CASE AskGithub(c)
    BY <2>2 DEF AskGithub, Proceed, SourceAnswers, ParseManifest
  <2>3. CASE AskModelscope(c)
    BY <2>3 DEF AskModelscope, Proceed, SourceAnswers, ParseManifest
  <2>4. CASE TakeAnswer(c)
    BY <2>4 DEF TakeAnswer, Proceed, SourceError, Accept, Fail
  <2>5. CASE AnswerTooLate(c)
    BY <2>5 DEF AnswerTooLate, Proceed, Return
  <2>6. CASE PersistLoad(c)
    BY <2>6 DEF PersistLoad, Proceed, Load
  <2>7. CASE PersistSave(c)
    BY <2>7 DEF PersistSave, Proceed, Save, Persist, Return
  <2>8. CASE Download(c)
    BY <2>8 DEF Download, Proceed, Begin
  <2>9. CASE Fetch(c)
    BY <2>9 DEF Fetch, Proceed
  <2>10. CASE OpenPartial(c)
    BY <2>10 DEF OpenPartial, Proceed
  <2>11. CASE WriteAll(c)
    BY <2>11 DEF WriteAll, Proceed
  <2>12. CASE Rename(c)
    BY <2>12 DEF Rename, Proceed
  <2>13. CASE DownloadFails(c)
    BY <2>13 DEF DownloadFails, Proceed, Fail, Return
  <2>14. CASE RecordLoad(c)
    BY <2>14 DEF RecordLoad, Proceed, Load
  <2>15. CASE RecordSave(c)
    BY <2>15 DEF RecordSave, Proceed, Save
  <2>16. CASE SetPending(c)
    BY <2>16 DEF SetPending, Proceed
  <2>17. CASE SetDownloaded(c)
    BY <2>17 DEF SetDownloaded, Proceed, Return
  <2>18. CASE Install(c)
    BY <2>18 DEF Install, Proceed, CanInstall, Begin
  <2>19. CASE TakePending(c)
    BY <2>19 DEF TakePending, Proceed
  <2>20. CASE ReadStaged(c)
    BY <2>20 DEF ReadStaged, Proceed
  <2>21. CASE RunInstaller(c)
    BY <2>21 DEF RunInstaller, Proceed, Resolves, ParseManifest, Return
  <2>22. CASE InstallFails(c)
    BY <2>22 DEF InstallFails, Proceed, Fail, Return
  <2>23. CASE Clear(c)
    BY <2>23 DEF Clear, Proceed, Load
  <2>24. CASE RemoveStaged(c)
    BY <2>24 DEF RemoveStaged, Proceed
  <2>25. CASE ClearSave(c)
    BY <2>25 DEF ClearSave, Proceed, Save
  <2>26. CASE ClearFails(c)
    BY <2>26 DEF ClearFails, Proceed, Return
  <2>27. CASE Reset(c)
    BY <2>27 DEF Reset, Proceed, Return
  <2>28. CASE SetAutoLoad(c)
    BY <2>28 DEF SetAutoLoad, Proceed, Load
  <2>29. CASE SetAutoSave(c)
    BY <2>29 DEF SetAutoSave, Proceed, Save, Return
  <2> QED  BY <1>1, <2>1, <2>2, <2>3, <2>4, <2>5, <2>6, <2>7, <2>8, <2>9, <2>10, <2>11, <2>12, <2>13, <2>14, <2>15, <2>16, <2>17, <2>18, <2>19, <2>20, <2>21, <2>22, <2>23, <2>24, <2>25, <2>26, <2>27, <2>28, <2>29 DEF Step
<1>2. ASSUME NEW s \in Source, Publish(s)
      PROVE  Cleared'
  BY <1>2 DEF Publish
<1>3. CASE Restart
  BY <1>3 DEF Restart
<1>4. CASE UNCHANGED updatesVars
  BY <1>4 DEF updatesVars
<1> QED  BY <1>1, <1>2, <1>3, <1>4 DEF UpdatesNext

\* From Download to RunInstaller the release passes through the command, pending
\* and the lifecycle, and stays the same in all three.
LEMMA ShownStep ==
    ASSUME UpdatesTyped, Apart, Cleared, Shown, [UpdatesNext]_updatesVars
    PROVE  Shown'
<1> USE DEF life, files, ghost, Shown, Cleared, Apart, UpdatesTyped, UpdatesTypeOK, UpdatePlace, Busy, Clearing, Fetching, Checking, Installing
<1>1. ASSUME NEW c \in Call, Step(c) \/ Check(c) \/ Download(c) \/ Install(c) \/ Clear(c) \/ SetAutoLoad(c)
      PROVE  Shown'
  <2>1. CASE Check(c)
    BY <2>1 DEF Check, Proceed, CanCheck, Begin
  <2>2. CASE AskGithub(c)
    BY <2>2 DEF AskGithub, Proceed, SourceAnswers, ParseManifest
  <2>3. CASE AskModelscope(c)
    BY <2>3 DEF AskModelscope, Proceed, SourceAnswers, ParseManifest
  <2>4. CASE TakeAnswer(c)
    BY <2>4 DEF TakeAnswer, Proceed, SourceError, Accept, Fail
  <2>5. CASE AnswerTooLate(c)
    BY <2>5 DEF AnswerTooLate, Proceed, Return
  <2>6. CASE PersistLoad(c)
    BY <2>6 DEF PersistLoad, Proceed, Load
  <2>7. CASE PersistSave(c)
    BY <2>7 DEF PersistSave, Proceed, Save, Persist, Return
  <2>8. CASE Download(c)
    BY <2>8 DEF Download, Proceed, Begin
  <2>9. CASE Fetch(c)
    BY <2>9 DEF Fetch, Proceed
  <2>10. CASE OpenPartial(c)
    BY <2>10 DEF OpenPartial, Proceed
  <2>11. CASE WriteAll(c)
    BY <2>11 DEF WriteAll, Proceed
  <2>12. CASE Rename(c)
    BY <2>12 DEF Rename, Proceed
  <2>13. CASE DownloadFails(c)
    BY <2>13 DEF DownloadFails, Proceed, Fail, Return
  <2>14. CASE RecordLoad(c)
    BY <2>14 DEF RecordLoad, Proceed, Load
  <2>15. CASE RecordSave(c)
    BY <2>15 DEF RecordSave, Proceed, Save
  <2>16. CASE SetPending(c)
    BY <2>16 DEF SetPending, Proceed
  <2>17. CASE SetDownloaded(c)
    BY <2>17 DEF SetDownloaded, Proceed, Return
  <2>18. CASE Install(c)
    BY <2>18 DEF Install, Proceed, CanInstall, Begin
  <2>19. CASE TakePending(c)
    BY <2>19 DEF TakePending, Proceed
  <2>20. CASE ReadStaged(c)
    BY <2>20 DEF ReadStaged, Proceed
  <2>21. CASE RunInstaller(c)
    BY <2>21 DEF RunInstaller, Proceed, Resolves, ParseManifest, Return
  <2>22. CASE InstallFails(c)
    BY <2>22 DEF InstallFails, Proceed, Fail, Return
  <2>23. CASE Clear(c)
    BY <2>23 DEF Clear, Proceed, Load
  <2>24. CASE RemoveStaged(c)
    BY <2>24 DEF RemoveStaged, Proceed
  <2>25. CASE ClearSave(c)
    BY <2>25 DEF ClearSave, Proceed, Save
  <2>26. CASE ClearFails(c)
    BY <2>26 DEF ClearFails, Proceed, Return
  <2>27. CASE Reset(c)
    BY <2>27 DEF Reset, Proceed, Return
  <2>28. CASE SetAutoLoad(c)
    BY <2>28 DEF SetAutoLoad, Proceed, Load
  <2>29. CASE SetAutoSave(c)
    BY <2>29 DEF SetAutoSave, Proceed, Save, Return
  <2> QED  BY <1>1, <2>1, <2>2, <2>3, <2>4, <2>5, <2>6, <2>7, <2>8, <2>9, <2>10, <2>11, <2>12, <2>13, <2>14, <2>15, <2>16, <2>17, <2>18, <2>19, <2>20, <2>21, <2>22, <2>23, <2>24, <2>25, <2>26, <2>27, <2>28, <2>29 DEF Step
<1>2. ASSUME NEW s \in Source, Publish(s)
      PROVE  Shown'
  BY <1>2 DEF Publish
<1>3. CASE Restart
  BY <1>3 DEF Restart
<1>4. CASE UNCHANGED updatesVars
  BY <1>4 DEF updatesVars
<1> QED  BY <1>1, <1>2, <1>3, <1>4 DEF UpdatesNext

\* A save that keeps what it read changes nothing as long as what it read is
\* still there.
LEMMA RecordedStep ==
    ASSUME UpdatesTyped, Apart, Cleared, Shown, Recorded, [UpdatesNext]_updatesVars
    PROVE  Recorded'
<1> USE DEF life, files, ghost, Recorded, Shown, Cleared, Apart, UpdatesTyped, UpdatesTypeOK, UpdatePlace, Busy, Clearing, Fetching, Checking, Installing
<1>1. ASSUME NEW c \in Call, Step(c) \/ Check(c) \/ Download(c) \/ Install(c) \/ Clear(c) \/ SetAutoLoad(c)
      PROVE  Recorded'
  <2>1. CASE Check(c)
    BY <2>1 DEF Check, Proceed, CanCheck, Begin
  <2>2. CASE AskGithub(c)
    BY <2>2 DEF AskGithub, Proceed, SourceAnswers, ParseManifest
  <2>3. CASE AskModelscope(c)
    BY <2>3 DEF AskModelscope, Proceed, SourceAnswers, ParseManifest
  <2>4. CASE TakeAnswer(c)
    BY <2>4 DEF TakeAnswer, Proceed, SourceError, Accept, Fail
  <2>5. CASE AnswerTooLate(c)
    BY <2>5 DEF AnswerTooLate, Proceed, Return
  <2>6. CASE PersistLoad(c)
    BY <2>6 DEF PersistLoad, Proceed, Load
  <2>7. CASE PersistSave(c)
    BY <2>7 DEF PersistSave, Proceed, Save, Persist, Return
  <2>8. CASE Download(c)
    BY <2>8 DEF Download, Proceed, Begin
  <2>9. CASE Fetch(c)
    BY <2>9 DEF Fetch, Proceed
  <2>10. CASE OpenPartial(c)
    BY <2>10 DEF OpenPartial, Proceed
  <2>11. CASE WriteAll(c)
    BY <2>11 DEF WriteAll, Proceed
  <2>12. CASE Rename(c)
    BY <2>12 DEF Rename, Proceed
  <2>13. CASE DownloadFails(c)
    BY <2>13 DEF DownloadFails, Proceed, Fail, Return
  <2>14. CASE RecordLoad(c)
    BY <2>14 DEF RecordLoad, Proceed, Load
  <2>15. CASE RecordSave(c)
    BY <2>15 DEF RecordSave, Proceed, Save
  <2>16. CASE SetPending(c)
    BY <2>16 DEF SetPending, Proceed
  <2>17. CASE SetDownloaded(c)
    BY <2>17 DEF SetDownloaded, Proceed, Return
  <2>18. CASE Install(c)
    BY <2>18 DEF Install, Proceed, CanInstall, Begin
  <2>19. CASE TakePending(c)
    BY <2>19 DEF TakePending, Proceed
  <2>20. CASE ReadStaged(c)
    BY <2>20 DEF ReadStaged, Proceed
  <2>21. CASE RunInstaller(c)
    BY <2>21 DEF RunInstaller, Proceed, Resolves, ParseManifest, Return
  <2>22. CASE InstallFails(c)
    BY <2>22 DEF InstallFails, Proceed, Fail, Return
  <2>23. CASE Clear(c)
    BY <2>23 DEF Clear, Proceed, Load
  <2>24. CASE RemoveStaged(c)
    BY <2>24 DEF RemoveStaged, Proceed
  <2>25. CASE ClearSave(c)
    BY <2>25 DEF ClearSave, Proceed, Save
  <2>26. CASE ClearFails(c)
    BY <2>26 DEF ClearFails, Proceed, Return
  <2>27. CASE Reset(c)
    BY <2>27 DEF Reset, Proceed, Return
  <2>28. CASE SetAutoLoad(c)
    BY <2>28 DEF SetAutoLoad, Proceed, Load
  <2>29. CASE SetAutoSave(c)
    BY <2>29 DEF SetAutoSave, Proceed, Save, Return
  <2> QED  BY <1>1, <2>1, <2>2, <2>3, <2>4, <2>5, <2>6, <2>7, <2>8, <2>9, <2>10, <2>11, <2>12, <2>13, <2>14, <2>15, <2>16, <2>17, <2>18, <2>19, <2>20, <2>21, <2>22, <2>23, <2>24, <2>25, <2>26, <2>27, <2>28, <2>29 DEF Step
<1>2. ASSUME NEW s \in Source, Publish(s)
      PROVE  Recorded'
  BY <1>2 DEF Publish
<1>3. CASE Restart
  BY <1>3 DEF Restart
<1>4. CASE UNCHANGED updatesVars
  BY <1>4 DEF updatesVars
<1> QED  BY <1>1, <1>2, <1>3, <1>4 DEF UpdatesNext

\* Every way a command ends also ends the phase it began.
LEMMA OwnedStep ==
    ASSUME UpdatesTyped, BusyIsOwned, [UpdatesNext]_updatesVars
    PROVE  BusyIsOwned'
<1> USE DEF life, files, ghost, BusyIsOwned, UpdatesTyped, UpdatesTypeOK, UpdatePlace, Busy, Clearing, Fetching, Checking, Installing
<1>1. ASSUME NEW c \in Call, Step(c) \/ Check(c) \/ Download(c) \/ Install(c) \/ Clear(c) \/ SetAutoLoad(c)
      PROVE  BusyIsOwned'
  <2>1. CASE Check(c)
    BY <2>1 DEF Check, Proceed, CanCheck, Begin
  <2>2. CASE AskGithub(c)
    BY <2>2 DEF AskGithub, Proceed, SourceAnswers, ParseManifest
  <2>3. CASE AskModelscope(c)
    BY <2>3 DEF AskModelscope, Proceed, SourceAnswers, ParseManifest
  <2>4. CASE TakeAnswer(c)
    BY <2>4 DEF TakeAnswer, Proceed, SourceError, Accept, Fail
  <2>5. CASE AnswerTooLate(c)
    BY <2>5 DEF AnswerTooLate, Proceed, Return
  <2>6. CASE PersistLoad(c)
    BY <2>6 DEF PersistLoad, Proceed, Load
  <2>7. CASE PersistSave(c)
    BY <2>7 DEF PersistSave, Proceed, Save, Persist, Return
  <2>8. CASE Download(c)
    BY <2>8 DEF Download, Proceed, Begin
  <2>9. CASE Fetch(c)
    BY <2>9 DEF Fetch, Proceed
  <2>10. CASE OpenPartial(c)
    BY <2>10 DEF OpenPartial, Proceed
  <2>11. CASE WriteAll(c)
    BY <2>11 DEF WriteAll, Proceed
  <2>12. CASE Rename(c)
    BY <2>12 DEF Rename, Proceed
  <2>13. CASE DownloadFails(c)
    BY <2>13 DEF DownloadFails, Proceed, Fail, Return
  <2>14. CASE RecordLoad(c)
    BY <2>14 DEF RecordLoad, Proceed, Load
  <2>15. CASE RecordSave(c)
    BY <2>15 DEF RecordSave, Proceed, Save
  <2>16. CASE SetPending(c)
    BY <2>16 DEF SetPending, Proceed
  <2>17. CASE SetDownloaded(c)
    BY <2>17 DEF SetDownloaded, Proceed, Return
  <2>18. CASE Install(c)
    BY <2>18 DEF Install, Proceed, CanInstall, Begin
  <2>19. CASE TakePending(c)
    BY <2>19 DEF TakePending, Proceed
  <2>20. CASE ReadStaged(c)
    BY <2>20 DEF ReadStaged, Proceed
  <2>21. CASE RunInstaller(c)
    <3>1. what[c] \in Release /\ Resolves(what[c]) /\ disk' = what[c].version
      BY <2>21 DEF RunInstaller
    <3>2. disk' > current
      BY <3>1, NewerReleases
    <3>3. pc[c] = "resolve" /\ UNCHANGED <<current, phase>> /\ pc' = [pc EXCEPT ![c] = "ready"]
      BY <2>21 DEF RunInstaller, Return, Proceed
    <3> QED  BY <3>2, <3>3
  <2>22. CASE InstallFails(c)
    BY <2>22 DEF InstallFails, Proceed, Fail, Return
  <2>23. CASE Clear(c)
    BY <2>23 DEF Clear, Proceed, Load
  <2>24. CASE RemoveStaged(c)
    BY <2>24 DEF RemoveStaged, Proceed
  <2>25. CASE ClearSave(c)
    BY <2>25 DEF ClearSave, Proceed, Save
  <2>26. CASE ClearFails(c)
    BY <2>26 DEF ClearFails, Proceed, Return
  <2>27. CASE Reset(c)
    BY <2>27 DEF Reset, Proceed, Return
  <2>28. CASE SetAutoLoad(c)
    BY <2>28 DEF SetAutoLoad, Proceed, Load
  <2>29. CASE SetAutoSave(c)
    BY <2>29 DEF SetAutoSave, Proceed, Save, Return
  <2> QED  BY <1>1, <2>1, <2>2, <2>3, <2>4, <2>5, <2>6, <2>7, <2>8, <2>9, <2>10, <2>11, <2>12, <2>13, <2>14, <2>15, <2>16, <2>17, <2>18, <2>19, <2>20, <2>21, <2>22, <2>23, <2>24, <2>25, <2>26, <2>27, <2>28, <2>29 DEF Step
<1>2. ASSUME NEW s \in Source, Publish(s)
      PROVE  BusyIsOwned'
  BY <1>2 DEF Publish
<1>3. CASE Restart
  BY <1>3 DEF Restart
<1>4. CASE UNCHANGED updatesVars
  BY <1>4 DEF updatesVars
<1> QED  BY <1>1, <1>2, <1>3, <1>4 DEF UpdatesNext

-----------------------------------------------------------------------------
(* The theorems about updates.                                             *)

UpdatesInv == UpdatesTyped /\ Apart /\ Cleared /\ Shown /\ Recorded /\ BusyIsOwned

LEMMA UpdatesInvInit == UpdatesInit => UpdatesInv
<1> SUFFICES ASSUME UpdatesInit PROVE UpdatesInv
  OBVIOUS
<1> USE UpdatesAssumption DEF UpdatesInit, Clearing, Fetching, Checking, Installing
<1>1. UpdatesTyped
  BY DEF UpdatesTyped, UpdatesTypeOK, UpdatePlace, Bytes, Version
<1>2. Apart /\ Cleared /\ Shown /\ Recorded /\ BusyIsOwned
  BY DEF Apart, Cleared, Shown, Recorded, BusyIsOwned, Busy
<1> QED  BY <1>1, <1>2 DEF UpdatesInv

LEMMA UpdatesInvAlways == UpdatesSpec => []UpdatesInv
<1>1. UpdatesInv /\ [UpdatesNext]_updatesVars => UpdatesInv'
  BY UpdatesTypedStep, ApartStep, ClearedStep, ShownStep, RecordedStep, OwnedStep DEF UpdatesInv
<1> QED  BY <1>1, UpdatesInvInit, PTL DEF UpdatesSpec

\* Types of the lifecycle, the store and the files.
THEOREM UpdateTypes == UpdatesSpec => []UpdatesTypeOK
<1>1. UpdatesInv => UpdatesTypeOK
  BY DEF UpdatesInv, UpdatesTyped
<1> QED  BY <1>1, UpdatesInvAlways, PTL

\* state.json of state_store.rs: without a lost save and without a clearing
\* that crosses, it names the package that waits to be installed.
THEOREM StoreAlwaysKept == UpdatesSpec => []StoreKept
<1>1. UpdatesInv => StoreKept
  BY DEF UpdatesInv, Recorded, StoreKept
<1> QED  BY <1>1, UpdatesInvAlways, PTL

\* UpdateLifecycle: a phase that shuts others out always has a command, or a
\* started installer, behind it.
THEOREM BusyPhasesOwned == UpdatesSpec => []BusyIsOwned
<1>1. UpdatesInv => BusyIsOwned
  BY DEF UpdatesInv
<1> QED  BY <1>1, UpdatesInvAlways, PTL

\* UpdateManager::install: what the user confirmed is what is read for the
\* installer, unless a clearing crossed another command.
THEOREM InstallationsShown == UpdatesSpec => InstallsWhatIsShown
<1>1. UpdatesInv =>
         \A c \in Call : pc[c] = "read" /\ ~crossed => what[c] = release
  BY DEF UpdatesInv, Shown
<1>2. UpdatesInv /\ [UpdatesNext]_updatesVars =>
         [\A c \in Call : pc[c] = "read" /\ pc'[c] = "resolve" /\ ~crossed => what[c] = release]_updatesVars
  BY <1>1
<1> QED  BY <1>2, UpdatesInvAlways, PTL DEF UpdatesSpec, InstallsWhatIsShown
=============================================================================
