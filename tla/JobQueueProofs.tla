--------------------------- MODULE JobQueueProofs ---------------------------
(***************************************************************************)
(* Machine-checked proofs about JobQueue, for every number of jobs, every   *)
(* set of classes and shared sources, and every set of failures.            *)
(*                                                                          *)
(* The first part (Control) holds for every number of workers: which jobs   *)
(* are queued, being started, running and settled.  The rest (Solo, Disk,   *)
(* Learn, Board) is about the single worker of the source: one job at a     *)
(* time between setup and accretion, so that its copy of the main sources   *)
(* is still the newest when it is merged.                                   *)
(***************************************************************************)
EXTENDS JobQueue, FiniteSetTheorems, SequenceTheorems, TLAPS

\* Jobs taken from the queue so far.
Popped == NJobs - Len(queue)

\* The queue is what is left of the command line.
QueueShape ==
  /\ Len(queue) \in 0..NJobs
  /\ \A k \in 1..Len(queue) : queue[k] = Popped + k

\* The only popped job without a verdict or a pipe is the one being started.
OutcomeShape ==
  /\ \A i \in Job : i > Popped => outcome[i] = "waiting"
  /\ \A i \in Job : (i <= Popped /\ outcome[i] = "waiting") =>
                      pc \in {"setup", "spawn"} /\ i = cur
  /\ pc \in {"setup", "spawn"} => cur = Popped /\ outcome[cur] = "waiting"
  /\ pc \in {"merge", "clean", "index", "accrete"} => outcome[cur] = "ok"

\* The pipes open are those of the running jobs, and they are counted.
ActiveShape ==
  /\ active = {i \in Job : outcome[i] = "running"}
  /\ activeCount = Cardinality(active)
  /\ activeCount <= MaxWorkers
  /\ pc \in {"setup", "spawn"} => activeCount < MaxWorkers
  /\ pc = "exited" => queue = <<>> /\ active = {}

\* A pipeline runs only for a running job.
ProcShape == \A i \in Job : proc[i] = "running" => outcome[i] = "running"

ControlInv == TypeOK /\ QueueShape /\ OutcomeShape /\ ActiveShape /\ ProcShape

\* With one worker the job being handled is the one popped last, and no pipe
\* is open while a workspace is set up or merged.
SoloShape ==
  /\ active \subseteq {cur}
  /\ Popped > 0 => cur = Popped
  /\ pc \in {"setup", "spawn", "merge", "clean", "index", "accrete"} => active = {}

\* A job is dropped only by an error that leaves nothing able to go on, and
\* the exit code collects the failures.
CodeShape ==
  /\ (\E i \in Job : outcome[i] = "dropped") =>
       pc = "aborted" \/ (pc = "loop" /\ active = {})
  /\ pc = "aborted" => exitCode = 1
  /\ pc # "aborted" => (exitCode = 1 <=> \E i \in Job : outcome[i] = "failed")

SoloInv == ControlInv /\ SoloShape /\ CodeShape

\* The workspace of job i differs from the main sources in what i wrote.
CopyOfMain(i) ==
  /\ ws[spec[i]] # None
  /\ \A f \in File : ws[spec[i]].gen[f] \in {main[f], i}

DiskShape ==
  /\ FailedJobsLeaveMainAlone
  /\ pc = "spawn" => ws[spec[cur]] = Snapshot
  /\ \A i \in active : CopyOfMain(i)
  /\ pc = "merge" => CopyOfMain(cur)

DiskInv == SoloInv /\ DiskShape

\* What job i leaves in its workspace has been verified.
ResultVerified(i) ==
  LET v == ws[spec[i]].gen[spec[i]] IN v # Absent /\ <<spec[i], v>> \in verified

LearnShape ==
  /\ ExemplarsAreVerified
  /\ \A i \in active : proc[i] = "exit0" => ResultVerified(i)
  /\ pc = "merge" => ResultVerified(cur)
  /\ pc \in {"clean", "index", "accrete"} =>
       <<spec[cur], main[spec[cur]]>> \in verified

LearnInv == DiskInv /\ LearnShape

\* Between the exit of a pipeline and its accretion.
Settling == pc \in {"merge", "clean", "index", "accrete"}

\* The workspace of job i teaches what the table does, and differs from the
\* main sources in no class but its own.
Faithful(i) ==
  \A c \in Class : /\ ws[spec[i]].exemplars[c] = exemplars[c]
                   /\ c # spec[i] => ws[spec[i]].gen[c] = main[c]

\* What has been learned: the exemplars of every class completed, but for the
\* one being settled, are its source.
TaughtShape ==
  /\ \A j \in Job : outcome[j] = "ok" /\ (Settling => spec[j] # spec[cur]) =>
                     exemplars[spec[j]] = main[spec[j]]
  /\ \A i \in active : Faithful(i)
  /\ pc = "merge" => Faithful(cur)
  /\ pc \in {"clean", "index", "accrete"} => main[spec[cur]] # Absent
  /\ pc = "accrete" => spec[cur] \in indexed

TaughtInv == LearnInv /\ TaughtShape

-----------------------------------------------------------------------------
LEMMA TypeStep == TypeOK /\ [Next]_vars => TypeOK'
<1> SUFFICES ASSUME TypeOK, [Next]_vars PROVE TypeOK'
  OBVIOUS
<1> USE JobAssumption DEF JobAssumption
<1>0. Snapshot \in Workspace
  BY DEF TypeOK, Snapshot, Workspace
<1>1. CASE NextExit
  BY <1>1 DEF NextExit, TypeOK, disk
<1>2. CASE NextWait
  BY <1>2 DEF NextWait, TypeOK, disk
<1>3. CASE NextPop
  BY <1>3 DEF NextPop, TypeOK, disk
<1>4. CASE SetupStarved
  BY <1>4 DEF SetupStarved, TypeOK, disk, Outcome
<1>5. CASE SetupDone
  BY <1>0, <1>5 DEF SetupDone, TypeOK
<1>6. CASE SetupError
  <2>1. ws' \in [Class -> Workspace \cup {None}]
    BY <1>0, <1>6 DEF SetupError, TypeOK
  <2> QED
    BY <1>6, <2>1 DEF SetupError, TypeOK, Outcome
<1>7. CASE SpawnDone
  BY <1>7 DEF SpawnDone, TypeOK, disk, Outcome
<1>8. CASE SpawnError
  BY <1>8 DEF SpawnError, CleanupWorkspace, TypeOK, Outcome
<1>9. ASSUME NEW i \in Job, HandleSuccess(i) PROVE TypeOK'
  BY <1>9 DEF HandleSuccess, PipeClosed, TypeOK, disk, Outcome
<1>10. ASSUME NEW i \in Job, HandleFailure(i) PROVE TypeOK'
  BY <1>10 DEF HandleFailure, PipeClosed, CleanupWorkspace, TypeOK, Outcome
<1>11. CASE MergeWorkspace
  <2>1. ASSUME NEW S, main' = Copied(S) PROVE main' \in [File -> Version]
    <3>1. \A f \in Produced : ws[spec[cur]].gen[f] \in Version
      BY DEF Produced, TypeOK, Workspace
    <3> QED
      BY <2>1, <3>1 DEF Copied, TypeOK
  <2> QED
    BY <1>11, <2>1 DEF MergeWorkspace, TypeOK
<1>12. CASE CleanAfterSuccess
  BY <1>12 DEF CleanAfterSuccess, CleanupWorkspace, TypeOK
<1>13. CASE UpdateMainLedger
  BY <1>13 DEF UpdateMainLedger, Extracted, TypeOK
<1>14. CASE AccreteExemplars
  BY <1>14 DEF AccreteExemplars, TypeOK, File
<1>15. CASE VwaitFails
  BY <1>15 DEF VwaitFails, TypeOK, disk
<1>16. ASSUME NEW i \in Job, PipelineWrites(i) PROVE TypeOK'
  <2>1. PICK f \in {spec[i]} \cup Shared :
          ws' = [ws EXCEPT ![spec[i]].gen[f] = i]
    BY <1>16 DEF PipelineWrites
  <2>2. f \in File /\ i \in Version
    BY DEF File, Version, Absent, Job, TypeOK
  <2>3. ws[spec[i]] \in Workspace
    BY <1>16 DEF PipelineWrites, TypeOK
  <2>4. [ws[spec[i]] EXCEPT !.gen[f] = i] \in Workspace
    BY <2>2, <2>3 DEF Workspace
  <2>5. ws' \in [Class -> Workspace \cup {None}]
    BY <2>1, <2>4 DEF TypeOK
  <2> QED
    BY <1>16, <2>5 DEF PipelineWrites, TypeOK, supervisor
<1>17. ASSUME NEW i \in Job, PipelineSucceeds(i) PROVE TypeOK'
  <2>1. ws[spec[i]] \in Workspace /\ spec[i] \in Class
    BY <1>17 DEF PipelineSucceeds, TypeOK
  <2>2. ws[spec[i]].gen[spec[i]] \in Version
    BY <2>1 DEF Workspace, File
  <2> QED
    BY <1>17, <2>1, <2>2 DEF PipelineSucceeds, TypeOK, supervisor, disk
<1>18. ASSUME NEW i \in Job, PipelineFails(i) \/ PipelineHangs(i) PROVE TypeOK'
  BY <1>18 DEF PipelineFails, PipelineHangs, TypeOK, supervisor, disk
<1>19. CASE UNCHANGED vars
  BY <1>19 DEF vars, TypeOK, supervisor, disk
<1> QED
  BY <1>1, <1>2, <1>3, <1>4, <1>5, <1>6, <1>7, <1>8, <1>9, <1>10, <1>11, <1>12,
     <1>13, <1>14, <1>15, <1>16, <1>17, <1>18, <1>19
     DEF Next, StartNextJob, HandleOutput, Pipeline

LEMMA TypeInit == Init => TypeOK
<1> SUFFICES ASSUME Init PROVE TypeOK
  OBVIOUS
<1> USE JobAssumption DEF JobAssumption
<1>1. Leftover \in Workspace
  BY DEF Leftover, Workspace, Version, Absent
<1>2. 1 \in Job /\ [i \in Job |-> i] \in Seq(Job)
  BY DEF Job
<1>3. main \in [File -> Version] /\ exemplars \in [Class -> Version]
  BY DEF Init, Version, Absent
<1>4. ws \in [Class -> Workspace \cup {None}]
  BY <1>1 DEF Init
<1>5. entered \in BOOLEAN
  BY Zenon DEF Init
<1> QED
  BY <1>2, <1>3, <1>4, <1>5 DEF Init, TypeOK, Outcome

\* Supervisor, pipelines and disk keep their types through every interleaving
\* and every failure.
THEOREM TypeCorrect == Spec => []TypeOK
BY TypeInit, TypeStep, PTL DEF Spec

-----------------------------------------------------------------------------
\* The control invariant.

LEMMA ActiveFinite == ASSUME TypeOK PROVE IsFiniteSet(active)
<1>1. IsFiniteSet(Job)
  BY FS_Interval, JobAssumption DEF Job, JobAssumption
<1> QED
  BY <1>1, FS_Subset DEF TypeOK

LEMMA ControlInit == Init => ControlInv
<1> SUFFICES ASSUME Init PROVE ControlInv
  OBVIOUS
<1> USE JobAssumption DEF JobAssumption
<1>1. Len(queue) = NJobs /\ \A k \in 1..NJobs : queue[k] = k
  BY DEF Init, Job
<1>2. QueueShape /\ Popped = 0
  BY <1>1 DEF QueueShape, Popped
<1>3. OutcomeShape
  BY <1>2 DEF Init, OutcomeShape, Job
<1>4. ActiveShape
  BY FS_EmptySet DEF Init, ActiveShape
<1>5. ProcShape
  BY DEF Init, ProcShape
<1> QED
  BY <1>2, <1>3, <1>4, <1>5, TypeInit DEF ControlInv

\* Steps that touch neither the queue nor a verdict nor the open pipes.
LEMMA ControlFrame ==
  ASSUME ControlInv, TypeOK', UNCHANGED <<queue, outcome, active, activeCount>>,
         pc' \in {"setup", "spawn"} => pc \in {"setup", "spawn"},
         pc \in {"setup", "spawn"} => pc' \in {"setup", "spawn"},
         pc' \in {"merge", "clean", "index", "accrete"}
           => pc \in {"merge", "clean", "index", "accrete"},
         pc' = "exited" => pc = "exited" \/ (queue = <<>> /\ activeCount = 0),
         cur' = cur,
         \A i \in Job : proc'[i] = "running" => proc[i] = "running"
  PROVE  ControlInv'
<1>1. QueueShape' /\ Popped' = Popped
  BY DEF ControlInv, QueueShape, Popped
<1>2. OutcomeShape'
  BY <1>1 DEF ControlInv, OutcomeShape
<1>3. activeCount = 0 => active = {}
  BY ActiveFinite, FS_EmptySet DEF ControlInv, ActiveShape
<1>4. ActiveShape'
  BY <1>3 DEF ControlInv, ActiveShape
<1>5. ProcShape'
  BY DEF ControlInv, ProcShape
<1> QED
  BY <1>1, <1>2, <1>4, <1>5 DEF ControlInv

LEMMA ControlPop == ControlInv /\ TypeOK' /\ NextPop => ControlInv'
<1> SUFFICES ASSUME ControlInv, TypeOK', NextPop PROVE ControlInv'
  OBVIOUS
<1> USE JobAssumption DEF JobAssumption
<1>1. /\ queue \in Seq(Job) /\ queue # <<>> /\ Len(queue) \in 1..NJobs
      /\ \A k \in 1..Len(queue) : queue[k] = Popped + k
      /\ queue' = Tail(queue) /\ cur' = Head(queue)
  BY DEF NextPop, ControlInv, TypeOK, QueueShape
<1>2. Len(queue') = Len(queue) - 1 /\ \A k \in 1..Len(queue') : queue'[k] = queue[k + 1]
  BY <1>1
<1>3. Popped' = Popped + 1 /\ cur' = Popped' /\ cur' \in Job
  BY <1>1, <1>2 DEF Popped, Job
<1>4. QueueShape'
  BY <1>1, <1>2, <1>3 DEF QueueShape, Popped
<1>5. OutcomeShape'
  <2>1. \A i \in Job : i > Popped' => outcome'[i] = "waiting"
    BY <1>1, <1>3 DEF NextPop, ControlInv, OutcomeShape, Job, Popped
  <2>2. ASSUME NEW i \in Job, i <= Popped', outcome'[i] = "waiting" PROVE i = cur'
    BY <1>1, <1>3, <2>2 DEF NextPop, ControlInv, OutcomeShape, Job, Popped
  <2>3. outcome'[cur'] = "waiting"
    BY <1>1, <1>3 DEF NextPop, ControlInv, OutcomeShape, Job, Popped
  <2> QED
    BY <1>3, <2>1, <2>2, <2>3 DEF NextPop, OutcomeShape
<1>6. ActiveShape'
  BY DEF NextPop, WorkerFree, ControlInv, ActiveShape, TypeOK
<1>7. ProcShape'
  BY DEF NextPop, ControlInv, ProcShape
<1> QED
  BY <1>4, <1>5, <1>6, <1>7 DEF ControlInv

\* The job being started leaves "waiting" for a verdict without a pipe.
LEMMA ControlRefuse ==
  ASSUME ControlInv, TypeOK', pc \in {"setup", "spawn"},
         NEW o \in {"failed", "dropped"}, outcome' = [outcome EXCEPT ![cur] = o],
         UNCHANGED <<queue, active, activeCount, cur, proc>>,
         pc' \in {"next", "loop", "aborted"}
  PROVE  ControlInv'
<1>1. QueueShape' /\ Popped' = Popped
  BY DEF ControlInv, QueueShape, Popped
<1>2. cur \in Job /\ cur = Popped /\ outcome[cur] = "waiting" /\ outcome \in [Job -> Outcome]
  BY DEF ControlInv, OutcomeShape, TypeOK
<1>3. OutcomeShape'
  <2>1. \A j \in Job : j > Popped => outcome'[j] = "waiting"
    BY <1>2 DEF ControlInv, OutcomeShape, Job
  <2>2. \A j \in Job : j <= Popped => outcome'[j] # "waiting"
    BY <1>2 DEF ControlInv, OutcomeShape, Job
  <2> QED
    BY <1>1, <2>1, <2>2 DEF OutcomeShape
<1>4. ActiveShape'
  BY <1>2 DEF ControlInv, ActiveShape
<1>5. ProcShape'
  BY <1>2 DEF ControlInv, ProcShape
<1> QED
  BY <1>1, <1>3, <1>4, <1>5 DEF ControlInv

LEMMA ControlSpawn == ControlInv /\ TypeOK' /\ SpawnDone => ControlInv'
<1> SUFFICES ASSUME ControlInv, TypeOK', SpawnDone PROVE ControlInv'
  OBVIOUS
<1> USE JobAssumption DEF JobAssumption
<1>1. QueueShape' /\ Popped' = Popped
  BY DEF SpawnDone, ControlInv, QueueShape, Popped
<1>2. cur \in Job /\ cur = Popped /\ outcome[cur] = "waiting" /\ outcome \in [Job -> Outcome]
  BY DEF SpawnDone, ControlInv, OutcomeShape, TypeOK
<1>3. OutcomeShape'
  <2>1. \A j \in Job : j > Popped => outcome'[j] = "waiting"
    BY <1>2 DEF SpawnDone, ControlInv, OutcomeShape, Job
  <2>2. \A j \in Job : j <= Popped => outcome'[j] # "waiting"
    BY <1>2 DEF SpawnDone, ControlInv, OutcomeShape, Job
  <2> QED
    BY <1>1, <2>1, <2>2 DEF SpawnDone, OutcomeShape
<1>4. cur \notin active /\ IsFiniteSet(active)
  BY <1>2, ActiveFinite DEF ControlInv, ActiveShape
<1>5. Cardinality(active \cup {cur}) = Cardinality(active) + 1
  BY <1>4, FS_AddElement
<1>6. active' = {i \in Job : outcome'[i] = "running"}
  BY <1>2 DEF SpawnDone, ControlInv, ActiveShape
<1>7. ActiveShape'
  BY <1>5, <1>6 DEF SpawnDone, ControlInv, ActiveShape, TypeOK
<1>8. ProcShape'
  BY <1>2 DEF SpawnDone, ControlInv, ProcShape, TypeOK
<1> QED
  BY <1>1, <1>3, <1>7, <1>8 DEF ControlInv

\* A closed pipe: the job gets its verdict and leaves the open pipes.
LEMMA ControlClosed ==
  ASSUME ControlInv, TypeOK', NEW i \in Job, PipeClosed(i),
         NEW o \in {"ok", "failed"}, outcome' = [outcome EXCEPT ![i] = o],
         UNCHANGED <<queue, proc>>, proc[i] # "running",
         pc' = IF o = "ok" THEN "merge" ELSE "next"
  PROVE  ControlInv'
<1> USE JobAssumption DEF JobAssumption
<1>1. QueueShape' /\ Popped' = Popped
  BY DEF ControlInv, QueueShape, Popped
<1>2. /\ pc = "loop" /\ i \in active /\ outcome[i] = "running" /\ cur' = i
      /\ active' = active \ {i} /\ activeCount' = activeCount - 1
      /\ outcome \in [Job -> Outcome]
  BY DEF PipeClosed, ControlInv, ActiveShape, TypeOK
<1>3. OutcomeShape'
  BY <1>1, <1>2 DEF ControlInv, OutcomeShape
<1>4. Cardinality(active \ {i}) = Cardinality(active) - 1
  BY <1>2, ActiveFinite, FS_RemoveElement DEF ControlInv
<1>5. active' = {j \in Job : outcome'[j] = "running"}
  BY <1>2 DEF ControlInv, ActiveShape
<1>6. ActiveShape'
  BY <1>2, <1>4, <1>5 DEF ControlInv, ActiveShape, TypeOK
<1>7. ProcShape'
  BY <1>2 DEF ControlInv, ProcShape, TypeOK
<1> QED
  BY <1>1, <1>3, <1>6, <1>7 DEF ControlInv

LEMMA ControlStep == ControlInv /\ [Next]_vars => ControlInv'
<1> SUFFICES ASSUME ControlInv, [Next]_vars PROVE ControlInv'
  OBVIOUS
<1>0. TypeOK'
  BY TypeStep DEF ControlInv
<1>1. CASE NextExit
  BY <1>0, <1>1, ControlFrame DEF NextExit
<1>2. CASE NextWait
  BY <1>0, <1>2, ControlFrame DEF NextWait
<1>3. CASE NextPop
  BY <1>0, <1>3, ControlPop
<1>4. CASE SetupStarved
  BY <1>0, <1>4, ControlRefuse DEF SetupStarved
<1>5. CASE SetupDone
  BY <1>0, <1>5, ControlFrame DEF SetupDone
<1>6. CASE SetupError
  <2>1. pc' \in {"loop", "aborted"}
    BY <1>6 DEF SetupError
  <2> QED
    BY <1>0, <1>6, <2>1, ControlRefuse DEF SetupError
<1>7. CASE SpawnDone
  BY <1>0, <1>7, ControlSpawn
<1>8. CASE SpawnError
  BY <1>0, <1>8, ControlRefuse DEF SpawnError
<1>9. ASSUME NEW i \in Job, HandleSuccess(i) PROVE ControlInv'
  BY <1>0, <1>9, ControlClosed DEF HandleSuccess
<1>10. ASSUME NEW i \in Job, HandleFailure(i) PROVE ControlInv'
  BY <1>0, <1>10, ControlClosed DEF HandleFailure
<1>11. CASE MergeWorkspace
  BY <1>0, <1>11, ControlFrame DEF MergeWorkspace
<1>12. CASE CleanAfterSuccess
  BY <1>0, <1>12, ControlFrame DEF CleanAfterSuccess
<1>13. CASE UpdateMainLedger
  BY <1>0, <1>13, ControlFrame DEF UpdateMainLedger
<1>14. CASE AccreteExemplars
  BY <1>0, <1>14, ControlFrame DEF AccreteExemplars
<1>15. CASE VwaitFails
  BY <1>0, <1>15, ControlFrame DEF VwaitFails
<1>16. ASSUME NEW i \in Job, PipelineWrites(i) PROVE ControlInv'
  BY <1>0, <1>16, ControlFrame DEF PipelineWrites, supervisor
<1>17. ASSUME NEW i \in Job, PipelineSucceeds(i) \/ PipelineFails(i) \/ PipelineHangs(i) PROVE ControlInv'
  <2>1. \A j \in Job : proc'[j] = "running" => proc[j] = "running"
    BY <1>17 DEF PipelineSucceeds, PipelineFails, PipelineHangs, ControlInv, TypeOK
  <2> QED
    BY <1>0, <1>17, <2>1, ControlFrame DEF PipelineSucceeds, PipelineFails, PipelineHangs, supervisor
<1>18. CASE UNCHANGED vars
  BY <1>0, <1>18, ControlFrame DEF vars, supervisor
<1> QED
  BY <1>1, <1>2, <1>3, <1>4, <1>5, <1>6, <1>7, <1>8, <1>9, <1>10, <1>11, <1>12,
     <1>13, <1>14, <1>15, <1>16, <1>17, <1>18
     DEF Next, StartNextJob, HandleOutput, Pipeline

LEMMA ControlInvariant == Spec => []ControlInv
BY ControlInit, ControlStep, PTL DEF Spec

\* The counter that gates new pipelines counts the open pipes and respects the
\* configured number of workers, for every number of jobs and of workers.
THEOREM AccountingCorrect == Spec => []ActiveAccounting
<1>1. ControlInv => ActiveAccounting
  BY DEF ControlInv, ActiveShape, ActiveAccounting
<1> QED
  BY <1>1, ControlInvariant, PTL

-----------------------------------------------------------------------------
\* One worker, as in the source.

LEMMA SoloInit == MaxWorkers = 1 /\ Init => SoloInv
<1> SUFFICES ASSUME MaxWorkers = 1, Init PROVE SoloInv
  OBVIOUS
<1>1. ControlInv /\ Popped = 0
  BY ControlInit, JobAssumption DEF Init, Popped, Job, JobAssumption
<1>2. SoloShape /\ CodeShape
  BY <1>1 DEF Init, SoloShape, CodeShape, Job
<1> QED
  BY <1>1, <1>2 DEF SoloInv

\* With one worker a free worker means that no pipe is open.
LEMMA FreeMeansIdle ==
  ASSUME TypeOK, ActiveShape, MaxWorkers = 1, activeCount < MaxWorkers
  PROVE  active = {}
<1>1. Cardinality(active) \in Nat /\ IsFiniteSet(active)
  BY ActiveFinite, FS_CardinalityType
<1>2. Cardinality(active) = 0
  BY <1>1 DEF ActiveShape
<1> QED
  BY <1>1, <1>2, FS_EmptySet

LEMMA SoloStep == MaxWorkers = 1 /\ SoloInv /\ [Next]_vars => SoloInv'
<1> SUFFICES ASSUME MaxWorkers = 1, SoloInv, [Next]_vars PROVE SoloInv'
  OBVIOUS
<1>0. /\ ControlInv /\ ControlInv' /\ TypeOK /\ QueueShape /\ OutcomeShape
      /\ ActiveShape /\ ActiveShape' /\ TypeOK' /\ OutcomeShape'
      /\ SoloShape /\ CodeShape
  BY ControlStep DEF SoloInv, ControlInv
<1>a. WorkerFree => active = {}
  BY <1>0, FreeMeansIdle DEF WorkerFree
<1>b. pc \in {"setup", "spawn"} => active = {} /\ cur \in Job /\ outcome[cur] = "waiting"
  BY <1>0 DEF SoloShape, OutcomeShape, TypeOK
<1>c. UNCHANGED queue => Popped' = Popped
  BY DEF Popped
<1>1. CASE NextExit
  BY <1>0, <1>1, <1>c DEF NextExit, SoloInv, SoloShape, CodeShape
<1>2. CASE NextWait
  BY <1>0, <1>2, <1>c DEF NextWait, SoloInv, SoloShape, CodeShape
<1>3. CASE NextPop
  <2>1. active' = {} /\ cur' = Popped'
    BY <1>0, <1>3, <1>a DEF NextPop, OutcomeShape
  <2> QED
    BY <1>0, <1>3, <2>1 DEF NextPop, SoloInv, SoloShape, CodeShape
<1>4. CASE SetupStarved
  BY <1>0, <1>b, <1>4, <1>c DEF SetupStarved, SoloInv, SoloShape, CodeShape
<1>5. CASE SetupDone
  BY <1>0, <1>5, <1>c DEF SetupDone, SoloInv, SoloShape, CodeShape
<1>6. CASE SetupError
  <2>1. \A i \in Job : (outcome'[i] = "failed") <=> (outcome[i] = "failed")
    BY <1>0, <1>b, <1>6 DEF SetupError, TypeOK
  <2>2. (pc' = "loop" /\ exitCode' = exitCode) \/ (pc' = "aborted" /\ exitCode' = 1)
    BY <1>6 DEF SetupError
  <2>3. pc = "setup" /\ UNCHANGED <<queue, active, cur>>
    BY <1>6 DEF SetupError
  <2>4. SoloShape'
    BY <1>0, <1>b, <2>2, <2>3, <1>c DEF SoloShape
  <2>5. CodeShape'
    BY <1>0, <1>b, <2>1, <2>2, <2>3 DEF CodeShape
  <2> QED
    BY <1>0, <2>4, <2>5 DEF SoloInv
<1>7. CASE SpawnDone
  <2>1. \A i \in Job : i # cur => outcome'[i] = outcome[i]
    BY <1>0, <1>7 DEF SpawnDone, TypeOK
  <2>2. outcome'[cur] = "running"
    BY <1>0, <1>b, <1>7 DEF SpawnDone, TypeOK
  <2>3. CodeShape'
    BY <1>0, <1>b, <1>7, <2>1, <2>2 DEF SpawnDone, CodeShape
  <2>4. SoloShape'
    BY <1>0, <1>b, <1>7, <1>c DEF SpawnDone, SoloShape
  <2> QED
    BY <1>0, <2>3, <2>4 DEF SoloInv
<1>8. CASE SpawnError
  <2>1. \A i \in Job : i # cur => outcome'[i] = outcome[i]
    BY <1>0, <1>8 DEF SpawnError, TypeOK
  <2>2. outcome'[cur] = "failed"
    BY <1>0, <1>b, <1>8 DEF SpawnError, TypeOK
  <2>3. CodeShape'
    BY <1>0, <1>b, <1>8, <2>1, <2>2 DEF SpawnError, CodeShape
  <2>4. SoloShape'
    BY <1>0, <1>b, <1>8, <1>c DEF SpawnError, SoloShape
  <2> QED
    BY <1>0, <2>3, <2>4 DEF SoloInv
<1>9. ASSUME NEW i \in Job, HandleSuccess(i) \/ HandleFailure(i) PROVE SoloInv'
  <2>1. /\ pc = "loop" /\ i \in active /\ cur' = i /\ active' = active \ {i}
        /\ UNCHANGED queue
    BY <1>9 DEF HandleSuccess, HandleFailure, PipeClosed
  <2>2. i = cur /\ active' = {}
    BY <1>0, <2>1 DEF SoloShape
  <2>3. SoloShape'
    BY <1>0, <2>1, <2>2, <1>c DEF SoloShape
  <2>4. \A j \in Job : j # i => outcome'[j] = outcome[j]
    BY <1>0, <1>9 DEF HandleSuccess, HandleFailure, TypeOK
  <2>5. outcome[i] = "running" /\ outcome'[i] \in {"ok", "failed"}
    BY <1>0, <1>9, <2>1 DEF HandleSuccess, HandleFailure, TypeOK, ActiveShape
  <2>6. \A j \in Job : outcome[j] # "dropped" /\ outcome'[j] # "dropped"
    BY <1>0, <2>1, <2>4, <2>5 DEF CodeShape
  <2>7. CASE HandleSuccess(i)
    <3>1. outcome'[i] = "ok" /\ exitCode' = exitCode /\ pc' = "merge"
      BY <1>0, <2>7 DEF HandleSuccess, TypeOK
    <3>2. CodeShape'
      BY <1>0, <2>1, <2>4, <2>5, <2>6, <3>1 DEF CodeShape
    <3> QED
      BY <1>0, <2>3, <3>2 DEF SoloInv
  <2>8. CASE HandleFailure(i)
    <3>1. outcome'[i] = "failed" /\ exitCode' = 1 /\ pc' = "next"
      BY <1>0, <2>8 DEF HandleFailure, TypeOK
    <3>2. CodeShape'
      BY <2>6, <3>1 DEF CodeShape
    <3> QED
      BY <1>0, <2>3, <3>2 DEF SoloInv
  <2> QED
    BY <1>9, <2>7, <2>8
<1>10. CASE MergeWorkspace
  BY <1>0, <1>10, <1>c DEF MergeWorkspace, SoloInv, SoloShape, CodeShape
<1>11. CASE CleanAfterSuccess
  BY <1>0, <1>11, <1>c DEF CleanAfterSuccess, SoloInv, SoloShape, CodeShape
<1>12. CASE UpdateMainLedger
  BY <1>0, <1>12, <1>c DEF UpdateMainLedger, SoloInv, SoloShape, CodeShape
<1>13. CASE AccreteExemplars
  BY <1>0, <1>13, <1>c DEF AccreteExemplars, SoloInv, SoloShape, CodeShape
<1>14. CASE VwaitFails
  BY <1>0, <1>14, <1>c DEF VwaitFails, SoloInv, SoloShape, CodeShape
<1>15. ASSUME NEW i \in Job, Pipeline(i) PROVE SoloInv'
  BY <1>0, <1>15, <1>c DEF Pipeline, PipelineWrites, PipelineSucceeds, PipelineFails, PipelineHangs,
     supervisor, SoloInv, SoloShape, CodeShape
<1>16. CASE UNCHANGED vars
  BY <1>0, <1>16, <1>c DEF vars, supervisor, SoloInv, SoloShape, CodeShape
<1> QED
  BY <1>1, <1>2, <1>3, <1>4, <1>5, <1>6, <1>7, <1>8, <1>9, <1>10, <1>11, <1>12,
     <1>13, <1>14, <1>15, <1>16 DEF Next, StartNextJob, HandleOutput

\* With one worker the supervisor never exits with a job unsettled, and its
\* exit code is 1 exactly when a job failed, whatever else goes wrong.
THEOREM ExitCorrect == ASSUME MaxWorkers = 1 PROVE Spec => []ExitIsHonest
<1>1. SoloInv => ExitIsHonest
  <2> SUFFICES ASSUME SoloInv, pc = "exited"
               PROVE  /\ \A i \in Job : outcome[i] \in {"ok", "failed"}
                      /\ exitCode = 1 <=> \E i \in Job : outcome[i] = "failed"
    BY DEF ExitIsHonest
  <2>1. queue = <<>> /\ active = {}
    BY DEF SoloInv, ControlInv, ActiveShape
  <2>2. \A i \in Job : i <= Popped
    BY <2>1, JobAssumption DEF Popped, Job, JobAssumption
  <2>3. \A i \in Job : outcome[i] \notin {"waiting", "running", "dropped"}
    BY <2>1, <2>2 DEF SoloInv, ControlInv, OutcomeShape, ActiveShape, CodeShape
  <2> QED
    BY <2>3 DEF SoloInv, ControlInv, TypeOK, Outcome, CodeShape
<1>2. Init => SoloInv
  BY SoloInit
<1>3. SoloInv /\ [Next]_vars => SoloInv'
  BY SoloStep
<1> QED
  BY <1>1, <1>2, <1>3, PTL DEF Spec

-----------------------------------------------------------------------------
\* The disk: what a single worker does to the main sources.

\* Steps that leave the sources alone and start nothing.
LEMMA DiskFrame ==
  ASSUME DiskInv, SoloInv', UNCHANGED <<main, ws, exemplars, spec>>,
         active' \subseteq active,
         pc' = "spawn" => pc = "spawn" /\ cur' = cur,
         pc' = "merge" => pc = "merge" /\ cur' = cur,
         \A i \in Job : outcome[i] = "ok" => outcome'[i] = "ok"
  PROVE  DiskInv'
<1>1. FailedJobsLeaveMainAlone'
  BY DEF DiskInv, DiskShape, FailedJobsLeaveMainAlone, SoloInv, ControlInv, TypeOK,
     Version, Absent, Job
<1>2. \A i \in active' : CopyOfMain(i)'
  BY DEF DiskInv, DiskShape, CopyOfMain
<1>3. pc' = "spawn" => ws'[spec'[cur']] = Snapshot'
  BY DEF DiskInv, DiskShape, Snapshot
<1>4. pc' = "merge" => CopyOfMain(cur)'
  BY DEF DiskInv, DiskShape, CopyOfMain
<1> QED
  BY <1>1, <1>2, <1>3, <1>4 DEF DiskInv, DiskShape

\* Steps after which no job is between its setup and its merge.
LEMMA DiskIdle ==
  ASSUME DiskInv, SoloInv', main' = main, active' = {}, pc' \notin {"spawn", "merge"},
         \A i \in Job : outcome[i] = "ok" => outcome'[i] = "ok"
  PROVE  DiskInv'
<1>1. FailedJobsLeaveMainAlone'
  BY DEF DiskInv, DiskShape, FailedJobsLeaveMainAlone, SoloInv, ControlInv, TypeOK,
     Version, Absent, Job
<1> QED
  BY <1>1 DEF DiskInv, DiskShape

\* What a merge may do to a source: nothing, or bring the version of its job.
LEMMA MergeBringsOwnVersion ==
  ASSUME DiskInv, MergeWorkspace, NEW f \in File
  PROVE  main'[f] \in {main[f], cur} /\ outcome[cur] = "ok" /\ main[f] <= cur
<1>1. CopyOfMain(cur) /\ outcome[cur] = "ok" /\ cur \in Job
  BY DEF DiskInv, DiskShape, MergeWorkspace, SoloInv, ControlInv, OutcomeShape, TypeOK
<1>2. \A S : f \in S \cap Produced => ws[spec[cur]].gen[f] \in {main[f], cur}
  BY <1>1 DEF CopyOfMain
<1>3. main'[f] \in {main[f], cur}
  BY <1>2 DEF MergeWorkspace, Copied
<1>4. main[f] \in Version /\ (main[f] > 0 => outcome[main[f]] = "ok")
  BY DEF DiskInv, DiskShape, FailedJobsLeaveMainAlone, SoloInv, ControlInv, TypeOK
<1>5. Popped \in Int /\ \A i \in Job : outcome[i] = "ok" => i <= Popped
  BY JobAssumption DEF DiskInv, SoloInv, ControlInv, QueueShape, OutcomeShape, Popped,
     Job, JobAssumption
<1>6. cur = Popped
  BY <1>1, <1>5, JobAssumption DEF DiskInv, SoloInv, SoloShape, Job, JobAssumption
<1>7. main[f] <= cur
  BY <1>1, <1>4, <1>5, <1>6, JobAssumption DEF Version, Absent, Job, JobAssumption
<1> QED
  BY <1>1, <1>3, <1>7

LEMMA DiskInit == MaxWorkers = 1 /\ Init => DiskInv
<1> SUFFICES ASSUME MaxWorkers = 1, Init PROVE DiskInv
  OBVIOUS
<1>1. SoloInv
  BY SoloInit
<1>2. FailedJobsLeaveMainAlone
  BY DEF Init, FailedJobsLeaveMainAlone, Absent
<1> QED
  BY <1>1, <1>2 DEF DiskInv, DiskShape, Init

LEMMA DiskStep == MaxWorkers = 1 /\ DiskInv /\ [Next]_vars => DiskInv'
<1> SUFFICES ASSUME MaxWorkers = 1, DiskInv, [Next]_vars PROVE DiskInv'
  OBVIOUS
<1>0. /\ SoloInv /\ SoloInv' /\ ControlInv /\ TypeOK /\ TypeOK' /\ OutcomeShape
      /\ ActiveShape /\ ProcShape /\ SoloShape /\ DiskShape
  BY SoloStep DEF DiskInv, SoloInv, ControlInv
<1>a. pc \in {"setup", "spawn"} =>
        active = {} /\ cur \in Job /\ outcome[cur] = "waiting"
  BY <1>0 DEF SoloShape, OutcomeShape, TypeOK
<1>b. \A i \in Job : proc[i] = "running" => i \in active /\ i = cur
  BY <1>0 DEF ProcShape, ActiveShape, SoloShape
<1>1. CASE NextExit
  BY <1>0, <1>1, DiskFrame DEF NextExit, disk
<1>2. CASE NextWait
  BY <1>0, <1>2, DiskFrame DEF NextWait, disk
<1>3. CASE NextPop
  BY <1>0, <1>3, DiskFrame DEF NextPop, disk
<1>4. CASE SetupStarved
  <2>1. \A i \in Job : outcome[i] = "ok" => outcome'[i] = "ok"
    BY <1>0, <1>a, <1>4 DEF SetupStarved, TypeOK
  <2> QED
    BY <1>0, <1>4, <2>1, DiskFrame DEF SetupStarved, disk
<1>5. CASE SetupDone
  <2>1. active' = {} /\ pc' = "spawn" /\ UNCHANGED <<main, exemplars, spec, outcome, cur>>
    BY <1>a, <1>5 DEF SetupDone
  <2>2. ws'[spec[cur]] = Snapshot
    BY <1>0, <1>a, <1>5 DEF SetupDone, TypeOK
  <2>3. FailedJobsLeaveMainAlone'
    BY <1>0, <2>1 DEF DiskShape, FailedJobsLeaveMainAlone
  <2> QED
    BY <1>0, <2>1, <2>2, <2>3 DEF DiskInv, DiskShape, Snapshot
<1>6. CASE SetupError
  <2>1. \A i \in Job : outcome[i] = "ok" => outcome'[i] = "ok"
    BY <1>0, <1>a, <1>6 DEF SetupError, TypeOK
  <2>2. active' = {} /\ pc' \notin {"spawn", "merge"} /\ main' = main
    BY <1>a, <1>6 DEF SetupError
  <2> QED
    BY <1>0, <2>1, <2>2, DiskIdle
<1>7. CASE SpawnDone
  <2>1. /\ active' = {cur} /\ pc' = "next" /\ ws[spec[cur]] = Snapshot
        /\ UNCHANGED <<main, exemplars, spec, ws, cur>>
    BY <1>0, <1>a, <1>7 DEF SpawnDone, DiskShape, disk
  <2>2. \A i \in Job : outcome[i] = "ok" => outcome'[i] = "ok"
    BY <1>0, <1>a, <1>7 DEF SpawnDone, TypeOK
  <2>3. FailedJobsLeaveMainAlone'
    BY <1>0, <2>1, <2>2 DEF DiskShape, FailedJobsLeaveMainAlone, TypeOK, Version,
       Absent, Job
  <2>4. Snapshot # None
    BY <1>0, JobAssumption DEF JobAssumption, Snapshot, Workspace, TypeOK
  <2>5. CopyOfMain(cur)'
    BY <2>1, <2>4 DEF CopyOfMain, Snapshot
  <2>6. \A i \in active' : CopyOfMain(i)'
    BY <2>1, <2>5 DEF CopyOfMain
  <2> QED
    BY <1>0, <2>1, <2>3, <2>6 DEF DiskInv, DiskShape
<1>8. CASE SpawnError
  <2>1. \A i \in Job : outcome[i] = "ok" => outcome'[i] = "ok"
    BY <1>0, <1>a, <1>8 DEF SpawnError, TypeOK
  <2> QED
    BY <1>0, <1>a, <1>8, <2>1, DiskIdle DEF SpawnError
<1>9. ASSUME NEW i \in Job, HandleSuccess(i) PROVE DiskInv'
  <2>1. /\ active' = {} /\ pc' = "merge" /\ cur' = i /\ i \in active
        /\ UNCHANGED <<main, exemplars, spec, ws>>
    BY <1>0, <1>9 DEF HandleSuccess, PipeClosed, SoloShape, disk
  <2>2. \A j \in Job : outcome[j] = "ok" => outcome'[j] = "ok"
    BY <1>0, <1>9 DEF HandleSuccess, TypeOK
  <2>3. FailedJobsLeaveMainAlone'
    BY <1>0, <2>1, <2>2 DEF DiskShape, FailedJobsLeaveMainAlone, TypeOK, Version,
       Absent, Job
  <2>4. CopyOfMain(cur)'
    BY <1>0, <2>1 DEF DiskShape, CopyOfMain
  <2> QED
    BY <1>0, <2>1, <2>3, <2>4 DEF DiskInv, DiskShape
<1>10. ASSUME NEW i \in Job, HandleFailure(i) PROVE DiskInv'
  <2>1. active' = {} /\ pc' = "next" /\ main' = main
    BY <1>0, <1>10 DEF HandleFailure, PipeClosed, SoloShape
  <2>2. outcome[i] = "running"
    BY <1>0, <1>10 DEF HandleFailure, PipeClosed, ActiveShape
  <2>3. \A j \in Job : outcome[j] = "ok" => outcome'[j] = "ok"
    BY <1>0, <1>10, <2>2 DEF HandleFailure, TypeOK
  <2> QED
    BY <1>0, <2>1, <2>3, DiskIdle
<1>11. CASE MergeWorkspace
  <2>1. active' = {} /\ pc' = "clean" /\ UNCHANGED <<outcome, cur>>
    BY <1>0, <1>11 DEF MergeWorkspace, SoloShape
  <2>2. \A f \in File : main'[f] \in {main[f], cur} /\ outcome[cur] = "ok"
    BY <1>11, MergeBringsOwnVersion
  <2>3. FailedJobsLeaveMainAlone'
    BY <1>0, <2>1, <2>2 DEF DiskShape, FailedJobsLeaveMainAlone
  <2> QED
    BY <1>0, <2>1, <2>3 DEF DiskInv, DiskShape
<1>12. CASE CleanAfterSuccess
  BY <1>0, <1>12, DiskIdle DEF CleanAfterSuccess, SoloShape
<1>13. CASE UpdateMainLedger
  BY <1>0, <1>13, DiskIdle DEF UpdateMainLedger, SoloShape
<1>14. CASE AccreteExemplars
  BY <1>0, <1>14, DiskIdle DEF AccreteExemplars, SoloShape
<1>15. CASE VwaitFails
  BY <1>0, <1>15, DiskFrame DEF VwaitFails, disk
<1>16. ASSUME NEW i \in Job, PipelineWrites(i) PROVE DiskInv'
  <2>1. /\ i \in active /\ i = cur
        /\ UNCHANGED <<pc, cur, active, spec, main, exemplars, outcome>>
    BY <1>b, <1>16 DEF PipelineWrites, supervisor
  <2>2. pc \notin {"spawn", "merge"}
    BY <1>0, <2>1 DEF SoloShape
  <2>3. PICK f \in {spec[i]} \cup Shared : ws' = [ws EXCEPT ![spec[i]].gen[f] = i]
    BY <1>16 DEF PipelineWrites
  <2>4. CopyOfMain(i) /\ ws[spec[i]] \in Workspace /\ spec[i] \in Class
    BY <1>0, <2>1 DEF DiskShape, CopyOfMain, TypeOK
  <2>5. /\ ws'[spec[i]] \in Workspace
        /\ \A g \in File : ws'[spec[i]].gen[g] \in {ws[spec[i]].gen[g], i}
    <3>1. ws'[spec[i]] = [ws[spec[i]] EXCEPT !.gen[f] = i]
      BY <1>0, <2>3, <2>4 DEF TypeOK
    <3>2. f \in File /\ i \in Version
      BY <2>4 DEF File, Version, Absent, Job
    <3> QED
      BY <2>4, <3>1, <3>2 DEF Workspace
  <2>6. CopyOfMain(i)'
    BY <2>1, <2>4, <2>5, JobAssumption DEF CopyOfMain, JobAssumption
  <2>7. \A j \in active' : CopyOfMain(j)'
    BY <1>0, <2>1, <2>6 DEF SoloShape, CopyOfMain
  <2>8. FailedJobsLeaveMainAlone'
    BY <1>0, <2>1 DEF DiskShape, FailedJobsLeaveMainAlone
  <2> QED
    BY <1>0, <2>1, <2>2, <2>7, <2>8 DEF DiskInv, DiskShape
<1>17. ASSUME NEW i \in Job, PipelineSucceeds(i) \/ PipelineFails(i) \/ PipelineHangs(i) PROVE DiskInv'
  BY <1>0, <1>17, DiskFrame DEF PipelineSucceeds, PipelineFails, PipelineHangs, supervisor, disk
<1>18. CASE UNCHANGED vars
  BY <1>0, <1>18, DiskFrame DEF vars, supervisor, disk
<1> QED
  BY <1>1, <1>2, <1>3, <1>4, <1>5, <1>6, <1>7, <1>8, <1>9, <1>10, <1>11, <1>12,
     <1>13, <1>14, <1>15, <1>16, <1>17, <1>18
     DEF Next, StartNextJob, HandleOutput, Pipeline

\* With one worker a job that fails leaves no trace in the main workspace,
\* even when merges copy part of a workspace and deletions fail.
THEOREM FailedJobsAreIsolated ==
  ASSUME MaxWorkers = 1 PROVE Spec => []FailedJobsLeaveMainAlone
<1>1. DiskInv => FailedJobsLeaveMainAlone
  BY DEF DiskInv, DiskShape
<1>2. Init => DiskInv
  BY DiskInit
<1>3. DiskInv /\ [Next]_vars => DiskInv'
  BY DiskStep
<1> QED
  BY <1>1, <1>2, <1>3, PTL DEF Spec

\* With one worker no merge takes the main workspace back to an older source.
THEOREM MergesGoForward == ASSUME MaxWorkers = 1 PROVE Spec => NoStaleMerge
<1>1. DiskInv /\ [Next]_vars => [\A f \in File : main'[f] >= main[f]]_vars
  <2> SUFFICES ASSUME DiskInv, Next, NEW f \in File PROVE main'[f] >= main[f]
    OBVIOUS
  <2>1. main[f] \in Int /\ cur \in Int
    BY DEF DiskInv, SoloInv, ControlInv, TypeOK, Version, Absent, Job
  <2>2. CASE MergeWorkspace
    BY <2>1, <2>2, MergeBringsOwnVersion
  <2>3. CASE ~MergeWorkspace
    <3>1. main' = main
      BY <2>3 DEF Next, StartNextJob, HandleOutput, Pipeline, NextExit, NextWait,
         NextPop, SetupStarved, SetupDone, SetupError, SpawnDone, SpawnError,
         HandleSuccess, HandleFailure, CleanAfterSuccess, UpdateMainLedger,
         AccreteExemplars, VwaitFails, PipelineWrites, PipelineSucceeds,
         PipelineFails, PipelineHangs, disk
    <3> QED
      BY <2>1, <3>1
  <2> QED
    BY <2>2, <2>3
<1>2. Init => DiskInv
  BY DiskInit
<1>3. DiskInv /\ [Next]_vars => DiskInv'
  BY DiskStep
<1> QED
  BY <1>1, <1>2, <1>3, PTL DEF Spec, NoStaleMerge

-----------------------------------------------------------------------------
\* What becomes an exemplar, when merges do not fail silently.

\* Steps that keep the exemplars, what was verified and the sources.
LEMMA LearnFrame ==
  ASSUME LearnInv, DiskInv', UNCHANGED <<exemplars, verified, main, ws, spec>>,
         active' \subseteq active,
         \A i \in active : proc'[i] = "exit0" => proc[i] = "exit0",
         pc' = "merge" => pc = "merge" /\ cur' = cur,
         pc' \in {"clean", "index", "accrete"} =>
           pc \in {"clean", "index", "accrete"} /\ cur' = cur
  PROVE  LearnInv'
<1>1. ExemplarsAreVerified'
  BY DEF LearnInv, LearnShape, ExemplarsAreVerified
<1>2. \A i \in active' : proc'[i] = "exit0" => ResultVerified(i)'
  BY DEF LearnInv, LearnShape, ResultVerified
<1>3. pc' = "merge" => ResultVerified(cur)'
  BY DEF LearnInv, LearnShape, ResultVerified
<1>4. pc' \in {"clean", "index", "accrete"} =>
        <<spec'[cur'], main'[spec'[cur']]>> \in verified'
  BY DEF LearnInv, LearnShape
<1> QED
  BY <1>1, <1>2, <1>3, <1>4 DEF LearnInv, LearnShape

\* Steps that only rewrite workspaces while no pipeline is open.
LEMMA LearnIdle ==
  ASSUME LearnInv, DiskInv', UNCHANGED <<exemplars, verified>>, active' = {},
         pc' \notin {"merge", "clean", "index", "accrete"}
  PROVE  LearnInv'
<1>1. ExemplarsAreVerified'
  BY DEF LearnInv, LearnShape, ExemplarsAreVerified
<1> QED
  BY <1>1 DEF LearnInv, LearnShape

LEMMA LearnInit == MaxWorkers = 1 /\ Init => LearnInv
<1> SUFFICES ASSUME MaxWorkers = 1, Init PROVE LearnInv
  OBVIOUS
<1> QED
  BY DiskInit DEF LearnInv, LearnShape, ExemplarsAreVerified, Init

LEMMA LearnStep ==
  MaxWorkers = 1 /\ "merge" \notin Faults /\ LearnInv /\ [Next]_vars => LearnInv'
<1> SUFFICES ASSUME MaxWorkers = 1, "merge" \notin Faults, LearnInv, [Next]_vars
             PROVE  LearnInv'
  OBVIOUS
<1>0. /\ DiskInv /\ DiskInv' /\ TypeOK /\ TypeOK' /\ ActiveShape /\ ProcShape
      /\ OutcomeShape /\ SoloShape /\ DiskShape /\ LearnShape
  BY DiskStep DEF LearnInv, DiskInv, SoloInv, ControlInv
<1>a. pc \in {"setup", "spawn", "merge", "clean", "index", "accrete"} => active = {}
  BY <1>0 DEF SoloShape
<1>b. \A i \in Job : proc[i] = "running" => i \in active /\ active = {cur} /\ i = cur
  BY <1>0 DEF ProcShape, ActiveShape, SoloShape
<1>1. CASE NextExit
  BY <1>0, <1>1, LearnFrame DEF NextExit, disk
<1>2. CASE NextWait
  BY <1>0, <1>2, LearnFrame DEF NextWait, disk
<1>3. CASE NextPop
  BY <1>0, <1>3, LearnFrame DEF NextPop, disk
<1>4. CASE SetupStarved
  BY <1>0, <1>a, <1>4, LearnIdle DEF SetupStarved, disk
<1>5. CASE SetupDone
  BY <1>0, <1>a, <1>5, LearnIdle DEF SetupDone
<1>6. CASE SetupError
  <2>1. pc' \in {"loop", "aborted"}
    BY <1>6 DEF SetupError
  <2> QED
    BY <1>0, <1>a, <1>6, <2>1, LearnIdle DEF SetupError
<1>7. CASE SpawnDone
  <2>1. /\ active' = {cur} /\ pc' = "next" /\ proc'[cur] = "running"
        /\ UNCHANGED <<exemplars, verified>>
    BY <1>0, <1>a, <1>7 DEF SpawnDone, disk, TypeOK
  <2>2. ExemplarsAreVerified'
    BY <1>0, <2>1 DEF LearnShape, ExemplarsAreVerified
  <2> QED
    BY <1>0, <2>1, <2>2 DEF LearnInv, LearnShape
<1>8. CASE SpawnError
  BY <1>0, <1>a, <1>8, LearnIdle DEF SpawnError
<1>9. ASSUME NEW i \in Job, HandleSuccess(i) PROVE LearnInv'
  <2>1. /\ active' = {} /\ pc' = "merge" /\ cur' = i /\ i \in active /\ proc[i] = "exit0"
        /\ UNCHANGED <<exemplars, verified, main, ws, spec>>
    BY <1>0, <1>9 DEF HandleSuccess, PipeClosed, SoloShape, disk
  <2>2. ResultVerified(cur)'
    BY <1>0, <2>1 DEF LearnShape, ResultVerified
  <2>3. ExemplarsAreVerified'
    BY <1>0, <2>1 DEF LearnShape, ExemplarsAreVerified
  <2> QED
    BY <1>0, <2>1, <2>2, <2>3 DEF LearnInv, LearnShape
<1>10. ASSUME NEW i \in Job, HandleFailure(i) PROVE LearnInv'
  <2>1. active' = {} /\ pc' = "next" /\ UNCHANGED <<exemplars, verified>>
    BY <1>0, <1>10 DEF HandleFailure, PipeClosed, SoloShape
  <2> QED
    BY <1>0, <2>1, LearnIdle
<1>11. CASE MergeWorkspace
  <2>1. /\ active' = {} /\ pc' = "clean" /\ main' = Copied(File)
        /\ UNCHANGED <<exemplars, verified, spec, cur>>
    BY <1>a, <1>11 DEF MergeWorkspace
  <2>2. ResultVerified(cur) /\ ws[spec[cur]] # None /\ spec[cur] \in File
    BY <1>0, <1>11 DEF LearnShape, MergeWorkspace, DiskShape, CopyOfMain, TypeOK, File
  <2>3. main'[spec[cur]] = ws[spec[cur]].gen[spec[cur]]
    BY <2>1, <2>2 DEF Copied, Produced, ResultVerified
  <2>4. <<spec'[cur'], main'[spec'[cur']]>> \in verified'
    BY <2>1, <2>2, <2>3 DEF ResultVerified
  <2>5. ExemplarsAreVerified'
    BY <1>0, <2>1 DEF LearnShape, ExemplarsAreVerified
  <2> QED
    BY <1>0, <2>1, <2>4, <2>5 DEF LearnInv, LearnShape
<1>12. CASE CleanAfterSuccess
  <2>1. /\ active' = {} /\ pc' = "index" /\ pc = "clean"
        /\ UNCHANGED <<exemplars, verified, main, spec, cur>>
    BY <1>a, <1>12 DEF CleanAfterSuccess
  <2>2. ExemplarsAreVerified'
    BY <1>0, <2>1 DEF LearnShape, ExemplarsAreVerified
  <2> QED
    BY <1>0, <2>1, <2>2 DEF LearnInv, LearnShape
<1>13. CASE UpdateMainLedger
  BY <1>0, <1>13, LearnFrame DEF UpdateMainLedger
<1>14. CASE AccreteExemplars
  <2>1. /\ active' = {} /\ pc' = "next" /\ pc = "accrete"
        /\ UNCHANGED <<verified, main, spec, cur>>
    BY <1>a, <1>14 DEF AccreteExemplars
  <2>2. <<spec[cur], main[spec[cur]]>> \in verified
    BY <1>0, <2>1 DEF LearnShape
  <2>3. \A c \in Class : exemplars'[c] = exemplars[c]
                        \/ (c = spec[cur] /\ exemplars'[c] = main[c])
    BY <1>0, <1>14 DEF AccreteExemplars, TypeOK
  <2>4. ExemplarsAreVerified'
    BY <1>0, <2>1, <2>2, <2>3 DEF LearnShape, ExemplarsAreVerified
  <2> QED
    BY <1>0, <2>1, <2>4 DEF LearnInv, LearnShape
<1>15. CASE VwaitFails
  BY <1>0, <1>15, LearnFrame DEF VwaitFails, disk
<1>16. ASSUME NEW i \in Job, PipelineWrites(i) PROVE LearnInv'
  <2>1. /\ i \in active /\ active = {cur} /\ i = cur /\ proc[i] = "running"
        /\ UNCHANGED <<pc, cur, active, proc, spec, exemplars, verified>>
    BY <1>b, <1>16 DEF PipelineWrites, supervisor
  <2>2. pc \notin {"merge", "clean", "index", "accrete"}
    BY <1>a, <2>1
  <2>3. ExemplarsAreVerified'
    BY <1>0, <2>1 DEF LearnShape, ExemplarsAreVerified
  <2> QED
    BY <1>0, <2>1, <2>2, <2>3 DEF LearnInv, LearnShape
<1>17. ASSUME NEW i \in Job, PipelineSucceeds(i) PROVE LearnInv'
  <2>1. /\ i \in active /\ active = {cur} /\ i = cur
        /\ UNCHANGED <<pc, cur, active, spec, ws, main, exemplars>>
        /\ ws[spec[i]].gen[spec[i]] # Absent
        /\ verified' = verified \cup {<<spec[i], ws[spec[i]].gen[spec[i]]>>}
    BY <1>b, <1>17 DEF PipelineSucceeds, supervisor, disk
  <2>2. pc \notin {"merge", "clean", "index", "accrete"}
    BY <1>a, <2>1
  <2>3. ExemplarsAreVerified'
    BY <1>0, <2>1 DEF LearnShape, ExemplarsAreVerified
  <2>4. ResultVerified(i)'
    BY <2>1 DEF ResultVerified
  <2>5. \A j \in active' : ResultVerified(j)'
    BY <2>1, <2>4 DEF ResultVerified
  <2> QED
    BY <1>0, <2>1, <2>2, <2>3, <2>5 DEF LearnInv, LearnShape
<1>18. ASSUME NEW i \in Job, PipelineFails(i) \/ PipelineHangs(i) PROVE LearnInv'
  <2>1. \A j \in active : proc'[j] = "exit0" => proc[j] = "exit0"
    BY <1>0, <1>18 DEF PipelineFails, PipelineHangs, TypeOK
  <2> QED
    BY <1>0, <1>18, <2>1, LearnFrame DEF PipelineFails, PipelineHangs, supervisor, disk
<1>19. CASE UNCHANGED vars
  BY <1>0, <1>19, LearnFrame DEF vars, supervisor, disk
<1> QED
  BY <1>1, <1>2, <1>3, <1>4, <1>5, <1>6, <1>7, <1>8, <1>9, <1>10, <1>11, <1>12,
     <1>13, <1>14, <1>15, <1>16, <1>17, <1>18, <1>19
     DEF Next, StartNextJob, HandleOutput, Pipeline

\* With one worker and merges that do not fail, only verified sources become
\* exemplars.  The second hypothesis, which the code does not establish, cannot
\* be dropped: a copy that fails leaves an older source to be accreted.
THEOREM ExemplarsCorrect ==
  ASSUME MaxWorkers = 1, "merge" \notin Faults PROVE Spec => []ExemplarsAreVerified
<1>1. LearnInv => ExemplarsAreVerified
  BY DEF LearnInv, LearnShape
<1>2. Init => LearnInv
  BY LearnInit
<1>3. LearnInv /\ [Next]_vars => LearnInv'
  BY LearnStep
<1> QED
  BY <1>1, <1>2, <1>3, PTL DEF Spec

-----------------------------------------------------------------------------
\* What later jobs learn, when merge, re-index and accretion do not fail.

\* Steps that leave the disk alone.
LEMMA TaughtFrame ==
  ASSUME TaughtInv, LearnInv', UNCHANGED <<main, ws, exemplars, indexed, spec>>,
         active' \subseteq active,
         Settling \/ Settling' => pc' = pc /\ cur' = cur,
         \A j \in Job : outcome'[j] = "ok" => outcome[j] = "ok"
  PROVE  TaughtInv'
<1>1. \A i : Faithful(i) => Faithful(i)'
  BY DEF Faithful
<1>2. Settling' => Settling /\ cur' = cur /\ pc' = pc
  BY DEF Settling
<1>3. Settling => Settling'
  BY DEF Settling
<1>4. \A j \in Job : outcome'[j] = "ok" /\ (Settling' => spec'[j] # spec'[cur']) =>
                     exemplars'[spec'[j]] = main'[spec'[j]]
  BY <1>2, <1>3 DEF TaughtInv, TaughtShape
<1>5. pc' = "merge" => Faithful(cur)'
  BY <1>2 DEF TaughtInv, TaughtShape, Settling, Faithful
<1> QED
  BY <1>1, <1>2, <1>4, <1>5 DEF TaughtInv, TaughtShape, Settling

\* Steps that rewrite workspaces while no pipeline is open or being settled.
LEMMA TaughtIdle ==
  ASSUME TaughtInv, LearnInv', UNCHANGED <<main, exemplars, spec>>,
         active' = {}, ~Settling, ~Settling',
         \A j \in Job : outcome'[j] = "ok" => outcome[j] = "ok"
  PROVE  TaughtInv'
BY DEF TaughtInv, TaughtShape, Settling

LEMMA TaughtInit == MaxWorkers = 1 /\ Init => TaughtInv
BY LearnInit DEF TaughtInv, TaughtShape, Settling, Init

LEMMA TaughtStep ==
  ASSUME MaxWorkers = 1, Faults \cap {"merge", "index", "accrete"} = {}, TaughtInv, [Next]_vars
  PROVE  TaughtInv'
<1>0. /\ LearnInv /\ LearnInv' /\ TypeOK /\ TypeOK' /\ ActiveShape /\ ProcShape
      /\ OutcomeShape /\ SoloShape /\ DiskShape /\ LearnShape /\ TaughtShape
  BY LearnStep DEF TaughtInv, LearnInv, DiskInv, SoloInv, ControlInv
<1>a. Settling \/ pc \in {"setup", "spawn"} => active = {}
  BY <1>0 DEF SoloShape, Settling
<1>b. \A i \in Job : proc[i] = "running" => i \in active /\ active = {cur} /\ i = cur
  BY <1>0 DEF ProcShape, ActiveShape, SoloShape
<1> USE DEF Settling
<1>1. CASE NextExit \/ NextWait \/ NextPop
  BY <1>0, <1>1, TaughtFrame DEF NextExit, NextWait, NextPop, disk
<1>2. CASE SetupStarved
  <2>1. \A j \in Job : outcome'[j] = "ok" => outcome[j] = "ok"
    BY <1>0, <1>2 DEF SetupStarved, TypeOK
  <2> QED
    BY <1>0, <1>2, <2>1, TaughtFrame DEF SetupStarved, disk
<1>3. CASE SetupDone
  BY <1>0, <1>a, <1>3, TaughtIdle DEF SetupDone
<1>4. CASE SetupError
  <2>1. \A j \in Job : outcome'[j] = "ok" => outcome[j] = "ok"
    BY <1>0, <1>4 DEF SetupError, TypeOK
  <2>2. pc' \in {"loop", "aborted"} /\ pc = "setup"
    BY <1>4 DEF SetupError
  <2> QED
    BY <1>0, <1>a, <1>4, <2>1, <2>2, TaughtIdle DEF SetupError
<1>5. CASE SpawnDone
  <2>1. /\ active' = {cur} /\ pc = "spawn" /\ pc' = "next" /\ ws[spec[cur]] = Snapshot
        /\ UNCHANGED <<main, exemplars, indexed, spec, ws, cur>>
    BY <1>0, <1>a, <1>5 DEF SpawnDone, DiskShape, disk
  <2>2. \A j \in Job : outcome'[j] = "ok" => outcome[j] = "ok"
    BY <1>0, <1>5 DEF SpawnDone, TypeOK
  <2>3. Faithful(cur)'
    BY <1>0, <2>1 DEF Faithful, Snapshot, TypeOK, File
  <2>4. \A i \in active' : Faithful(i)'
    BY <2>1, <2>3 DEF Faithful
  <2> QED
    BY <1>0, <2>1, <2>2, <2>4 DEF TaughtInv, TaughtShape
<1>6. CASE SpawnError
  <2>1. \A j \in Job : outcome'[j] = "ok" => outcome[j] = "ok"
    BY <1>0, <1>6 DEF SpawnError, TypeOK
  <2> QED
    BY <1>0, <1>a, <1>6, <2>1, TaughtIdle DEF SpawnError
<1>7. ASSUME NEW i \in Job, HandleSuccess(i) PROVE TaughtInv'
  <2>1. /\ active' = {} /\ pc = "loop" /\ pc' = "merge" /\ cur' = i /\ i \in active
        /\ UNCHANGED <<exemplars, main, ws, spec>>
    BY <1>0, <1>7 DEF HandleSuccess, PipeClosed, SoloShape, disk
  <2>2. \A j \in Job : j # i /\ outcome'[j] = "ok" => outcome[j] = "ok"
    BY <1>0, <1>7 DEF HandleSuccess, TypeOK
  <2>3. Faithful(cur)'
    BY <1>0, <2>1 DEF TaughtShape, Faithful
  <2> QED
    BY <1>0, <2>1, <2>2, <2>3 DEF TaughtInv, TaughtShape
<1>8. ASSUME NEW i \in Job, HandleFailure(i) PROVE TaughtInv'
  <2>1. /\ active' = {} /\ pc = "loop" /\ pc' = "next" /\ UNCHANGED <<exemplars, main, spec>>
    BY <1>0, <1>8 DEF HandleFailure, PipeClosed, SoloShape
  <2>2. \A j \in Job : outcome'[j] = "ok" => outcome[j] = "ok"
    BY <1>0, <1>8 DEF HandleFailure, TypeOK
  <2> QED
    BY <1>0, <2>1, <2>2, TaughtIdle
<1>9. CASE MergeWorkspace
  <2>1. /\ active' = {} /\ pc = "merge" /\ pc' = "clean" /\ main' = Copied(File)
        /\ UNCHANGED <<exemplars, spec, cur, outcome>>
    BY <1>a, <1>9 DEF MergeWorkspace
  <2>2. /\ ResultVerified(cur) /\ Faithful(cur) /\ ws[spec[cur]] # None
        /\ spec[cur] \in Class /\ Class \subseteq File
    BY <1>0, <2>1 DEF LearnShape, TaughtShape, DiskShape, CopyOfMain, TypeOK, File
  <2>3. main'[spec[cur]] # Absent
    BY <2>1, <2>2 DEF Copied, Produced, ResultVerified
  <2>4. \A c \in Class : c # spec[cur] => main'[c] = main[c]
    BY <2>1, <2>2 DEF Copied, Faithful
  <2>5. \A j \in Job : outcome'[j] = "ok" /\ spec'[j] # spec'[cur'] =>
                       exemplars'[spec'[j]] = main'[spec'[j]]
    BY <1>0, <2>1, <2>4 DEF TaughtShape, TypeOK
  <2> QED
    BY <1>0, <2>1, <2>3, <2>5 DEF TaughtInv, TaughtShape
<1>10. CASE CleanAfterSuccess
  <2>1. /\ active' = {} /\ pc = "clean" /\ pc' = "index"
        /\ UNCHANGED <<exemplars, main, spec, cur, outcome>>
    BY <1>a, <1>10 DEF CleanAfterSuccess
  <2> QED
    BY <1>0, <2>1 DEF TaughtInv, TaughtShape
<1>11. CASE UpdateMainLedger
  <2>1. /\ active' = {} /\ pc = "index" /\ pc' = "accrete" /\ indexed' = Extracted
        /\ UNCHANGED <<exemplars, main, spec, cur, outcome>>
    BY <1>a, <1>11 DEF UpdateMainLedger
  <2>2. spec[cur] \in indexed'
    BY <1>0, <2>1 DEF TaughtShape, Extracted, TypeOK
  <2> QED
    BY <1>0, <2>1, <2>2 DEF TaughtInv, TaughtShape
<1>12. CASE AccreteExemplars
  <2>1. /\ active' = {} /\ pc = "accrete" /\ pc' = "next"
        /\ UNCHANGED <<main, spec, cur, outcome>>
    BY <1>a, <1>12 DEF AccreteExemplars
  <2>2. main[spec[cur]] # Absent /\ spec[cur] \in indexed
    BY <1>0, <2>1 DEF TaughtShape
  <2>3. exemplars' = [exemplars EXCEPT ![spec[cur]] = main[spec[cur]]]
    BY <1>12, <2>2 DEF AccreteExemplars
  <2>4. \A j \in Job : outcome[j] = "ok" => exemplars'[spec[j]] = main[spec[j]]
    BY <1>0, <2>1, <2>3 DEF TaughtShape, TypeOK
  <2> QED
    BY <1>0, <2>1, <2>4 DEF TaughtInv, TaughtShape
<1>13. CASE VwaitFails
  BY <1>0, <1>13, TaughtFrame DEF VwaitFails, disk
<1>14. ASSUME NEW i \in Job, PipelineWrites(i) PROVE TaughtInv'
  <2>1. /\ i \in active /\ active = {cur} /\ i = cur
        /\ UNCHANGED <<pc, cur, active, spec, main, exemplars, indexed, outcome>>
    BY <1>b, <1>14 DEF PipelineWrites, supervisor
  <2>2. ~Settling
    BY <1>a, <2>1
  <2>3. PICK f \in {spec[i]} \cup Shared : ws' = [ws EXCEPT ![spec[i]].gen[f] = i]
    BY <1>14 DEF PipelineWrites
  <2>4. CopyOfMain(i) /\ ws[spec[i]] \in Workspace /\ spec[i] \in Class /\ Faithful(i)
    BY <1>0, <2>1 DEF DiskShape, CopyOfMain, TypeOK, TaughtShape
  <2>5. ws'[spec[i]] = [ws[spec[i]] EXCEPT !.gen[f] = i]
    BY <1>0, <2>3, <2>4 DEF TypeOK
  <2>6. /\ ws'[spec[i]].exemplars = ws[spec[i]].exemplars
        /\ \A c \in Class : c # spec[i] => ws'[spec[i]].gen[c] = ws[spec[i]].gen[c]
    BY <2>4, <2>5, JobAssumption DEF Workspace, File, JobAssumption
  <2>7. \A j \in active' : Faithful(j)'
    BY <2>1, <2>4, <2>6 DEF Faithful
  <2> QED
    BY <1>0, <2>1, <2>2, <2>7 DEF TaughtInv, TaughtShape
<1>15. ASSUME NEW i \in Job, PipelineSucceeds(i) \/ PipelineFails(i) \/ PipelineHangs(i) PROVE TaughtInv'
  BY <1>0, <1>15, TaughtFrame DEF PipelineSucceeds, PipelineFails, PipelineHangs, supervisor, disk
<1>16. CASE UNCHANGED vars
  BY <1>0, <1>16, TaughtFrame DEF vars, supervisor, disk
<1> QED
  BY <1>1, <1>2, <1>3, <1>4, <1>5, <1>6, <1>7, <1>8, <1>9, <1>10, <1>11, <1>12,
     <1>13, <1>14, <1>15, <1>16 DEF Next, StartNextJob, HandleOutput, Pipeline

\* With one worker, and as long as merge, re-index and accretion do not fail,
\* every job starts from what its predecessors taught, in whatever order
\* classes recur and however the workspaces come and go.
THEOREM JobsLearn ==
  ASSUME MaxWorkers = 1, Faults \cap {"merge", "index", "accrete"} = {}
  PROVE  Spec => []LaterJobsLearn
<1>1. TaughtInv => LaterJobsLearn
  <2> SUFFICES ASSUME TaughtInv, NEW i \in active, NEW j \in Job, outcome[j] = "ok"
               PROVE  ws[spec[i]].exemplars[spec[j]] = main[spec[j]]
    BY DEF LaterJobsLearn
  <2>1. TypeOK /\ SoloShape /\ TaughtShape
    BY DEF TaughtInv, LearnInv, DiskInv, SoloInv, ControlInv
  <2>2. ~Settling
    BY <2>1 DEF SoloShape, Settling
  <2>3. spec[j] \in Class /\ Faithful(i)
    BY <2>1 DEF TypeOK, TaughtShape
  <2> QED
    BY <2>1, <2>2, <2>3 DEF TaughtShape, Faithful
<1>2. Init => TaughtInv
  BY TaughtInit
<1>3. TaughtInv /\ [Next]_vars => TaughtInv'
  BY TaughtStep
<1> QED
  BY <1>1, <1>2, <1>3, PTL DEF Spec

-----------------------------------------------------------------------------
\* The supervisor implements the job board.

\* Steps the board does not see.
LEMMA BoardStutter ==
  ASSUME UNCHANGED outcome, pc \notin {"exited", "aborted"}, pc' \notin {"exited", "aborted"}
  PROVE  UNCHANGED Board!vars
BY DEF Board!vars, ProcessCode

\* The job being started is the next in line.
LEMMA CurInLine ==
  ASSUME ControlInv, pc \in {"setup", "spawn"}
  PROVE  cur \in Board!Job /\ Board!InLine(cur) /\ ProcessCode = Board!Open
<1>1. cur \in Job /\ cur = Popped /\ outcome[cur] = "waiting"
  BY DEF ControlInv, OutcomeShape, TypeOK
<1>2. \A j \in Job : j < cur => outcome[j] # "waiting"
  BY <1>1 DEF ControlInv, OutcomeShape, Job
<1> QED
  BY <1>1, <1>2 DEF Board!InLine, Board!Job, Job, ProcessCode, Board!Open

LEMMA BoardStep == SoloInv /\ [Next]_vars => [Board!Next]_(Board!vars)
<1> SUFFICES ASSUME SoloInv, [Next]_vars PROVE Board!Next \/ UNCHANGED Board!vars
  OBVIOUS
<1>0. ControlInv /\ TypeOK /\ QueueShape /\ OutcomeShape /\ ActiveShape /\ CodeShape
  BY DEF SoloInv, ControlInv
<1> USE DEF Board!Job, Job, Board!Open
<1>1. CASE NextExit
  <2>1. queue = <<>> /\ active = {}
    <3>1. queue = <<>> /\ activeCount = 0
      BY <1>1 DEF NextExit
    <3> QED
      BY <1>0, <3>1, ActiveFinite, FS_EmptySet DEF ActiveShape
  <2>2. \A i \in Job : outcome[i] \notin {"waiting", "running", "dropped"}
    BY <1>0, <1>1, <2>1, JobAssumption DEF NextExit, Popped, OutcomeShape,
       ActiveShape, CodeShape, JobAssumption
  <2>3. \A i \in Job : outcome[i] \in {"ok", "failed"}
    BY <1>0, <2>2 DEF TypeOK, Outcome
  <2>4. exitCode = IF \E i \in Job : outcome[i] = "failed" THEN 1 ELSE 0
    BY <1>0, <1>1 DEF NextExit, CodeShape, TypeOK
  <2>5. ProcessCode = -1 /\ ProcessCode' = exitCode /\ outcome' = outcome
    BY <1>1 DEF NextExit, ProcessCode
  <2>6. Board!Close
    BY <2>3, <2>4, <2>5 DEF Board!Close
  <2> QED
    BY <2>6 DEF Board!Next
<1>2. CASE NextWait \/ NextPop \/ SetupDone
  BY <1>2, BoardStutter DEF NextWait, NextPop, SetupDone
<1>3. CASE SetupStarved
  <2>1. /\ cur \in Board!Job /\ Board!InLine(cur) /\ ProcessCode = Board!Open
    BY <1>0, <1>3, CurInLine DEF SetupStarved
  <2>2. ProcessCode' = 1 /\ Board!Becomes(cur, "dropped")
    BY <1>3 DEF SetupStarved, ProcessCode, Board!Becomes
  <2>3. Board!Abandon
    BY <2>1, <2>2 DEF Board!Abandon
  <2> QED
    BY <2>3 DEF Board!Next
<1>4. CASE SetupError
  <2>1. /\ cur \in Board!Job /\ Board!InLine(cur) /\ ProcessCode = Board!Open
    BY <1>0, <1>4, CurInLine DEF SetupError
  <2>2. Board!Becomes(cur, "dropped")
    BY <1>4 DEF SetupError, Board!Becomes
  <2>3. CASE pc' = "loop"
    <3>1. Board!Drop(cur)
      BY <2>1, <2>2, <2>3 DEF Board!Drop, ProcessCode
    <3> QED
      BY <2>1, <3>1 DEF Board!Next
  <2>4. CASE pc' = "aborted" /\ exitCode' = 1
    <3>1. Board!Abandon
      BY <2>1, <2>2, <2>4 DEF Board!Abandon, ProcessCode
    <3> QED
      BY <3>1 DEF Board!Next
  <2> QED
    BY <1>4, <2>3, <2>4 DEF SetupError
<1>5. CASE SpawnDone
  <2>1. /\ cur \in Board!Job /\ Board!InLine(cur) /\ ProcessCode = Board!Open
    BY <1>0, <1>5, CurInLine DEF SpawnDone
  <2>2. Board!Running = active /\ Board!Cardinality(active) < MaxWorkers
    <3>1. Board!Cardinality(active) = Cardinality(active)
      BY Zenon DEF Board!Cardinality, Cardinality
    <3> QED
      BY <1>0, <1>5, <3>1 DEF SpawnDone, ActiveShape, Board!Running
  <2>3. Board!Start(cur)
    BY <1>5, <2>1, <2>2 DEF SpawnDone, Board!Start, Board!Becomes, ProcessCode
  <2> QED
    BY <2>1, <2>3 DEF Board!Next
<1>6. CASE SpawnError
  <2>1. /\ cur \in Board!Job /\ Board!InLine(cur) /\ ProcessCode = Board!Open
    BY <1>0, <1>6, CurInLine DEF SpawnError
  <2>2. Board!Refuse(cur)
    BY <1>6, <2>1 DEF SpawnError, Board!Refuse, Board!Becomes, ProcessCode
  <2> QED
    BY <2>1, <2>2 DEF Board!Next
<1>7. ASSUME NEW i \in Job, HandleSuccess(i) \/ HandleFailure(i)
      PROVE  Board!Next
  <2>1. pc = "loop" /\ pc' \in {"merge", "next"} /\ outcome[i] = "running"
    BY <1>0, <1>7 DEF HandleSuccess, HandleFailure, PipeClosed, ActiveShape
  <2>2. Board!Becomes(i, "ok") \/ Board!Becomes(i, "failed")
    BY <1>7 DEF HandleSuccess, HandleFailure, Board!Becomes
  <2>3. Board!Settle(i)
    BY <2>1, <2>2 DEF Board!Settle, ProcessCode
  <2> QED
    BY <2>3 DEF Board!Next
<1>8. CASE MergeWorkspace \/ CleanAfterSuccess \/ UpdateMainLedger \/ AccreteExemplars
  BY <1>8, BoardStutter DEF MergeWorkspace, CleanAfterSuccess, UpdateMainLedger,
     AccreteExemplars
<1>9. CASE VwaitFails
  <2>1. Board!Abandon
    BY <1>9 DEF VwaitFails, Board!Abandon, ProcessCode
  <2> QED
    BY <2>1 DEF Board!Next
<1>10. CASE (\E i \in Job : Pipeline(i)) \/ UNCHANGED vars
  BY <1>10 DEF Pipeline, PipelineWrites, PipelineSucceeds, PipelineFails, PipelineHangs, vars,
     supervisor, Board!vars, ProcessCode
<1> QED
  BY <1>1, <1>2, <1>3, <1>4, <1>5, <1>6, <1>7, <1>8, <1>9, <1>10
     DEF Next, StartNextJob, HandleOutput

\* With one worker every behaviour of the supervisor is one of the job board:
\* command line order, one verdict per job, an honest exit code, and no
\* irregular end that exits 0.
THEOREM BoardImplemented == ASSUME MaxWorkers = 1 PROVE Spec => ImplementsBoard
<1>1. Init => Board!Init
  BY DEF Init, Board!Init, ProcessCode, Board!Job, Job, Board!Open
<1>2. Init => SoloInv
  BY SoloInit
<1>3. SoloInv /\ [Next]_vars => SoloInv'
  BY SoloStep
<1> QED
  BY <1>1, <1>2, <1>3, BoardStep, PTL DEF Spec, ImplementsBoard, Board!Spec
=============================================================================
