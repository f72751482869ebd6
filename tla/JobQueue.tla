------------------------------ MODULE JobQueue ------------------------------
(***************************************************************************)
(* The supervisor bin/job_queue.tcl: it takes the specification files of    *)
(* its command line one after the other, gives each an isolated workspace   *)
(* jobs/<class>, runs bin/run_job_pipeline.sh in it, and after a success    *)
(* merges the result into the main workspace, re-indexes the main ledger    *)
(* and accretes the verified methods as exemplars for the jobs to come.     *)
(*                                                                          *)
(* Tcl is single-threaded: a procedure runs to its end while the pipelines  *)
(* it started make progress.  Each procedure call that touches the disk is  *)
(* a step of its own, so that the pipelines interleave with all of them.    *)
(*                                                                          *)
(* The pipeline itself is reduced to what the supervisor can see of it: it  *)
(* rewrites files of its own workspace and ends with an exit status.  A     *)
(* version of a source file is the number of the job that wrote it last.    *)
(***************************************************************************)
EXTENDS Integers, Sequences, FiniteSets

CONSTANTS
  Class,        \* class names a specification file can stand for
  Shared,       \* helper sources (*Record.nrx) that any job may repair
  NJobs,        \* number of specification files on the command line
  MaxWorkers,   \* 1 in the source (it was 2 once, synthesis_report.md:20)
  Faults,       \* which of the failures the code handles may happen
  ThreadedTcl,  \* whether vwait waits for ever when no event source is left
  None          \* the workspace that does not exist

FaultKinds ==
  {"env",      \* a jar or bin/llm disappears: verifyEnvironmentInvariants fails
   "setup",    \* a copy or a link of setupWorkspace fails
   "spawn",    \* the pipe cannot be opened
   "hang",     \* a command of a pipeline never returns
   "merge",    \* a copy of mergeWorkspace fails
   "cleanup",  \* the workspace cannot be deleted
   "index",    \* ContextExtractor or the sqlite3 import fails
   "accrete"}  \* accrete_exemplars fails

Job == 1..NJobs
File == Class \cup Shared      \* the sources under generated/
Absent == -1                   \* no such file
Version == Absent..NJobs       \* 0: written before this run of the supervisor
\* A workspace: its sources, and the main sources and exemplars copied into it.
Workspace == [gen : [File -> Version], base : [File -> Version],
              exemplars : [Class -> Version]]

ASSUME JobAssumption ==
  /\ NJobs \in Nat \ {0} /\ MaxWorkers \in Nat \ {0}
  /\ Class \cap Shared = {} /\ None \notin Workspace
  /\ Faults \subseteq FaultKinds /\ ThreadedTcl \in BOOLEAN

\* A workspace left by a killed run: only its existence matters.
Leftover == [gen |-> [f \in File |-> Absent], base |-> [f \in File |-> Absent],
             exemplars |-> [c \in Class |-> Absent]]

VARIABLES
  \* the supervisor
  pc,          \* the procedure being executed; "loop" is the event loop
  queue,       \* jobs not yet popped, in command line order
  spec,        \* class each job synthesizes
  active,      \* jobs with an open pipe
  activeCount,
  exitCode,
  cur,         \* the job startNextJob or handleOutput is working on
  entered,     \* TRUE once the script has reached `vwait forever`
  \* the pipelines
  proc,        \* "none", "running", "hung", "exit0" or "exit1", per job
  \* the disk
  ws,          \* jobs/<class>, or None
  main,        \* generated/ of the main workspace
  indexed,     \* classes whose declarations the main ledger holds
  exemplars,   \* version of each class in the exemplar table
  \* observed, not part of the program
  outcome,     \* what became of each job
  verified     \* versions that a successful pipeline has compiled and fuzzed

supervisor == <<pc, queue, spec, active, activeCount, exitCode, cur, entered>>
disk == <<ws, main, indexed, exemplars>>
vars == <<supervisor, proc, disk, outcome, verified>>

Outcome == {"waiting", "running", "ok", "failed", "dropped"}

Init ==
  /\ pc = "next"
  /\ queue = [i \in Job |-> i]
  /\ spec \in [Job -> Class]
  /\ active = {} /\ activeCount = 0 /\ exitCode = 0 /\ cur = 1
  /\ entered = FALSE
  /\ proc = [i \in Job |-> "none"]
  /\ main \in [File -> {Absent, 0}]     \* sources of an earlier run, or none
  /\ \E left \in SUBSET Class :         \* workspaces a killed run left behind
       ws = [c \in Class |-> IF c \in left THEN Leftover ELSE None]
  /\ indexed \in SUBSET Class
  /\ exemplars = [c \in Class |-> Absent]
  /\ outcome = [i \in Job |-> "waiting"]
  /\ verified = {}

-----------------------------------------------------------------------------
(* startNextJob                                                             *)

\* (Mutant: one pipeline more than configured.)
OneWorkerTooMany == activeCount <= MaxWorkers
WorkerFree == activeCount < MaxWorkers

\* (Mutant: the supervisor exits as soon as the queue is empty.)
NextExitWhileRunning ==
  /\ pc = "next" /\ queue = <<>>
  /\ pc' = "exited"
  /\ UNCHANGED <<queue, spec, active, activeCount, exitCode, cur, entered,
                 proc, disk, outcome, verified>>

\* Nothing left to start and nothing running: exit with the collected code.
NextExit ==
  /\ pc = "next" /\ queue = <<>> /\ activeCount = 0
  /\ pc' = "exited"
  /\ UNCHANGED <<queue, spec, active, activeCount, exitCode, cur, entered,
                 proc, disk, outcome, verified>>

\* No worker free or nothing left to start: back to (or on to) the event loop.
NextWait ==
  /\ pc = "next"
  /\ ~(queue = <<>> /\ activeCount = 0)
  /\ ~WorkerFree \/ queue = <<>>
  /\ pc' = "loop" /\ entered' = TRUE
  /\ UNCHANGED <<queue, spec, active, activeCount, exitCode, cur,
                 proc, disk, outcome, verified>>

\* (Mutant: jobs are popped from the end of the list.)
NextPopLast ==
  /\ pc = "next" /\ WorkerFree /\ queue # <<>>
  /\ cur' = queue[Len(queue)] /\ queue' = SubSeq(queue, 1, Len(queue) - 1)
  /\ pc' = "setup"
  /\ UNCHANGED <<spec, active, activeCount, exitCode, entered,
                 proc, disk, outcome, verified>>

NextPop ==
  /\ pc = "next" /\ WorkerFree /\ queue # <<>>
  /\ cur' = Head(queue) /\ queue' = Tail(queue)
  /\ pc' = "setup"
  /\ UNCHANGED <<spec, active, activeCount, exitCode, entered,
                 proc, disk, outcome, verified>>

-----------------------------------------------------------------------------
(* setupWorkspace                                                           *)

\* What a workspace holds right after setup.
Snapshot == [gen |-> main, base |-> main, exemplars |-> exemplars]

\* verifyEnvironmentInvariants fails: `exit 1`, whatever is still queued.
SetupStarved ==
  /\ pc = "setup" /\ "env" \in Faults
  /\ pc' = "aborted" /\ exitCode' = 1
  /\ outcome' = [outcome EXCEPT ![cur] = "dropped"]
  /\ UNCHANGED <<queue, spec, active, activeCount, cur, entered,
                 proc, disk, verified>>

\* (Mutant: a workspace that is already there is used as it is.)
SetupReuses ==
  /\ pc = "setup"
  /\ ws' = [ws EXCEPT ![spec[cur]] = IF @ = None THEN Snapshot ELSE @]
  /\ pc' = "spawn"
  /\ UNCHANGED <<queue, spec, active, activeCount, exitCode, cur, entered,
                 proc, main, indexed, exemplars, outcome, verified>>

\* The directory is fresh or its predecessor could be deleted, and every copy
\* and link succeeds.
SetupDone ==
  /\ pc = "setup"
  /\ ws' = [ws EXCEPT ![spec[cur]] = Snapshot]
  /\ pc' = "spawn"
  /\ UNCHANGED <<queue, spec, active, activeCount, exitCode, cur, entered,
                 proc, main, indexed, exemplars, outcome, verified>>

\* A copy or a link fails, or the old directory could not be deleted and the
\* first copy finds its target there.  Nothing catches the Tcl error: it ends
\* the script while the script is still starting, and only the event handler
\* once the event loop runs.
SetupError ==
  /\ pc = "setup"
  /\ \/ "setup" \in Faults
     \/ "cleanup" \in Faults /\ ws[spec[cur]] # None
  /\ \E w \in {ws[spec[cur]], None, Snapshot} :
       ws' = [ws EXCEPT ![spec[cur]] = w]
  /\ IF entered THEN pc' = "loop" /\ UNCHANGED exitCode
                ELSE pc' = "aborted" /\ exitCode' = 1
  /\ outcome' = [outcome EXCEPT ![cur] = "dropped"]
  /\ UNCHANGED <<queue, spec, active, activeCount, cur, entered,
                 proc, main, indexed, exemplars, verified>>

-----------------------------------------------------------------------------
(* Spawning the pipeline                                                    *)

\* cleanupWorkspace: `catch {file delete -force ...}`, so that a failure to
\* delete goes unnoticed and the directory stays.
CleanupWorkspace(c) ==
  \/ ws' = [ws EXCEPT ![c] = None]
  \/ "cleanup" \in Faults /\ UNCHANGED ws

SpawnDone ==
  /\ pc = "spawn"
  /\ active' = active \cup {cur} /\ activeCount' = activeCount + 1
  /\ proc' = [proc EXCEPT ![cur] = "running"]
  /\ outcome' = [outcome EXCEPT ![cur] = "running"]
  /\ pc' = "next"
  /\ UNCHANGED <<queue, spec, exitCode, cur, entered, disk, verified>>

SpawnError ==
  /\ pc = "spawn" /\ "spawn" \in Faults
  /\ CleanupWorkspace(spec[cur])
  /\ exitCode' = 1
  /\ outcome' = [outcome EXCEPT ![cur] = "failed"]
  /\ pc' = "next"
  /\ UNCHANGED <<queue, spec, active, activeCount, cur, entered,
                 proc, main, indexed, exemplars, verified>>

-----------------------------------------------------------------------------
(* run_job_pipeline.sh, as far as the supervisor can tell                   *)

\* The pipeline rewrites its own class or repairs a helper source, always in
\* its workspace.
PipelineWrites(i) ==
  /\ proc[i] = "running" /\ ws[spec[i]] # None
  /\ \E f \in {spec[i]} \cup Shared :
       ws' = [ws EXCEPT ![spec[i]].gen[f] = i]
  /\ UNCHANGED <<supervisor, proc, main, indexed, exemplars, outcome, verified>>

\* Every step succeeded: the class as it is now in the workspace has been
\* compiled and fuzzed.
PipelineSucceeds(i) ==
  /\ proc[i] = "running" /\ ws[spec[i]] # None
  /\ ws[spec[i]].gen[spec[i]] # Absent
  /\ proc' = [proc EXCEPT ![i] = "exit0"]
  /\ verified' = verified \cup {<<spec[i], ws[spec[i]].gen[spec[i]]>>}
  /\ UNCHANGED <<supervisor, disk, outcome>>

\* `set -e`: the first failing step ends the pipeline.
PipelineFails(i) ==
  /\ proc[i] = "running"
  /\ proc' = [proc EXCEPT ![i] = "exit1"]
  /\ UNCHANGED <<supervisor, disk, outcome, verified>>

\* A command of the pipeline runs for ever, as the fuzz test of a class that
\* does not terminate does (FuzzRepair): the pipe stays open and silent.
PipelineHangs(i) ==
  /\ proc[i] = "running" /\ "hang" \in Faults
  /\ proc' = [proc EXCEPT ![i] = "hung"]
  /\ UNCHANGED <<supervisor, disk, outcome, verified>>

-----------------------------------------------------------------------------
(* handleOutput, once it sees end of file on a pipe                         *)

\* (Mutant: the closed pipe keeps its handler and its entry.)
PipeClosedStays(i) ==
  /\ pc = "loop" /\ i \in active /\ proc[i] \in {"exit0", "exit1"}
  /\ cur' = i /\ UNCHANGED <<active, activeCount>>

PipeClosed(i) ==
  /\ pc = "loop" /\ i \in active /\ proc[i] \in {"exit0", "exit1"}
  /\ active' = active \ {i} /\ activeCount' = activeCount - 1
  /\ cur' = i

HandleSuccess(i) ==
  /\ PipeClosed(i) /\ proc[i] = "exit0"
  /\ outcome' = [outcome EXCEPT ![i] = "ok"]
  /\ pc' = "merge"
  /\ UNCHANGED <<queue, spec, exitCode, entered, proc, disk, verified>>

\* (Mutants of HandleFailure: exitCode counts the failures; exitCode is not
\* set; the failed job is accreted as well.)
HandleFailureCounts(i) ==
  /\ PipeClosed(i) /\ proc[i] = "exit1"
  /\ outcome' = [outcome EXCEPT ![i] = "failed"]
  /\ CleanupWorkspace(spec[i])
  /\ exitCode' = exitCode + 1
  /\ pc' = "next"
  /\ UNCHANGED <<queue, spec, entered, proc, main, indexed, exemplars, verified>>

HandleFailureSilently(i) ==
  /\ PipeClosed(i) /\ proc[i] = "exit1"
  /\ outcome' = [outcome EXCEPT ![i] = "failed"]
  /\ CleanupWorkspace(spec[i])
  /\ pc' = "next"
  /\ UNCHANGED <<queue, spec, exitCode, entered,
                 proc, main, indexed, exemplars, verified>>

HandleFailureAccretes(i) ==
  /\ PipeClosed(i) /\ proc[i] = "exit1"
  /\ outcome' = [outcome EXCEPT ![i] = "failed"]
  /\ CleanupWorkspace(spec[i])
  /\ exitCode' = 1
  /\ pc' = "index"
  /\ UNCHANGED <<queue, spec, entered, proc, main, indexed, exemplars, verified>>

HandleFailure(i) ==
  /\ PipeClosed(i) /\ proc[i] = "exit1"
  /\ outcome' = [outcome EXCEPT ![i] = "failed"]
  /\ CleanupWorkspace(spec[i])
  /\ exitCode' = 1
  /\ pc' = "next"
  /\ UNCHANGED <<queue, spec, entered, proc, main, indexed, exemplars, verified>>

\* Sources to copy back; none when another job of the class has deleted the
\* workspace meanwhile (possible only with several workers).
Produced ==
  LET w == ws[spec[cur]]
  IN  IF w = None THEN {} ELSE {f \in File : w.gen[f] # Absent}

\* cp -a of a directory copies every file it can; `catch` hides the rest.
Copied(S) ==
  [f \in File |-> IF f \in S \cap Produced THEN ws[spec[cur]].gen[f] ELSE main[f]]

MergeWorkspace ==
  /\ pc = "merge"
  /\ \/ main' = Copied(File)
     \/ "merge" \in Faults /\ \E S \in SUBSET File : main' = Copied(S)
  /\ pc' = "clean"
  /\ UNCHANGED <<queue, spec, active, activeCount, exitCode, cur, entered,
                 proc, ws, indexed, exemplars, outcome, verified>>

CleanAfterSuccess ==
  /\ pc = "clean"
  /\ CleanupWorkspace(spec[cur])
  /\ pc' = "index"
  /\ UNCHANGED <<queue, spec, active, activeCount, exitCode, cur, entered,
                 proc, main, indexed, exemplars, outcome, verified>>

\* The import deletes the old declarations and inserts the extracted ones.
\* When the extractor fails nothing changes; when the import fails any part of
\* the new declarations may be missing.  Both only print a warning.
Extracted == {c \in Class : main[c] # Absent}

\* (Mutant: the ledger is not re-indexed before the accretion.)
LedgerNotUpdated ==
  /\ pc = "index"
  /\ pc' = "accrete"
  /\ UNCHANGED <<queue, spec, active, activeCount, exitCode, cur, entered,
                 proc, disk, outcome, verified>>

UpdateMainLedger ==
  /\ pc = "index"
  /\ \/ indexed' = Extracted
     \/ "index" \in Faults /\ indexed' \in {indexed} \cup SUBSET Extracted
  /\ pc' = "accrete"
  /\ UNCHANGED <<queue, spec, active, activeCount, exitCode, cur, entered,
                 proc, ws, main, exemplars, outcome, verified>>

\* accrete_exemplars reads the class from the main workspace and replaces the
\* exemplars of the methods the ledger declares for it, in one transaction; a
\* class without declarations is skipped, a failure only prints a warning.
AccreteExemplars ==
  /\ pc = "accrete"
  /\ LET c == spec[cur]
     IN  \/ /\ main[c] # Absent /\ c \in indexed
            /\ exemplars' = [exemplars EXCEPT ![c] = main[c]]
         \/ /\ main[c] = Absent \/ c \notin indexed \/ "accrete" \in Faults
            /\ UNCHANGED exemplars
  /\ pc' = "next"
  /\ UNCHANGED <<queue, spec, active, activeCount, exitCode, cur, entered,
                 proc, ws, main, indexed, outcome, verified>>

\* vwait finds no event source: a Tcl without threads raises an error, one with
\* threads, the usual build, waits for a thread that could send an event.
VwaitFails ==
  /\ pc = "loop" /\ active = {} /\ ~ThreadedTcl
  /\ pc' = "aborted" /\ exitCode' = 1
  /\ UNCHANGED <<queue, spec, active, activeCount, cur, entered,
                 proc, disk, outcome, verified>>

-----------------------------------------------------------------------------
StartNextJob ==
  \/ NextExit \/ NextWait \/ NextPop
  \/ SetupStarved \/ SetupDone \/ SetupError
  \/ SpawnDone \/ SpawnError

HandleOutput ==
  \/ \E i \in Job : HandleSuccess(i) \/ HandleFailure(i)
  \/ MergeWorkspace \/ CleanAfterSuccess \/ UpdateMainLedger \/ AccreteExemplars

Pipeline(i) ==
  PipelineWrites(i) \/ PipelineSucceeds(i) \/ PipelineFails(i) \/ PipelineHangs(i)

Next ==
  \/ StartNextJob \/ HandleOutput \/ VwaitFails
  \/ \E i \in Job : Pipeline(i)

Spec == Init /\ [][Next]_vars

\* The interpreter keeps executing, and a pipeline none of whose commands hangs
\* ends: its loops are bounded (MethodSynthesis, FuzzRepair).
FairSpec ==
  /\ Spec
  /\ WF_vars(StartNextJob \/ HandleOutput \/ VwaitFails)
  /\ \A i \in Job : WF_vars(PipelineSucceeds(i) \/ PipelineFails(i))

-----------------------------------------------------------------------------
(* Properties                                                               *)

\* Type correctness of the supervisor, the pipelines and the disk.
TypeOK ==
  /\ pc \in {"next", "setup", "spawn", "loop", "merge", "clean", "index",
             "accrete", "exited", "aborted"}
  /\ queue \in Seq(Job)
  /\ spec \in [Job -> Class]
  /\ active \in SUBSET Job /\ activeCount \in Int /\ exitCode \in {0, 1}
  /\ cur \in Job /\ entered \in BOOLEAN
  /\ proc \in [Job -> {"none", "running", "hung", "exit0", "exit1"}]
  /\ ws \in [Class -> Workspace \cup {None}]
  /\ main \in [File -> Version]
  /\ indexed \in SUBSET Class
  /\ exemplars \in [Class -> Version]
  /\ outcome \in [Job -> Outcome]
  /\ verified \in SUBSET (Class \X Version)

\* The counter that gates new pipelines agrees with the array of open pipes and
\* never exceeds the workers configured, through every order of job starts,
\* failed spawns and closed pipes (job_queue.tcl:150-151, 179, 222-223).
ActiveAccounting ==
  /\ activeCount = Cardinality(active)
  /\ activeCount <= MaxWorkers
  /\ active = {i \in Job : outcome[i] = "running"}

\* When the supervisor exits by itself every job has been run, and the exit
\* code is 1 exactly when some job failed (job_queue.tcl:171, 178-184, 214).
ExitIsHonest ==
  pc = "exited" =>
    /\ \A i \in Job : outcome[i] \in {"ok", "failed"}
    /\ exitCode = 1 <=> \E i \in Job : outcome[i] = "failed"

\* achievements_and_implications.md:62, "If a run fails, the parent workspace
\* is unaffected": no source of the main workspace was last written by a job
\* that did not succeed, however merges and cleanups fail.
FailedJobsLeaveMainAlone ==
  \A f \in File : main[f] > 0 => outcome[main[f]] = "ok"

\* Isolated copies lose no update: a merge never puts back a source that is
\* older than the one in the main workspace.
NoStaleMerge ==
  [][\A f \in File : main'[f] >= main[f]]_vars

\* Only code that a successful pipeline has compiled and fuzzed becomes an
\* exemplar (stored as MACHINE_VERIFIED).  achievements_and_implications.md:48
ExemplarsAreVerified ==
  \A c \in Class : exemplars[c] # Absent => <<c, exemplars[c]>> \in verified

\* A job starts from what its predecessors taught: the exemplars copied into
\* the workspace of a running job are the sources of the main workspace, for
\* every class an earlier job completed.
LaterJobsLearn ==
  \A i \in active : \A j \in Job :
    (outcome[j] = "ok" /\ ws[spec[i]] # None) =>
      ws[spec[i]].exemplars[spec[j]] = main[spec[j]]

\* REASONIX.md:366, the pipeline "logs failures without process stall", is true
\* but for two ways to wait for ever in the event loop: every open pipe is one
\* of a pipeline that hangs, which nothing kills; or no pipe is open, because
\* setupWorkspace raised an error in the event handler and startNextJob was not
\* called again (job_queue.tcl:172, 201).  In every other case, whatever fails,
\* the supervisor comes to an end.
WaitsForHungPipelines ==
  pc = "loop" /\ active # {} /\ \A i \in active : proc[i] = "hung"
WaitsForNothing ==
  /\ pc = "loop" /\ active = {} /\ ThreadedTcl
  /\ "dropped" \in {outcome[i] : i \in Job}
SupervisorEnds ==
  <>(pc \in {"exited", "aborted"} \/ WaitsForHungPipelines \/ WaitsForNothing)

-----------------------------------------------------------------------------
(* Refinement                                                               *)

\* The exit code of the process, -1 while it runs.
ProcessCode == IF pc \in {"exited", "aborted"} THEN exitCode ELSE -1

Board == INSTANCE JobBoard WITH Workers <- MaxWorkers, code <- ProcessCode

\* The supervisor implements the board: command line order, the limit on
\* workers, one verdict per job and an honest exit code.
ImplementsBoard == Board!Spec
=============================================================================
