------------------------------ MODULE JobBoard ------------------------------
(***************************************************************************)
(* What the supervisor promises to the person who started it: jobs are      *)
(* started in the order of the command line, at most Workers at a time,     *)
(* each is settled once, and the exit code tells whether one failed.        *)
(* JobQueue implements this specification.                                  *)
(***************************************************************************)
EXTENDS Integers, FiniteSets

CONSTANTS NJobs, Workers

VARIABLES
  outcome,   \* per job: "waiting", "running", "ok", "failed" or "dropped"
  code       \* exit code of the supervisor, or Open while it runs

vars == <<outcome, code>>

Job == 1..NJobs
Open == -1
Running == {i \in Job : outcome[i] = "running"}

Init == outcome = [i \in Job |-> "waiting"] /\ code = Open

\* The next job in line.
InLine(i) ==
  outcome[i] = "waiting" /\ \A j \in Job : j < i => outcome[j] # "waiting"

Becomes(i, o) == outcome' = [outcome EXCEPT ![i] = o]

Start(i) ==
  /\ code = Open /\ InLine(i) /\ Cardinality(Running) < Workers
  /\ Becomes(i, "running") /\ UNCHANGED code

\* The pipeline of the job could not even be started.
Refuse(i) ==
  code = Open /\ InLine(i) /\ Becomes(i, "failed") /\ UNCHANGED code

\* The job is lost to an error of the supervisor itself.
Drop(i) ==
  code = Open /\ InLine(i) /\ Becomes(i, "dropped") /\ UNCHANGED code

Settle(i) ==
  /\ code = Open /\ outcome[i] = "running"
  /\ Becomes(i, "ok") \/ Becomes(i, "failed")
  /\ UNCHANGED code

\* A regular end: everything was run, and the code is honest.
Close ==
  /\ code = Open
  /\ \A i \in Job : outcome[i] \in {"ok", "failed"}
  /\ code' = IF \E i \in Job : outcome[i] = "failed" THEN 1 ELSE 0
  /\ UNCHANGED outcome

\* An irregular end always shows in the code.
Abandon ==
  /\ code = Open /\ code' = 1
  /\ UNCHANGED outcome \/ \E i \in Job : InLine(i) /\ Becomes(i, "dropped")

Next ==
  \/ \E i \in Job : Start(i) \/ Refuse(i) \/ Drop(i) \/ Settle(i)
  \/ Close \/ Abandon

Spec == Init /\ [][Next]_vars
=============================================================================
