----------------------------- MODULE MCJobQueue -----------------------------
(***************************************************************************)
(* JobQueue on small instances: which failures each run allows, and the     *)
(* symmetry of the class names.                                             *)
(***************************************************************************)
EXTENDS JobQueue, TLC

\* Every failure of the disk and of the tools the supervisor starts.
AllFaults == FaultKinds
\* Everything but what keeps verified code from becoming an exemplar.
LearningFaults == FaultKinds \ {"merge", "index", "accrete"}

\* The classes are interchangeable: no definition names one.
ClassSymmetry == Permutations(Class)
=============================================================================
