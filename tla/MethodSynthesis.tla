-------------------------- MODULE MethodSynthesis --------------------------
(***************************************************************************)
(* The incremental half of bin/self_correct_loop.tcl, with the step of      *)
(* bin/spec_parser that prepares it: the parser writes a class of skeleton  *)
(* methods; the loop asks the model for one method after the other, patches *)
(* each answer into the source file (bin/patch_source) and compiles the     *)
(* whole file (bin/self_correct).  After a failed compilation the compiler  *)
(* wrapper leaves a repair prompt and the text to be replaced in two files, *)
(* which the next turn reads.                                               *)
(*                                                                          *)
(* A source file is a function from its units (the methods, and the header  *)
(* that stands for everything else) to blocks of text.  Of a block only     *)
(* matters whether it compiles, whether it holds a SKELETON_ comment, and   *)
(* whether it is the same text as another one.  The compiler may blame any  *)
(* unit for an error, as it does for an unclosed block.                     *)
(***************************************************************************)
EXTENDS Integers, Sequences, Functions

CONSTANTS
  Methods,    \* .context/methods.txt, in order
  Header,     \* the unit outside the methods
  Text,       \* texts the model may answer with
  Stub,       \* the text of a skeleton
  MaxTries,   \* methodMaxRetries, 3 in the source
  MaxRuns,    \* bound: how often the pipeline is started on this file
  NoFile      \* the source file does not exist

Method == Range(Methods)
Unit == Method \cup {Header}
Block == [text : Text \cup {Stub}, clean : BOOLEAN, marked : BOOLEAN]
Source == [Unit -> Block]
\* A text to be replaced: one unit, or the whole file.
Excerpt == Source \cup UNION {[{u} -> Block] : u \in Unit}

ASSUME SynthesisAssumption ==
  /\ Methods \in Seq(Method) /\ Methods # <<>> /\ IsInjective(Methods)
  /\ Header \notin Method /\ Stub \notin Text
  /\ MaxTries \in Nat \ {0} /\ MaxRuns \in Nat \ {0}
  /\ NoFile \notin Source

\* Skeletons compile.
SkeletonBlock == [text |-> Stub, clean |-> TRUE, marked |-> TRUE]
HeaderBlock == [text |-> Stub, clean |-> TRUE, marked |-> FALSE]
Skeleton == [u \in Unit |-> IF u = Header THEN HeaderBlock ELSE SkeletonBlock]

VARIABLES
  pc,        \* "parse", "method", "call", "compile" or "ended"
  file,      \* generated/<class>.nrx
  index,     \* position in Methods of the method being synthesized
  retry,     \* methodRetry
  original,  \* .context/errant_block_original.txt
  prompt,    \* .context/self_correct_prompt.txt: "none", or whether it
             \* describes the last compilation ("fresh") or another ("stale")
  end,       \* how the last run ended, or "running"
  \* observed, not part of the program
  calls,     \* calls of the model in this run
  strayed,   \* a diagnostic of this run did not lead to the method asked for
  shipped,   \* the file as the first successful run left it, or NoFile
  runs       \* runs so far

loop == <<index, retry, original, prompt>>
vars == <<pc, file, loop, end, calls, strayed, shipped, runs>>

Ends == {"success", "files", "prompt", "llm", "patch", "tries", "killed", "standard"}
Current == Methods[index]

Marked(f) == \E u \in Unit : f[u].marked
Compiles(f) == \A u \in Unit : f[u].clean

Init ==
  /\ pc = "parse" /\ file = NoFile
  /\ index = 1 /\ retry = 0
  /\ original = [u \in {Header} |-> HeaderBlock]
  /\ prompt \in {"none", "stale"}
  /\ end = "running" /\ calls = 0 /\ strayed = FALSE
  /\ shipped = NoFile /\ runs = 1

\* exit, or the end of the process for another reason.
Stop(why) == pc' = "ended" /\ end' = why

-----------------------------------------------------------------------------
(* spec_parser                                                              *)

\* (Mutants: an existing file is never replaced; it is always replaced.)
NeedsSkeletonNever == file = NoFile
NeedsSkeletonAlways == TRUE
\* A file that still holds a marker is replaced as a whole.
NeedsSkeleton == file = NoFile \/ (file # NoFile /\ Marked(file))

ParseSpec ==
  /\ pc = "parse" /\ NeedsSkeleton
  /\ file' = Skeleton
  /\ pc' = "method" /\ index' = 1
  /\ UNCHANGED <<retry, original, prompt, end, calls, strayed, shipped, runs>>

\* No marker is left: the file counts as synthesized and goes to the standard
\* loop (module FuzzRepair).
SkipSynthesis ==
  /\ pc = "parse" /\ ~NeedsSkeleton
  /\ IF Marked(file) THEN pc' = "method" /\ index' = 1 /\ UNCHANGED end
                     ELSE Stop("standard") /\ UNCHANGED index
  /\ UNCHANGED <<file, retry, original, prompt, calls, strayed, shipped, runs>>

-----------------------------------------------------------------------------
(* The loop over the methods                                                *)

StartMethod ==
  /\ pc = "method" /\ index <= Len(Methods)
  /\ original' = [u \in {Current} |-> SkeletonBlock]
  /\ retry' = 0 /\ pc' = "call"
  /\ UNCHANGED <<file, index, prompt, end, calls, strayed, shipped, runs>>

\* (Mutant: missing files are generated again.)
FilesMissingRetried ==
  /\ pc = "method" /\ index <= Len(Methods)
  /\ pc' = "parse"
  /\ UNCHANGED <<file, loop, end, calls, strayed, shipped, runs>>

\* The skeleton or the prompt of the method is gone from .context.
FilesMissing ==
  /\ pc = "method" /\ index <= Len(Methods)
  /\ Stop("files")
  /\ UNCHANGED <<file, loop, calls, strayed, shipped, runs>>

AllSynthesized ==
  /\ pc = "method" /\ index > Len(Methods)
  /\ Stop("success")
  /\ shipped' = IF shipped = NoFile THEN file ELSE shipped
  /\ UNCHANGED <<file, loop, calls, strayed, runs>>

\* A retry wants the repair prompt, and there is none.
PromptMissing ==
  /\ pc = "call" /\ retry > 0 /\ prompt = "none"
  /\ Stop("prompt")
  /\ UNCHANGED <<file, loop, calls, strayed, shipped, runs>>

Asks == pc = "call" /\ (retry = 0 \/ prompt # "none") /\ calls' = calls + 1

ModelFails ==
  /\ Asks
  /\ Stop("llm")
  /\ UNCHANGED <<file, loop, strayed, shipped, runs>>

\* patch_source replaces the first occurrence of the original text.
Patchable == \A u \in DOMAIN original : file[u] = original[u]

\* The model writes what it likes, but it cannot know the SKELETON_ comment
\* unless the prompt quotes it, which only a repair prompt does.
Answers(a) ==
  /\ a \in [DOMAIN original -> Block]
  /\ \A u \in DOMAIN original : a[u].marked => retry > 0 /\ original[u].marked
  /\ \A u \in DOMAIN original : a[u].text = Stub => a[u] = original[u]

Patch ==
  /\ Asks /\ Patchable
  /\ \E a \in [DOMAIN original -> Block] :
       Answers(a) /\ file' = [u \in Unit |-> IF u \in DOMAIN original THEN a[u] ELSE file[u]]
  /\ pc' = "compile"
  /\ UNCHANGED <<loop, end, strayed, shipped, runs>>

PatchMisses ==
  /\ Asks /\ ~Patchable
  /\ Stop("patch")
  /\ UNCHANGED <<file, loop, strayed, shipped, runs>>

-----------------------------------------------------------------------------
(* self_correct, and what the loop makes of its verdict                     *)

\* The prompt on disk after a compilation that did not write one.
Aged == IF prompt = "none" THEN "none" ELSE "stale"

\* (Mutant: a diagnostic that cannot be parsed counts as success.)
AcceptedUnlessDiagnosed ==
  /\ pc = "compile"
  /\ pc' = "method" /\ index' = index + 1 /\ prompt' = Aged
  /\ UNCHANGED <<file, retry, original, end, calls, strayed, shipped, runs>>

Accepted ==
  /\ pc = "compile" /\ Compiles(file)
  /\ pc' = "method" /\ index' = index + 1 /\ prompt' = Aged
  /\ UNCHANGED <<file, retry, original, end, calls, strayed, shipped, runs>>

\* (Mutant: one attempt more.)
CountAttemptLate ==
  /\ retry' = retry + 1
  /\ IF retry' <= MaxTries THEN pc' = "call" /\ UNCHANGED end ELSE Stop("tries")

CountAttempt ==
  /\ retry' = retry + 1
  /\ IF retry' < MaxTries THEN pc' = "call" /\ UNCHANGED end ELSE Stop("tries")

\* The diagnostic leads to a unit of the file, to the whole file when no
\* declaration covers the line, or to a text of the main workspace when the
\* ledger still describes an earlier version of the class.
Diagnosed ==
  /\ pc = "compile" /\ ~Compiles(file)
  /\ \E e \in {file} \cup UNION {[{u} -> Block] : u \in Unit} : original' = e
  /\ prompt' = "fresh"
  /\ strayed' = (strayed \/ original' # [u \in {Current} |-> file[Current]])
  /\ CountAttempt
  /\ UNCHANGED <<file, index, calls, shipped, runs>>

\* The compiler fails and its output cannot be parsed: nothing is written.
NotParsed ==
  /\ pc = "compile" /\ ~Compiles(file)
  /\ prompt' = Aged /\ strayed' = TRUE
  /\ CountAttempt
  /\ UNCHANGED <<file, index, original, calls, shipped, runs>>

-----------------------------------------------------------------------------
(* Around the loop                                                          *)

\* The process is killed between two of its steps.
Killed ==
  /\ pc # "ended" /\ Stop("killed")
  /\ UNCHANGED <<file, loop, calls, strayed, shipped, runs>>

\* The pipeline is started again on the same workspace.
Rerun ==
  /\ pc = "ended" /\ runs < MaxRuns
  /\ pc' = "parse" /\ end' = "running"
  /\ runs' = runs + 1 /\ calls' = 0 /\ strayed' = FALSE
  /\ prompt' = Aged
  /\ UNCHANGED <<file, index, retry, original, shipped>>

Step ==
  \/ ParseSpec \/ SkipSynthesis
  \/ StartMethod \/ FilesMissing \/ AllSynthesized
  \/ PromptMissing \/ ModelFails \/ Patch \/ PatchMisses
  \/ Accepted \/ Diagnosed \/ NotParsed

Next == Step \/ Killed \/ Rerun

Spec == Init /\ [][Next]_vars

\* The script keeps executing; nobody has to kill it or start it again.
FairSpec == Spec /\ WF_vars(Step)

-----------------------------------------------------------------------------
(* Properties                                                               *)

\* Type correctness of the loop, the source file and the two context files.
TypeOK ==
  /\ pc \in {"parse", "method", "call", "compile", "ended"}
  /\ file \in Source \cup {NoFile}
  /\ index \in 1..Len(Methods) + 1 /\ retry \in 0..MaxTries
  /\ original \in Excerpt
  /\ prompt \in {"none", "fresh", "stale"}
  /\ end \in Ends \cup {"running"}
  /\ calls \in Nat /\ strayed \in BOOLEAN /\ runs \in 1..MaxRuns

\* A run that succeeds leaves a file that compiles as a whole and has no
\* skeleton left, although each turn looks at one method and repairs may hit
\* others (self_correct_loop.tcl:216-219, 235-238).
SuccessIsComplete ==
  end = "success" => Compiles(file) /\ ~Marked(file)

\* The circuit breaker: a run asks the model at most MaxTries times per method,
\* whatever the diagnostics lead to (self_correct_loop.tcl:132-136, 223-232).
CallBudget == calls <= MaxTries * Len(Methods)

\* What a successful run left survives every later run, killed or not: repairs
\* bring no marker back that would make spec_parser start over
\* (spec_parser.go:442-451).
VerifiedSurvives == shipped # NoFile => file = shipped

\* "Old block not found" (patch_source.go:50) never hits a run whose compiler
\* diagnostics were all readable and led to the method asked for, also when the
\* run before it was killed half way.
PatchMissesOnlyAfterStray == end = "patch" => strayed

\* Every run comes to an end.
RunsEnd == (pc = "parse") ~> (pc = "ended")

\* self_correct_loop.tcl:142-143 and 221-222: a retry reads the prompt "written
\* by self_correct", and its errant block is the new baseline; that is, the
\* retry is about the compilation that has just failed.
RetryIsAboutTheFailure ==
  (pc = "call" /\ retry > 0 /\ prompt # "none") => prompt = "fresh"
=============================================================================
