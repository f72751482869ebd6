----------------------------- MODULE FuzzRepair -----------------------------
(***************************************************************************)
(* The standard half of bin/self_correct_loop.tcl (from line 240 on), which *)
(* the pipeline starts on helper records, on a class without skeletons and, *)
(* at the end, on the test harness.  A turn compiles the file; when it does *)
(* not compile, the model repairs it.  When it is a harness and compiles,   *)
(* it runs in the sandbox; when it reports an assertion failure, the model  *)
(* repairs the production class instead, which is compiled at once, its     *)
(* verdict ignored, and the next turn starts.                               *)
(*                                                                          *)
(* Source texts are numbered by the repairs they have seen.  The compiler   *)
(* and the harness (an enumeration of boundary values on a fresh file       *)
(* system) are deterministic: what they say of the same texts and classes   *)
(* is remembered in compiles and verdict until one of them changes.         *)
(***************************************************************************)
EXTENDS Integers

CONSTANTS
  MaxCompile,  \* maxCompileRetries, 5 in the source
  MaxFuzz      \* maxFuzzerRetries, 5 in the source

ASSUME RepairAssumption == MaxCompile \in Nat \ {0} /\ MaxFuzz \in Nat \ {0}

VARIABLES
  pc,           \* "compile", "sandbox", "fix", "fuzz", "ended", or "hung":
                \* exec waits for a sweep that does not end
  isTest,       \* the file is a harness, *Test.nrx
  target,       \* text of the file under repair, $nrxFile
  prod,         \* text of the production file, $prodNrx
  status,       \* prod is "clean", "partial" (translates, ECJ reports errors)
                \* or "broken" (does not translate)
  class,        \* text of prod that the class file in bin was compiled from
  compiles,     \* does target compile: "yes", "no" or not yet known, "open"
  verdict,      \* what the sweep says: "passes", "fails" or "open"
  prompt,       \* is there a .context/self_correct_prompt.txt
  compileRetry, \* compileRetryCount
  fuzzRetry,    \* fuzzerRetryCount
  end,          \* why the loop exited, or "running"
  calls         \* calls of the model, observed

texts == <<isTest, target, prod, status, class>>
memory == <<compiles, verdict>>
counts == <<compileRetry, fuzzRetry>>
vars == <<pc, texts, memory, prompt, counts, end, calls>>

Ends == {"success", "sandbox", "compile limit", "fuzz limit", "turns", "prompt", "llm", "patch"}

\* The pipeline starts the loop on a harness after one on the class succeeded.
Init ==
  /\ pc = "compile" /\ isTest \in BOOLEAN
  /\ target = 0 /\ prod = 0 /\ status = "clean" /\ class = 0
  /\ compiles = "open" /\ verdict = "open"
  /\ prompt \in BOOLEAN
  /\ compileRetry = 0 /\ fuzzRetry = 0
  /\ end = "running" /\ calls = 0

Exit(why) == pc' = "ended" /\ end' = why

\* An answer that is known is given again.
Answers(known, new) == known \in {"open", new}

-----------------------------------------------------------------------------
(* A turn: compile, and run a harness                                       *)

Compiled ==
  /\ pc = "compile" /\ Answers(compiles, "yes")
  /\ compiles' = "yes"
  /\ IF isTest THEN pc' = "sandbox" /\ UNCHANGED end ELSE Exit("success")
  /\ UNCHANGED <<texts, verdict, prompt, counts, calls>>

SweepPasses ==
  /\ pc = "sandbox" /\ Answers(verdict, "passes")
  /\ verdict' = "passes"
  /\ Exit("success")
  /\ UNCHANGED <<texts, compiles, prompt, counts, calls>>

\* (Mutant: a failure that is not an assertion is taken for a flaky one.)
SweepBreaksRetried ==
  /\ pc = "sandbox"
  /\ pc' = "compile"
  /\ UNCHANGED <<texts, memory, prompt, counts, end, calls>>

\* The failure names no assertion (the scope's memory or task limit, a class
\* that is not found), or there is no production file.
SweepBreaks ==
  /\ pc = "sandbox"
  /\ Exit("sandbox")
  /\ UNCHANGED <<texts, memory, prompt, counts, calls>>

\* Nothing limits the time of a sweep.
SweepHangs ==
  /\ pc = "sandbox"
  /\ pc' = "hung"
  /\ UNCHANGED <<texts, memory, prompt, counts, end, calls>>

\* (Mutant: the attempt is counted twice.)
CountFuzzTwice ==
  /\ fuzzRetry' = fuzzRetry + 2
  /\ IF fuzzRetry' >= MaxFuzz THEN Exit("fuzz limit") ELSE pc' = "fuzz" /\ UNCHANGED end

CountFuzz ==
  /\ fuzzRetry' = fuzzRetry + 1
  /\ IF fuzzRetry' >= MaxFuzz THEN Exit("fuzz limit") ELSE pc' = "fuzz" /\ UNCHANGED end

\* An assertion failure: prompt and errant block are taken from prod.
SweepFails ==
  /\ pc = "sandbox" /\ Answers(verdict, "fails")
  /\ verdict' = "fails" /\ prompt' = TRUE
  /\ CountFuzz
  /\ UNCHANGED <<texts, compiles, compileRetry, calls>>

-----------------------------------------------------------------------------
(* Repair of the production class                                           *)

\* The condition of the while loop.  (Mutant: a repair needs no new sweep.)
NextTurnAccepts == Exit("success")

NextTurn ==
  IF compileRetry < MaxCompile /\ fuzzRetry < MaxFuzz THEN pc' = "compile" /\ UNCHANGED end
                                                      ELSE Exit("turns")

\* (Mutant: the class file is purged together with the .java file.)
RecompilePurging(s) ==
  /\ status' = s /\ compiles' = "open" /\ verdict' = "open"
  /\ class' = IF s = "broken" THEN 0 ELSE prod'

\* ECJ runs with -proceedOnError: it writes a class also for a program with
\* errors.  A program that does not translate leaves the old class in place.
Recompile(s) ==
  /\ status' = s
  /\ IF s = "broken" THEN UNCHANGED <<class, memory>>
                     ELSE class' = prod' /\ compiles' = "open" /\ verdict' = "open"

\* The errant block was read from prod a moment ago, so the patch finds it (an
\* empty one at the start of the file).
RepairProd ==
  /\ pc = "fuzz"
  /\ calls' = calls + 1
  /\ prod' = prod + 1
  /\ \E s \in {"clean", "partial", "broken"} : Recompile(s)
  /\ NextTurn
  /\ UNCHANGED <<isTest, target, prompt, counts>>

-----------------------------------------------------------------------------
(* Repair of the file itself                                                *)

\* (Mutant: one attempt more.)
CompileLimitLate(n) == n > MaxCompile
CompileLimit(n) == n >= MaxCompile

\* With or without a readable diagnostic; only a readable one leaves a prompt.
NotCompiled ==
  /\ pc = "compile" /\ Answers(compiles, "no")
  /\ compiles' = "no"
  /\ compileRetry' = compileRetry + 1
  /\ prompt' \in {prompt, TRUE}
  /\ IF CompileLimit(compileRetry') THEN Exit("compile limit")
     ELSE IF ~prompt' THEN Exit("prompt")
     ELSE pc' = "fix" /\ UNCHANGED end
  /\ UNCHANGED <<texts, verdict, fuzzRetry, calls>>

\* The answer replaces the errant block of target, if it is in there.
RepairTarget ==
  /\ pc = "fix"
  /\ calls' = calls + 1
  /\ target' = target + 1 /\ compiles' = "open" /\ verdict' = "open"
  /\ NextTurn
  /\ UNCHANGED <<isTest, prod, status, class, prompt, counts>>

PatchMisses ==
  /\ pc = "fix"
  /\ calls' = calls + 1
  /\ Exit("patch")
  /\ UNCHANGED <<texts, memory, prompt, counts>>

ModelFails ==
  /\ pc \in {"fix", "fuzz"}
  /\ calls' = calls + 1
  /\ Exit("llm")
  /\ UNCHANGED <<texts, memory, prompt, counts>>

-----------------------------------------------------------------------------
Next ==
  \/ Compiled \/ NotCompiled
  \/ SweepPasses \/ SweepBreaks \/ SweepHangs \/ SweepFails
  \/ RepairProd \/ RepairTarget \/ PatchMisses \/ ModelFails

Spec == Init /\ [][Next]_vars

\* The script keeps executing.
FairSpec == Spec /\ WF_vars(Next)

-----------------------------------------------------------------------------
(* Properties                                                               *)

\* Type correctness of the loop and of the texts it works on.
TypeOK ==
  /\ pc \in {"compile", "sandbox", "fix", "fuzz", "hung", "ended"}
  /\ isTest \in BOOLEAN
  /\ target \in Nat /\ prod \in Nat /\ class \in Nat
  /\ status \in {"clean", "partial", "broken"}
  /\ compiles \in {"open", "yes", "no"} /\ verdict \in {"open", "passes", "fails"}
  /\ prompt \in BOOLEAN
  /\ compileRetry \in 0..MaxCompile /\ fuzzRetry \in 0..MaxFuzz
  /\ end \in Ends \cup {"running"} /\ calls \in Nat

\* The two circuit breakers together bound the calls of the model, however
\* compile and fuzzer repairs alternate (self_correct_loop.tcl:348, 424).
RepairBudget == calls <= (MaxCompile - 1) + (MaxFuzz - 1)

\* Success of a harness means that it passed against a class compiled from the
\* production file as it is now, although a repair that does not translate
\* leaves an older class in bin and its verdict is ignored
\* (self_correct_loop.tcl:405-409).
SuccessWasExercised ==
  (end = "success" /\ isTest) => verdict = "passes" /\ class = prod

\* The model never adapts a harness to a class that the production file has
\* left behind.
HarnessFollowsClass ==
  [][isTest /\ target' # target => class = prod]_vars

\* The loop exits, unless a sweep does not come back.
LoopEnds == (pc = "compile") ~> (pc \in {"ended", "hung"})

\* self_correct_loop.tcl:418 "Zero-error build achieved!", and
\* tutorial_introduction.md:55, "patched and retried until a zero-error build
\* is achieved": behind a success there is a class that compiles.
SuccessIsZeroError == (end = "success" /\ isTest) => status = "clean"
=============================================================================
