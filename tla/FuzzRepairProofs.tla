-------------------------- MODULE FuzzRepairProofs --------------------------
(* Proofs about the standard loop, for every value of the two ceilings.     *)
EXTENDS FuzzRepair, TLAPS

\* A turn starts below both ceilings.
Below == compileRetry < MaxCompile /\ fuzzRetry < MaxFuzz

\* Every attempt that was counted, but the last one, has paid for one call.
BudgetShape ==
  /\ pc # "ended" => Below
  /\ pc \in {"compile", "sandbox", "hung"} => calls = compileRetry + fuzzRetry
  /\ pc \in {"fix", "fuzz"} => calls + 1 = compileRetry + fuzzRetry
  /\ pc = "ended" => RepairBudget

\* While the class is older than its source, everything the next turn looks at
\* is as it was when the sweep failed: the harness compiles and fails again.
ClassShape ==
  /\ pc # "ended" => end = "running"
  /\ pc = "sandbox" => isTest /\ compiles = "yes"
  /\ pc = "fuzz" => isTest /\ compiles = "yes" /\ verdict = "fails"
  /\ pc = "fix" => compiles = "no"
  /\ class # prod => isTest /\ compiles = "yes" /\ verdict = "fails"
  /\ SuccessWasExercised

RepairInv == TypeOK /\ BudgetShape /\ ClassShape

LEMMA RepairInit == Init => RepairInv
<1> SUFFICES ASSUME Init PROVE RepairInv
  OBVIOUS
<1>1. MaxCompile \in Nat \ {0} /\ MaxFuzz \in Nat \ {0}
  BY RepairAssumption DEF RepairAssumption
<1>2. TypeOK
  BY <1>1 DEF Init, TypeOK
<1>3. BudgetShape
  BY <1>1 DEF Init, BudgetShape, Below
<1>4. ClassShape
  BY DEF Init, ClassShape, SuccessWasExercised
<1> QED
  BY <1>2, <1>3, <1>4 DEF RepairInv

\* Every step keeps the types.
LEMMA TypeStep == RepairInv /\ [Next]_vars => TypeOK'
<1> SUFFICES ASSUME TypeOK, BudgetShape, [Next]_vars PROVE TypeOK'
  BY DEF RepairInv
<1>0. MaxCompile \in Nat \ {0} /\ MaxFuzz \in Nat \ {0}
  BY RepairAssumption DEF RepairAssumption
<1>1. isTest' \in BOOLEAN
  <2>1. isTest' = isTest
    BY Zenon DEF Next, Compiled, NotCompiled, SweepPasses, SweepBreaks, SweepHangs, SweepFails,
       RepairProd, RepairTarget, PatchMisses, ModelFails, vars, texts
  <2> QED
    BY <2>1, Zenon DEF TypeOK
<1>2. prompt' \in BOOLEAN
  <2>1. prompt' \in {prompt, TRUE}
    BY Zenon DEF Next, Compiled, NotCompiled, SweepPasses, SweepBreaks, SweepHangs, SweepFails,
       RepairProd, RepairTarget, PatchMisses, ModelFails, vars
  <2> QED
    BY <2>1, Zenon DEF TypeOK
<1>3. target' \in Nat /\ prod' \in Nat /\ class' \in Nat /\ calls' \in Nat
  <2>1. /\ target' = target \/ target' = target + 1
        /\ prod' = prod \/ prod' = prod + 1
        /\ class' = class \/ class' = prod'
        /\ calls' = calls \/ calls' = calls + 1
    BY Zenon DEF Next, Compiled, NotCompiled, SweepPasses, SweepBreaks, SweepHangs,
       SweepFails, RepairProd, Recompile, RepairTarget, PatchMisses, ModelFails, vars, texts
  <2>2. target \in Nat /\ prod \in Nat /\ class \in Nat /\ calls \in Nat
    BY DEF TypeOK
  <2> QED
    BY <2>1, <2>2
<1>4. compileRetry' \in 0..MaxCompile /\ fuzzRetry' \in 0..MaxFuzz
  <2>1. \/ compileRetry' = compileRetry /\ fuzzRetry' = fuzzRetry
        \/ pc # "ended" /\ compileRetry' = compileRetry + 1 /\ fuzzRetry' = fuzzRetry
        \/ pc # "ended" /\ compileRetry' = compileRetry /\ fuzzRetry' = fuzzRetry + 1
    <3>1. CASE NotCompiled
      <4>1. /\ pc = "compile" /\ compileRetry' = compileRetry + 1
            /\ fuzzRetry' = fuzzRetry
        BY <3>1, Zenon DEF NotCompiled
      <4> QED
        BY <4>1
    <3>2. CASE SweepFails
      <4>1. /\ pc = "sandbox" /\ fuzzRetry' = fuzzRetry + 1
            /\ compileRetry' = compileRetry
        BY <3>2, Zenon DEF SweepFails, CountFuzz
      <4> QED
        BY <4>1
    <3>3. CASE ~(NotCompiled \/ SweepFails)
      BY <3>3, Zenon DEF Next, Compiled, SweepPasses, SweepBreaks, SweepHangs,
         RepairProd, RepairTarget, PatchMisses, ModelFails, vars, counts
    <3> QED
      BY <3>1, <3>2, <3>3
  <2>2. /\ compileRetry \in 0..MaxCompile /\ fuzzRetry \in 0..MaxFuzz
        /\ pc # "ended" => compileRetry < MaxCompile /\ fuzzRetry < MaxFuzz
    BY DEF TypeOK, BudgetShape, Below
  <2> QED
    BY <1>0, <2>1, <2>2
<1>5. /\ status' \in {"clean", "partial", "broken"}
      /\ compiles' \in {"open", "yes", "no"} /\ verdict' \in {"open", "passes", "fails"}
  BY DEF Next, Compiled, NotCompiled, SweepPasses, SweepBreaks, SweepHangs, SweepFails,
     RepairProd, Recompile, RepairTarget, PatchMisses, ModelFails, vars, texts, memory, TypeOK
<1>6. /\ pc' \in {"compile", "sandbox", "fix", "fuzz", "hung", "ended"}
      /\ end' \in Ends \cup {"running"}
  BY DEF Next, Compiled, NotCompiled, SweepPasses, SweepBreaks, SweepHangs, SweepFails,
     CountFuzz, RepairProd, RepairTarget, PatchMisses, ModelFails, NextTurn, Exit, Ends,
     vars, TypeOK
<1> QED
  BY <1>1, <1>2, <1>3, <1>4, <1>5, <1>6 DEF TypeOK

\* Every step keeps the calls paid for.
LEMMA BudgetStep == RepairInv /\ [Next]_vars => BudgetShape'
<1> SUFFICES ASSUME TypeOK, BudgetShape, [Next]_vars PROVE BudgetShape'
  BY DEF RepairInv
<1>0. /\ MaxCompile \in Nat \ {0} /\ MaxFuzz \in Nat \ {0}
      /\ compileRetry \in 0..MaxCompile /\ fuzzRetry \in 0..MaxFuzz /\ calls \in Nat
  BY RepairAssumption DEF RepairAssumption, TypeOK
<1> USE <1>0 DEF BudgetShape, Below, RepairBudget, Exit, counts
<1>1. CASE Compiled
  BY <1>1 DEF Compiled
<1>2. CASE NotCompiled
  <2>1. /\ pc = "compile" /\ compileRetry' = compileRetry + 1
        /\ UNCHANGED <<fuzzRetry, calls>>
    BY <1>2, Zenon DEF NotCompiled
  <2>2. pc' = "ended" \/ (pc' = "fix" /\ ~CompileLimit(compileRetry'))
    BY <1>2, Zenon DEF NotCompiled
  <2> QED
    BY <2>1, <2>2 DEF CompileLimit
<1>3. CASE SweepPasses \/ SweepBreaks \/ SweepHangs
  BY <1>3 DEF SweepPasses, SweepBreaks, SweepHangs
<1>4. CASE SweepFails
  <2>1. /\ pc = "sandbox" /\ fuzzRetry' = fuzzRetry + 1
        /\ UNCHANGED <<compileRetry, calls>>
    BY <1>4, Zenon DEF SweepFails, CountFuzz
  <2>2. pc' = "ended" \/ (pc' = "fuzz" /\ ~(fuzzRetry' >= MaxFuzz))
    BY <1>4, Zenon DEF SweepFails, CountFuzz
  <2> QED
    BY <2>1, <2>2
<1>5. CASE RepairProd \/ RepairTarget
  BY <1>5 DEF RepairProd, RepairTarget, NextTurn
<1>6. CASE PatchMisses \/ ModelFails
  BY <1>6 DEF PatchMisses, ModelFails
<1>7. CASE UNCHANGED vars
  BY <1>7 DEF vars
<1> QED
  BY <1>1, <1>2, <1>3, <1>4, <1>5, <1>6, <1>7 DEF Next

\* Every step keeps an older class together with the sweep that failed on it.
LEMMA ClassStep == RepairInv /\ [Next]_vars => ClassShape'
<1> SUFFICES ASSUME TypeOK, BudgetShape, ClassShape, [Next]_vars PROVE ClassShape'
  BY DEF RepairInv
<1> USE DEF ClassShape, SuccessWasExercised, Answers, Exit, texts, memory
<1>1. CASE Compiled
  BY <1>1 DEF Compiled
<1>2. CASE NotCompiled
  BY <1>2 DEF NotCompiled
<1>3. CASE SweepPasses
  BY <1>3 DEF SweepPasses
<1>4. CASE SweepBreaks \/ SweepHangs
  BY <1>4 DEF SweepBreaks, SweepHangs
<1>5. CASE SweepFails
  BY <1>5 DEF SweepFails, CountFuzz
<1>6. CASE RepairProd
  <2>1. /\ pc = "fuzz" /\ pc' = "compile" /\ UNCHANGED <<isTest, end>>
        /\ \E s \in {"clean", "partial", "broken"} : Recompile(s)
    BY <1>6 DEF RepairProd, NextTurn, BudgetShape, Below
  <2>2. class' = prod' \/ UNCHANGED memory
    BY <2>1 DEF Recompile
  <2> QED
    BY <2>1, <2>2
<1>7. CASE RepairTarget
  BY <1>7 DEF RepairTarget, NextTurn, BudgetShape, Below
<1>8. CASE PatchMisses \/ ModelFails
  BY <1>8 DEF PatchMisses, ModelFails
<1>9. CASE UNCHANGED vars
  BY <1>9 DEF vars
<1> QED
  BY <1>1, <1>2, <1>3, <1>4, <1>5, <1>6, <1>7, <1>8, <1>9 DEF Next

LEMMA RepairInvariant == Spec => []RepairInv
<1>1. RepairInv /\ [Next]_vars => RepairInv'
  BY TypeStep, BudgetStep, ClassStep DEF RepairInv
<1> QED
  BY RepairInit, <1>1, PTL DEF Spec

\* The loop and the texts it works on keep their types.
THEOREM TypeCorrect == Spec => []TypeOK
BY RepairInvariant, PTL DEF RepairInv

\* The two circuit breakers bound the calls of the model.
THEOREM BudgetKept == Spec => []RepairBudget
<1>1. RepairInv => RepairBudget
  <2> SUFFICES ASSUME TypeOK, BudgetShape PROVE RepairBudget
    BY DEF RepairInv
  <2> QED
    BY RepairAssumption DEF RepairAssumption, TypeOK, BudgetShape, Below, RepairBudget
<1> QED
  BY <1>1, RepairInvariant, PTL

\* A harness that passed, passed against the current production class.
THEOREM SweepsAreCurrent == Spec => []SuccessWasExercised
<1>1. RepairInv => SuccessWasExercised
  BY DEF RepairInv, ClassShape
<1> QED
  BY <1>1, RepairInvariant, PTL

\* No harness is adapted to a class its source has left behind.
THEOREM HarnessNotAdapted == Spec => HarnessFollowsClass
<1>1. RepairInv /\ [Next]_vars => [isTest /\ target' # target => class = prod]_vars
  <2> SUFFICES ASSUME RepairInv, Next, target' # target PROVE class = prod
    BY DEF vars, texts
  <2>1. RepairTarget
    BY DEF Next, Compiled, NotCompiled, SweepPasses, SweepBreaks, SweepHangs, SweepFails,
       RepairProd, PatchMisses, ModelFails, texts
  <2> QED
    BY <2>1 DEF RepairTarget, RepairInv, ClassShape
<1> QED
  BY <1>1, RepairInvariant, PTL DEF Spec, HarnessFollowsClass
=============================================================================
