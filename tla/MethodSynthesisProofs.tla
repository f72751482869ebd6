----------------------- MODULE MethodSynthesisProofs -----------------------
(***************************************************************************)
(* Machine-checked proofs about MethodSynthesis, for every list of methods, *)
(* every set of texts the model may answer with, every number of tries and  *)
(* any number of killed and repeated runs.                                  *)
(***************************************************************************)
EXTENDS MethodSynthesis, TLAPS

Working == pc \in {"method", "call", "compile"}

\* A run works on a file; the first attempt replaces the skeleton, and tries
\* are left while one is under way.
LoopShape ==
  /\ Working => file # NoFile /\ end = "running"
  /\ pc = "parse" => end = "running"
  /\ pc = "ended" => end # "running"
  /\ pc \in {"call", "compile"} => index <= Len(Methods) /\ retry < MaxTries
  /\ pc = "call" /\ retry = 0 => original = [u \in {Current} |-> SkeletonBlock]

\* Between two methods the whole file compiles.
CleanShape ==
  /\ pc = "method" => Compiles(file)
  /\ end = "success" => file # NoFile /\ Compiles(file)

\* The marker of a unit that has been synthesized is gone for good.
Replaced ==
  {Header} \cup {Methods[j] : j \in 1..index - 1}
    \cup (IF pc = "compile" \/ (pc = "call" /\ retry > 0) THEN {Current} ELSE {})

MarkShape ==
  /\ Working => \A u \in Replaced : ~file[u].marked
  /\ end = "success" => ~Marked(file)

\* A shipped file is never worked on.
ShippedShape ==
  shipped # NoFile =>
    file = shipped /\ Compiles(file) /\ ~Marked(file) /\ pc \in {"parse", "ended"}

\* The calls made are paid for by the methods behind and the current attempts.
CallShape ==
  /\ pc = "parse" => calls = 0
  /\ pc = "method" => calls <= MaxTries * (index - 1)
  /\ pc = "call" => calls <= MaxTries * (index - 1) + retry
  /\ pc = "compile" => calls <= MaxTries * (index - 1) + retry + 1
  /\ CallBudget

\* While no diagnostic has strayed, the methods to come are still skeletons and
\* a repair is about the current method.
StrayShape ==
  ~strayed =>
    /\ Working => \A j \in 1..Len(Methods) :
         (j > index \/ (j = index /\ (pc = "method" \/ (pc = "call" /\ retry = 0))))
           => file[Methods[j]] = SkeletonBlock
    /\ pc = "call" /\ retry > 0 => original = [u \in {Current} |-> file[Current]]
    /\ end # "patch"

SynthesisInv ==
  TypeOK /\ LoopShape /\ CleanShape /\ MarkShape /\ ShippedShape /\ CallShape /\ StrayShape

-----------------------------------------------------------------------------
\* The methods are distinct units, none of them the header.
LEMMA Units ==
  /\ Len(Methods) \in Nat \ {0}
  /\ \A j \in 1..Len(Methods) : Methods[j] \in Unit /\ Methods[j] # Header
  /\ \A i, j \in 1..Len(Methods) : Methods[i] = Methods[j] => i = j
  /\ \A u \in Unit : u = Header \/ \E j \in 1..Len(Methods) : u = Methods[j]
<1>1. Methods \in Seq(Method) /\ Methods # <<>> /\ Header \notin Method
  BY SynthesisAssumption DEF SynthesisAssumption
<1>2. Len(Methods) \in Nat \ {0} /\ DOMAIN Methods = 1..Len(Methods)
  BY <1>1
<1>3. \A j \in 1..Len(Methods) : Methods[j] \in Method
  BY <1>1, <1>2
<1>4. \A i, j \in 1..Len(Methods) : Methods[i] = Methods[j] => i = j
  BY <1>2, SynthesisAssumption DEF SynthesisAssumption, IsInjective
<1>5. \A u \in Method : \E j \in 1..Len(Methods) : u = Methods[j]
  BY <1>2 DEF Method, Range
<1> QED
  BY <1>1, <1>2, <1>3, <1>4, <1>5 DEF Unit

LEMMA Blocks ==
  /\ SkeletonBlock \in Block /\ HeaderBlock \in Block /\ Skeleton \in Source
  /\ SkeletonBlock.marked = TRUE /\ SkeletonBlock.clean = TRUE
  /\ HeaderBlock.marked = FALSE /\ HeaderBlock.clean = TRUE
<1>1. SkeletonBlock \in Block /\ HeaderBlock \in Block
  BY DEF SkeletonBlock, HeaderBlock, Block
<1> QED
  BY <1>1 DEF Skeleton, Source, SkeletonBlock, HeaderBlock

\* A text that covers one unit is an excerpt.
LEMMA OneUnit ==
  ASSUME NEW u \in Unit, NEW b \in Block PROVE [v \in {u} |-> b] \in Excerpt
<1>1. [v \in {u} |-> b] \in [{u} -> Block]
  OBVIOUS
<1> QED
  BY <1>1 DEF Excerpt

\* What a patch leaves: an answer where the original was, the rest as before.
LEMMA PatchEffect ==
  ASSUME TypeOK, Working, file # NoFile, Patch
  PROVE  /\ file' \in Source /\ Patchable
         /\ \A u \in Unit : IF u \in DOMAIN original
                           THEN file'[u].marked => retry > 0 /\ file[u].marked
                           ELSE file'[u] = file[u]
<1>1. PICK a \in [DOMAIN original -> Block] :
        /\ Answers(a)
        /\ file' = [u \in Unit |-> IF u \in DOMAIN original THEN a[u] ELSE file[u]]
  BY DEF Patch
<1>2. file \in Source
  BY DEF TypeOK
<1>3. file' \in Source
  BY <1>1, <1>2 DEF Source
<1>4. Patchable
  BY DEF Patch
<1> QED
  BY <1>1, <1>3, <1>4 DEF Answers, Patchable

LEMMA TypeStep == TypeOK /\ LoopShape /\ [Next]_vars => TypeOK'
<1> SUFFICES ASSUME TypeOK, LoopShape, [Next]_vars PROVE TypeOK'
  OBVIOUS
<1> USE SynthesisAssumption DEF SynthesisAssumption
<1>0. /\ Len(Methods) \in Nat \ {0} /\ Skeleton \in Source /\ SkeletonBlock \in Block
      /\ \A j \in 1..Len(Methods) : Methods[j] \in Unit
  BY Units, Blocks
<1>1. CASE ParseSpec
  BY <1>0, <1>1 DEF ParseSpec, TypeOK
<1>2. CASE SkipSynthesis
  BY <1>0, <1>2 DEF SkipSynthesis, Stop, TypeOK, Ends
<1>3. CASE StartMethod
  <2>1. Current \in Unit
    BY <1>0, <1>3 DEF StartMethod, TypeOK, Current
  <2>2. original' \in Excerpt
    BY <1>0, <1>3, <2>1, OneUnit DEF StartMethod
  <2> QED
    BY <1>3, <2>2 DEF StartMethod, TypeOK
<1>4. CASE FilesMissing \/ PromptMissing
  BY <1>4 DEF FilesMissing, PromptMissing, Stop, loop, TypeOK, Ends
<1>5. CASE AllSynthesized
  BY <1>5 DEF AllSynthesized, Stop, loop, TypeOK, Ends
<1>6. CASE ModelFails \/ PatchMisses
  BY <1>6 DEF ModelFails, PatchMisses, Asks, Stop, loop, TypeOK, Ends
<1>7. CASE Patch
  <2>1. file' \in Source
    BY <1>7, PatchEffect DEF LoopShape, Working, Patch, Asks
  <2> QED
    BY <1>7, <2>1 DEF Patch, Asks, loop, TypeOK
<1>8. CASE Accepted
  <2>1. index' \in 1..Len(Methods) + 1
    BY <1>0, <1>8 DEF Accepted, LoopShape, TypeOK
  <2> QED
    BY <1>8, <2>1 DEF Accepted, Aged, TypeOK
<1>9. ASSUME CountAttempt, pc = "compile"
      PROVE  /\ retry' \in 0..MaxTries /\ pc' \in {"call", "ended"}
             /\ end' \in Ends \cup {"running"}
  BY <1>9 DEF CountAttempt, Stop, LoopShape, TypeOK, Ends
<1>10. CASE Diagnosed
  <2>1. file \in Source
    BY <1>10 DEF Diagnosed, LoopShape, Working, TypeOK
  <2>2. original' \in Excerpt
    BY <1>10, <2>1 DEF Diagnosed, Excerpt
  <2>3. strayed' \in BOOLEAN
    BY <1>10 DEF Diagnosed, TypeOK
  <2> QED
    BY <1>9, <1>10, <2>2, <2>3 DEF Diagnosed, TypeOK
<1>11. CASE NotParsed
  BY <1>9, <1>11 DEF NotParsed, Aged, TypeOK
<1>12. CASE Killed
  BY <1>12 DEF Killed, Stop, loop, TypeOK, Ends
<1>13. CASE Rerun
  <2>1. strayed' \in BOOLEAN
    BY Zenon, <1>13 DEF Rerun
  <2> QED
    BY <1>13, <2>1 DEF Rerun, Aged, TypeOK
<1>14. CASE UNCHANGED vars
  BY <1>14 DEF vars, loop, TypeOK
<1> QED
  BY <1>1, <1>2, <1>3, <1>4, <1>5, <1>6, <1>7, <1>8, <1>10, <1>11, <1>12, <1>13, <1>14
     DEF Next, Step

LEMMA LoopStep == TypeOK /\ LoopShape /\ [Next]_vars => LoopShape'
<1> SUFFICES ASSUME TypeOK, LoopShape, [Next]_vars PROVE LoopShape'
  OBVIOUS
<1>0. NoFile \notin Source /\ Skeleton \in Source /\ MaxTries \in Nat \ {0}
  BY Blocks, SynthesisAssumption DEF SynthesisAssumption
<1> USE DEF Working
<1>1. CASE ParseSpec
  BY <1>0, <1>1 DEF ParseSpec, LoopShape
<1>2. CASE SkipSynthesis
  BY <1>2 DEF SkipSynthesis, NeedsSkeleton, Stop, LoopShape
<1>3. CASE StartMethod
  BY <1>0, <1>3 DEF StartMethod, LoopShape, Current
<1>4. CASE FilesMissing \/ PromptMissing \/ AllSynthesized
  BY <1>4 DEF FilesMissing, PromptMissing, AllSynthesized, Stop, loop, LoopShape
<1>5. CASE ModelFails \/ PatchMisses
  BY <1>5 DEF ModelFails, PatchMisses, Asks, Stop, loop, LoopShape
<1>6. CASE Patch
  <2>1. pc = "call" /\ file' \in Source
    BY <1>6, PatchEffect DEF LoopShape, Patch, Asks
  <2> QED
    BY <1>0, <1>6, <2>1 DEF Patch, loop, LoopShape
<1>7. CASE Accepted
  BY <1>7 DEF Accepted, LoopShape
<1>8. CASE Diagnosed \/ NotParsed
  <2>1. /\ pc = "compile" /\ UNCHANGED <<file, index>> /\ retry' = retry + 1
        /\ \/ pc' = "call" /\ retry' < MaxTries /\ end' = end
           \/ pc' = "ended" /\ end' = "tries"
    BY <1>8 DEF Diagnosed, NotParsed, CountAttempt, Stop
  <2> QED
    BY <2>1 DEF LoopShape, TypeOK
<1>9. CASE Killed
  BY <1>9 DEF Killed, Stop, loop, LoopShape
<1>10. CASE Rerun
  BY <1>10 DEF Rerun, LoopShape
<1>11. CASE UNCHANGED vars
  BY <1>11 DEF vars, loop, LoopShape, Current
<1> QED
  BY <1>1, <1>2, <1>3, <1>4, <1>5, <1>6, <1>7, <1>8, <1>9, <1>10, <1>11
     DEF Next, Step

\* The file compiles between two methods.
LEMMA CleanStep == TypeOK /\ LoopShape /\ CleanShape /\ [Next]_vars => CleanShape'
<1> SUFFICES ASSUME TypeOK, LoopShape, CleanShape, [Next]_vars PROVE CleanShape'
  OBVIOUS
<1>1. CASE ParseSpec
  <2>1. Compiles(Skeleton)
    BY Blocks DEF Compiles, Skeleton
  <2> QED
    BY <1>1, <2>1 DEF ParseSpec, CleanShape, LoopShape
<1>2. CASE SkipSynthesis
  BY <1>2 DEF SkipSynthesis, NeedsSkeleton, Stop, CleanShape
<1>3. CASE AllSynthesized
  BY <1>3 DEF AllSynthesized, Stop, CleanShape, LoopShape, Working, Compiles, loop
<1>4. CASE Accepted
  BY <1>4 DEF Accepted, CleanShape, Compiles, LoopShape, Working
<1>5. CASE ~(ParseSpec \/ SkipSynthesis \/ AllSynthesized \/ Accepted)
  <2>1. pc' # "method" \/ UNCHANGED <<pc, file>>
    BY <1>5 DEF Next, Step, StartMethod, FilesMissing, PromptMissing, ModelFails,
       Patch, PatchMisses, Diagnosed, NotParsed, CountAttempt, Killed, Rerun, Stop, vars
  <2>2. end' # "success" \/ UNCHANGED <<end, file>>
    BY <1>5 DEF Next, Step, StartMethod, FilesMissing, PromptMissing, ModelFails,
       Patch, PatchMisses, Asks, Diagnosed, NotParsed, CountAttempt, Killed, Rerun,
       Stop, vars, LoopShape, Working
  <2> QED
    BY <2>1, <2>2 DEF CleanShape, Compiles
<1> QED
  BY <1>1, <1>2, <1>3, <1>4, <1>5

\* No unit that has been synthesized gets a marker back.
LEMMA MarkStep == TypeOK /\ LoopShape /\ MarkShape /\ [Next]_vars => MarkShape'
<1> SUFFICES ASSUME TypeOK, LoopShape, MarkShape, [Next]_vars PROVE MarkShape'
  OBVIOUS
<1>0. /\ Len(Methods) \in Nat \ {0} /\ Header \in Unit
      /\ \A j \in 1..Len(Methods) : Methods[j] \in Unit
      /\ \A u \in Unit : u = Header \/ \E j \in 1..Len(Methods) : u = Methods[j]
  BY Units DEF Unit
<1>a. index \in 1..Len(Methods) + 1
  BY DEF TypeOK
<1>1. CASE ParseSpec
  <2>1. Replaced' = {Header}
    BY <1>1 DEF ParseSpec, Replaced
  <2>2. ~Skeleton[Header].marked
    BY <1>0, Blocks DEF Skeleton
  <2>3. end' # "success"
    BY <1>1 DEF ParseSpec, LoopShape
  <2> QED
    BY <1>1, <2>1, <2>2, <2>3 DEF ParseSpec, MarkShape
<1>2. CASE SkipSynthesis
  BY <1>2 DEF SkipSynthesis, NeedsSkeleton, Stop, MarkShape, Working
<1>3. CASE StartMethod
  <2>1. Replaced' \subseteq Replaced /\ Working
    BY <1>3 DEF StartMethod, Replaced, Working
  <2> QED
    BY <1>3, <2>1 DEF StartMethod, MarkShape, LoopShape
<1>4. CASE AllSynthesized
  <2>1. Working /\ index = Len(Methods) + 1
    BY <1>a, <1>0, <1>4 DEF AllSynthesized, Working
  <2>2. Unit \subseteq Replaced
    BY <1>0, <2>1 DEF Replaced
  <2> QED
    BY <1>4, <2>1, <2>2 DEF AllSynthesized, Stop, MarkShape, Marked, Working
<1>5. CASE FilesMissing \/ PromptMissing \/ ModelFails \/ PatchMisses \/ Killed
  <2>1. pc' = "ended" /\ end' # "success"
    BY <1>5 DEF FilesMissing, PromptMissing, ModelFails, PatchMisses, Killed, Stop
  <2> QED
    BY <2>1 DEF MarkShape, Working
<1>6. CASE Patch
  <2>1. pc = "call" /\ pc' = "compile" /\ Working /\ end' # "success" /\ UNCHANGED <<index, retry>>
    BY <1>6 DEF Patch, Asks, Working, LoopShape, loop
  <2>2. \A u \in Unit : IF u \in DOMAIN original
                       THEN file'[u].marked => retry > 0 /\ file[u].marked
                       ELSE file'[u] = file[u]
    BY <1>6, <2>1, PatchEffect DEF LoopShape
  <2>3. Replaced' = Replaced \cup {Current} /\ Replaced' \subseteq Unit
    BY <1>0, <1>a, <2>1 DEF Replaced, Current, LoopShape
  <2>4. ~file'[Current].marked
    <3>1. CASE retry = 0
      BY <2>1, <2>2, <2>3, <3>1 DEF LoopShape
    <3>2. CASE retry > 0
      BY <2>1, <2>2, <2>3, <3>2 DEF MarkShape, Replaced
    <3> QED
      BY <3>1, <3>2 DEF TypeOK
  <2>5. \A u \in Replaced : ~file'[u].marked
    BY <2>1, <2>2, <2>3 DEF MarkShape
  <2> QED
    BY <2>1, <2>3, <2>4, <2>5 DEF MarkShape
<1>7. CASE Accepted
  <2>1. Working /\ Replaced' \subseteq Replaced
    BY <1>0, <1>a, <1>7 DEF Accepted, Replaced, Current, Working
  <2> QED
    BY <1>7, <2>1 DEF Accepted, MarkShape, LoopShape
<1>8. CASE Diagnosed \/ NotParsed
  <2>1. /\ pc = "compile" /\ pc' \in {"call", "ended"} /\ UNCHANGED <<file, index>>
        /\ end' # "success"
    BY <1>8 DEF Diagnosed, NotParsed, CountAttempt, Stop, LoopShape, Working
  <2>2. Replaced' \subseteq Replaced /\ Working
    BY <2>1 DEF Replaced, Current, Working
  <2> QED
    BY <2>1, <2>2 DEF MarkShape
<1>9. CASE Rerun
  BY <1>9 DEF Rerun, MarkShape, Working
<1>10. CASE UNCHANGED vars
  BY <1>10 DEF vars, loop, MarkShape, Working, Replaced, Current, Marked
<1> QED
  BY <1>1, <1>2, <1>3, <1>4, <1>5, <1>6, <1>7, <1>8, <1>9, <1>10 DEF Next, Step

\* A shipped file has no marker, so that no later run works on it.
LEMMA ShippedStep ==
  /\ TypeOK /\ LoopShape /\ CleanShape /\ MarkShape /\ ShippedShape /\ [Next]_vars
  /\ CleanShape' /\ MarkShape'
  => ShippedShape'
<1> SUFFICES ASSUME LoopShape, ShippedShape, CleanShape', MarkShape', [Next]_vars
             PROVE  ShippedShape'
  OBVIOUS
<1>1. CASE ParseSpec
  BY <1>1 DEF ParseSpec, NeedsSkeleton, ShippedShape
<1>2. CASE SkipSynthesis
  BY <1>2 DEF SkipSynthesis, Stop, ShippedShape, Compiles, Marked
<1>3. CASE AllSynthesized
  BY <1>3 DEF AllSynthesized, Stop, ShippedShape, CleanShape, MarkShape
<1>4. CASE ~(ParseSpec \/ SkipSynthesis \/ AllSynthesized)
  <2>1. /\ UNCHANGED shipped
        /\ \/ pc \in {"method", "call", "compile"}
           \/ pc' \in {"parse", "ended"} /\ UNCHANGED file
           \/ UNCHANGED <<pc, file>>
    BY <1>4 DEF Next, Step, StartMethod, FilesMissing, PromptMissing, ModelFails,
       Patch, PatchMisses, Asks, Accepted, Diagnosed, NotParsed, Killed, Rerun, Stop, vars
  <2> QED
    BY <2>1 DEF ShippedShape, Compiles, Marked
<1> QED
  BY <1>1, <1>2, <1>3, <1>4

\* Each method pays for at most MaxTries calls.
LEMMA CallStep ==
  TypeOK /\ LoopShape /\ CallShape /\ [Next]_vars /\ TypeOK' => CallShape'
<1> SUFFICES ASSUME TypeOK, LoopShape, CallShape, [Next]_vars, TypeOK' PROVE CallShape'
  OBVIOUS
<1>0. /\ Len(Methods) \in Nat /\ MaxTries \in Nat \ {0} /\ index \in 1..Len(Methods) + 1
      /\ retry \in 0..MaxTries /\ calls \in Nat
  BY Units, SynthesisAssumption DEF SynthesisAssumption, TypeOK
<1>a. \A i \in Nat : MaxTries * i \in Nat /\ MaxTries * (i + 1) = MaxTries * i + MaxTries
  BY <1>0
<1>b. \A i \in 1..Len(Methods) : MaxTries * (i - 1) + MaxTries <= MaxTries * Len(Methods)
  <2> SUFFICES ASSUME NEW i \in 1..Len(Methods)
               PROVE  MaxTries * (i - 1) + MaxTries <= MaxTries * Len(Methods)
    OBVIOUS
  <2>1. MaxTries * (i - 1) + MaxTries = MaxTries * i
    <3>1. i - 1 \in Nat /\ (i - 1) + 1 = i
      OBVIOUS
    <3>2. MaxTries * ((i - 1) + 1) = MaxTries * (i - 1) + MaxTries
      BY <1>a, <3>1
    <3> QED
      BY <3>1, <3>2
  <2>2. /\ i \in Nat /\ Len(Methods) - i \in Nat
        /\ MaxTries * Len(Methods) = MaxTries * i + MaxTries * (Len(Methods) - i)
    BY <1>0
  <2>3. MaxTries * (Len(Methods) - i) \in Nat /\ MaxTries * i \in Nat
    BY <1>0, <2>2
  <2> QED
    BY <2>1, <2>2, <2>3
<1>1. CASE ParseSpec \/ SkipSynthesis
  <2>1. calls' = 0 /\ pc' \in {"method", "ended"}
    BY <1>1 DEF ParseSpec, SkipSynthesis, Stop, CallShape
  <2>0. index' \in 1..Len(Methods) + 1
    BY DEF TypeOK
  <2>1a. \A n \in Nat : \A k \in 1..n + 1 : k - 1 \in Nat
    OBVIOUS
  <2>2. index' - 1 \in Nat /\ Len(Methods) \in Nat
    BY <1>0, <2>0, <2>1a
  <2>3. MaxTries * (index' - 1) \in Nat /\ MaxTries * Len(Methods) \in Nat
    BY <1>a, <2>2
  <2> QED
    BY <2>1, <2>3 DEF CallShape, CallBudget
<1>2. CASE StartMethod
  BY <1>0, <1>2 DEF StartMethod, CallShape, CallBudget
<1>3. CASE FilesMissing \/ PromptMissing \/ AllSynthesized \/ Killed
  BY <1>3 DEF FilesMissing, PromptMissing, AllSynthesized, Killed, Stop, CallShape, CallBudget
<1>4. CASE ModelFails \/ PatchMisses \/ Patch
  <2>1. /\ pc = "call" /\ calls' = calls + 1 /\ pc' \in {"ended", "compile"}
        /\ UNCHANGED <<index, retry>>
    BY <1>4 DEF ModelFails, PatchMisses, Patch, Asks, Stop, loop
  <2>2. index \in 1..Len(Methods) /\ index - 1 \in Nat /\ retry < MaxTries
    BY <1>0, <2>1 DEF LoopShape
  <2>3. calls + 1 <= MaxTries * (index - 1) + retry + 1
    BY <1>0, <2>1, <1>a DEF CallShape
  <2>4. MaxTries * (index - 1) \in Nat
    BY <1>a, <2>2
  <2>5. calls + 1 <= MaxTries * Len(Methods)
    BY <1>0, <1>b, <2>2, <2>3, <2>4
  <2> QED
    BY <1>0, <2>1, <2>3, <2>5 DEF CallShape, CallBudget
<1>5. CASE Accepted
  <2>1. pc = "compile" /\ pc' = "method" /\ index' = index + 1 /\ UNCHANGED calls
    BY <1>5 DEF Accepted
  <2>2. index \in Nat /\ index - 1 \in Nat /\ retry < MaxTries
    BY <1>0, <2>1 DEF LoopShape
  <2>3. MaxTries * (index' - 1) = MaxTries * (index - 1) + MaxTries
    BY <1>0, <1>a, <2>1, <2>2
  <2>4. MaxTries * (index - 1) \in Nat
    BY <1>a, <2>2
  <2> QED
    BY <1>0, <2>1, <2>2, <2>3, <2>4 DEF CallShape, CallBudget
<1>6. CASE Diagnosed \/ NotParsed
  <2>1. /\ pc = "compile" /\ pc' \in {"call", "ended"} /\ retry' = retry + 1
        /\ UNCHANGED <<index, calls>>
    BY <1>6 DEF Diagnosed, NotParsed, CountAttempt, Stop
  <2>2. index - 1 \in Nat
    BY <1>0
  <2>3. MaxTries * (index - 1) \in Nat
    BY <1>a, <2>2
  <2> QED
    BY <1>0, <2>1, <2>3 DEF CallShape, CallBudget
<1>7. CASE Rerun
  <2>1. pc' = "parse" /\ calls' = 0 /\ MaxTries * Len(Methods) \in Nat
    BY <1>0, <1>a, <1>7 DEF Rerun
  <2> QED
    BY <2>1 DEF CallShape, CallBudget
<1>8. CASE UNCHANGED vars
  BY <1>8 DEF vars, loop, CallShape, CallBudget
<1> QED
  BY <1>1, <1>2, <1>3, <1>4, <1>5, <1>6, <1>7, <1>8 DEF Next, Step

\* Without a stray diagnostic every patch finds its text.
LEMMA StrayStep ==
  TypeOK /\ LoopShape /\ StrayShape /\ [Next]_vars /\ LoopShape' => StrayShape'
<1> SUFFICES ASSUME TypeOK, LoopShape, StrayShape, [Next]_vars, LoopShape', ~strayed'
             PROVE  StrayShape'
  BY DEF StrayShape
<1>0. /\ Len(Methods) \in Nat \ {0} /\ index \in 1..Len(Methods) + 1 /\ retry \in Nat
      /\ \A j \in 1..Len(Methods) : Methods[j] \in Unit /\ Methods[j] # Header
      /\ \A i, j \in 1..Len(Methods) : Methods[i] = Methods[j] => i = j
  BY Units, SynthesisAssumption DEF TypeOK, SynthesisAssumption
<1> USE DEF Working
<1>1. CASE ParseSpec
  <2>1. \A j \in 1..Len(Methods) : Skeleton[Methods[j]] = SkeletonBlock
    BY <1>0 DEF Skeleton
  <2>2. end' = "running"
    BY <1>1 DEF ParseSpec, LoopShape
  <2> QED
    BY <1>1, <2>1, <2>2 DEF ParseSpec, StrayShape
<1>2. CASE SkipSynthesis
  BY <1>2 DEF SkipSynthesis, NeedsSkeleton, Stop, StrayShape
<1>3. CASE StartMethod
  BY <1>0, <1>3 DEF StartMethod, StrayShape, LoopShape
<1>4. CASE FilesMissing \/ PromptMissing \/ AllSynthesized \/ ModelFails \/ Killed
  BY <1>4 DEF FilesMissing, PromptMissing, AllSynthesized, ModelFails, Killed, Stop, StrayShape
<1>5. CASE PatchMisses
  <2>1. pc = "call" /\ ~Patchable /\ ~strayed /\ index \in 1..Len(Methods)
    BY <1>0, <1>5 DEF PatchMisses, Asks, LoopShape
  <2>2. CASE retry = 0
    <3>1. original = [u \in {Current} |-> SkeletonBlock]
      BY <2>1, <2>2 DEF LoopShape
    <3>2. file[Current] = SkeletonBlock
      BY <2>1, <2>2 DEF StrayShape, Current
    <3> QED
      BY <2>1, <3>1, <3>2 DEF Patchable
  <2>3. CASE retry > 0
    <3>1. original = [u \in {Current} |-> file[Current]]
      BY <2>1, <2>3 DEF StrayShape
    <3> QED
      BY <2>1, <3>1 DEF Patchable
  <2> QED
    BY <1>0, <2>2, <2>3
<1>6. CASE Patch
  <2>1. /\ pc = "call" /\ pc' = "compile" /\ ~strayed /\ index \in 1..Len(Methods)
        /\ UNCHANGED <<index, retry, end>> /\ file # NoFile
    BY <1>0, <1>6 DEF Patch, Asks, LoopShape, loop
  <2>2. DOMAIN original = {Current}
    BY <1>0, <2>1 DEF LoopShape, StrayShape
  <2>3. \A u \in Unit : u # Current => file'[u] = file[u]
    BY <1>6, <2>1, <2>2, PatchEffect
  <2>4. \A j \in 1..Len(Methods) : j > index => file'[Methods[j]] = SkeletonBlock
    BY <1>0, <2>1, <2>3 DEF StrayShape, Current
  <2> QED
    BY <2>1, <2>4 DEF StrayShape, LoopShape
<1>7. CASE Accepted
  BY <1>0, <1>7 DEF Accepted, StrayShape, LoopShape
<1>8. CASE Diagnosed \/ NotParsed
  <2>1. /\ pc = "compile" /\ ~strayed /\ original' = [u \in {Current} |-> file[Current]]
        /\ UNCHANGED <<file, index>> /\ retry' = retry + 1
        /\ pc' \in {"call", "ended"} /\ end' # "patch"
    BY <1>8 DEF Diagnosed, NotParsed, CountAttempt, Stop, LoopShape
  <2> QED
    BY <1>0, <2>1 DEF StrayShape, Current
<1>9. CASE Rerun
  BY <1>9 DEF Rerun, StrayShape
<1>10. CASE UNCHANGED vars
  BY <1>10 DEF vars, loop, StrayShape, Current
<1> QED
  BY <1>1, <1>2, <1>3, <1>4, <1>5, <1>6, <1>7, <1>8, <1>9, <1>10 DEF Next, Step

LEMMA SynthesisInit == Init => SynthesisInv
<1> SUFFICES ASSUME Init PROVE SynthesisInv
  OBVIOUS
<1>0. Len(Methods) \in Nat \ {0} /\ MaxTries \in Nat \ {0} /\ MaxRuns \in Nat \ {0}
  BY Units, SynthesisAssumption DEF SynthesisAssumption
<1>1. original \in Excerpt
  BY OneUnit, Blocks DEF Init, Unit
<1>2. strayed \in BOOLEAN
  BY Zenon DEF Init
<1>3. TypeOK
  BY <1>0, <1>1, <1>2 DEF Init, TypeOK
<1>4. MaxTries * Len(Methods) \in Nat
  <2>1. \A a, b \in Nat : a * b \in Nat
    OBVIOUS
  <2> QED
    BY <1>0, <2>1
<1>5. LoopShape /\ CleanShape /\ MarkShape /\ ShippedShape /\ StrayShape
  BY DEF Init, LoopShape, CleanShape, MarkShape, ShippedShape, StrayShape, Working
<1>6. CallShape
  BY <1>4 DEF Init, CallShape, CallBudget
<1> QED
  BY <1>3, <1>5, <1>6 DEF SynthesisInv

LEMMA SynthesisInvariant == Spec => []SynthesisInv
<1>1. SynthesisInv /\ [Next]_vars => SynthesisInv'
  BY TypeStep, LoopStep, CleanStep, MarkStep, ShippedStep, CallStep, StrayStep
     DEF SynthesisInv
<1> QED
  BY SynthesisInit, <1>1, PTL DEF Spec

\* The loop, the source file and the files in .context keep their types.
THEOREM TypeCorrect == Spec => []TypeOK
BY SynthesisInvariant, PTL DEF SynthesisInv

\* A successful run leaves a file that compiles and holds no skeleton.
THEOREM SuccessCorrect == Spec => []SuccessIsComplete
<1>1. SynthesisInv => SuccessIsComplete
  BY DEF SynthesisInv, CleanShape, MarkShape, SuccessIsComplete
<1> QED
  BY <1>1, SynthesisInvariant, PTL

\* A run asks the model at most MaxTries times per method.
THEOREM BudgetKept == Spec => []CallBudget
<1>1. SynthesisInv => CallBudget
  BY DEF SynthesisInv, CallShape
<1> QED
  BY <1>1, SynthesisInvariant, PTL

\* No later run, killed or not, touches a file a run has shipped.
THEOREM ShippedSurvives == Spec => []VerifiedSurvives
<1>1. SynthesisInv => VerifiedSurvives
  BY DEF SynthesisInv, ShippedShape, VerifiedSurvives
<1> QED
  BY <1>1, SynthesisInvariant, PTL

\* A patch misses its text only after a diagnostic that could not be read or
\* led elsewhere.
THEOREM PatchesFindTheirText == Spec => []PatchMissesOnlyAfterStray
<1>1. SynthesisInv => PatchMissesOnlyAfterStray
  BY DEF SynthesisInv, StrayShape, PatchMissesOnlyAfterStray
<1> QED
  BY <1>1, SynthesisInvariant, PTL
=============================================================================
