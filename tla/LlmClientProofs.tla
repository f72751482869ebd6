-------------------------- MODULE LlmClientProofs --------------------------
(***************************************************************************)
(* Machine-checked proofs about LlmClient for every MaxRetries and          *)
(* RetryStep.                                                               *)
(***************************************************************************)
EXTENDS LlmClient, TLAPS

\* Type correctness, with the bound that keeps attempt in its range.
TypeInv == TypeOK /\ (pc = "sleep" => attempt < MaxRetries)

\* TypeInv is inductive: the loop variable only grows after a transient
\* failure that was not the last attempt.
LEMMA TypeInvariant == Spec => []TypeInv
<1> USE RetryAssumption DEF RetryAssumption, TypeInv, TypeOK
<1>1. Init => TypeInv
  <2>1. Init => /\ pc \in {"start", "ask", "sleep", "done"} /\ exitCode \in {0, 1}
                 /\ attempt \in 1..MaxRetries /\ usageLog \in Seq(Reply)
                 /\ waited \in Nat /\ loop \in {"calling", "patching", "aborted"}
                 /\ pc # "sleep"
    BY DEF Init
  <2>2. Init => stdout \in BOOLEAN /\ stderr \in BOOLEAN
    BY Zenon DEF Init
  <2> QED
    BY <2>1, <2>2
<1>2. TypeInv /\ [Next]_vars => TypeInv'
  <2> SUFFICES ASSUME TypeInv, [Next]_vars PROVE TypeInv'
    OBVIOUS
  <2>1. CASE KeyMissing
    BY <2>1 DEF KeyMissing
  <2>2. CASE KeyFound
    BY <2>2 DEF KeyFound
  <2>3. ASSUME NEW r \in Reply, TransientFailure(r) PROVE TypeInv'
    BY <2>3 DEF TransientFailure, MoreAttempts
  <2>4. ASSUME NEW r \in Reply, PermanentFailure(r) PROVE TypeInv'
    BY <2>4 DEF PermanentFailure
  <2>5. ASSUME NEW r \in Reply, Answer(r) PROVE TypeInv'
    BY <2>5 DEF Answer
  <2>6. CASE Sleep
    BY <2>6 DEF Sleep, Backoff
  <2>7. CASE CallerReturns
    BY <2>7 DEF CallerReturns
  <2>8. CASE UNCHANGED vars
    BY <2>8 DEF vars
  <2> QED
    BY <2>1, <2>2, <2>3, <2>4, <2>5, <2>6, <2>7, <2>8 DEF Next
<1> QED
  BY <1>1, <1>2, PTL DEF Spec

\* The control state, counters and log stay within their types whatever the
\* endpoint replies.
THEOREM TypeCorrect == Spec => []TypeOK
BY TypeInvariant, PTL DEF TypeInv

\* The delays add up to RetryStep * n(n-1)/2 before attempt n, for every number
\* of attempts and every step.
THEOREM DelaysAddUp == Spec => []WaitBudget
<1> USE RetryAssumption DEF RetryAssumption
<1>1. Init => WaitBudget
  BY DEF Init, WaitBudget
<1>2. TypeInv /\ WaitBudget /\ [Next]_vars => WaitBudget'
  <2> SUFFICES ASSUME TypeInv, WaitBudget, [Next]_vars PROVE WaitBudget'
    OBVIOUS
  <2> USE DEF WaitBudget
  <2>1. CASE Sleep
    <3>1. /\ waited' = waited + attempt * RetryStep
          /\ attempt' = attempt + 1
      BY <2>1 DEF Sleep, Backoff
    <3>2. attempt \in Nat /\ waited \in Nat /\ RetryStep \in Nat
      BY DEF TypeInv, TypeOK
    <3> HIDE DEF WaitBudget
    <3>3. 2 * waited = RetryStep * attempt * (attempt - 1)
      BY DEF WaitBudget
    <3>4. 2 * (waited + attempt * RetryStep)
            = RetryStep * (attempt + 1) * ((attempt + 1) - 1)
      BY <3>2, <3>3
    <3> QED
      BY <3>1, <3>4 DEF WaitBudget
  <2>2. CASE ~Sleep
    <3>1. UNCHANGED <<attempt, waited>>
      BY <2>2 DEF Next, KeyMissing, KeyFound, TransientFailure,
                  PermanentFailure, Answer, CallerReturns, vars
    <3> QED
      BY <3>1
  <2> QED
    BY <2>1, <2>2
<1> QED
  BY <1>1, <1>2, TypeInvariant, PTL DEF Spec

-----------------------------------------------------------------------------
(***************************************************************************)
(* The log against the control state: while the client goes on, every      *)
(* reply was transient and was one of the attempts counted; when it is     *)
(* done, the last reply says why.                                          *)
(***************************************************************************)
AllTransient(n) == \A k \in 1..n : usageLog[k] \in Transient
LastIs(S) == usageLog # <<>> /\ usageLog[Len(usageLog)] \in S

LogInv ==
  /\ pc = "start" => usageLog = <<>> /\ attempt = 1
  /\ pc = "ask" => Len(usageLog) = attempt - 1
  /\ pc = "sleep" => Len(usageLog) = attempt
  /\ pc # "done" => AllTransient(Len(usageLog)) /\ ~stdout /\ loop = "calling"
  /\ AllTransient(Len(usageLog) - 1) /\ Len(usageLog) <= MaxRetries
  /\ pc = "done" /\ ~stdout =>
       /\ exitCode = 1
       /\ usageLog = <<>> \/ LastIs(Refused \cup Malformed) \/ Len(usageLog) = MaxRetries
  /\ stdout => LastIs({Success})
  /\ loop = "patching" => stdout

\* A reply more in the log.
LEMMA Logged ==
  ASSUME TypeInv, LogInv, pc = "ask", NEW r \in Reply, usageLog' = Append(usageLog, r)
  PROVE  /\ Len(usageLog) \in Nat
         /\ Len(usageLog') = attempt /\ usageLog' # <<>> /\ usageLog'[Len(usageLog')] = r
         /\ AllTransient(Len(usageLog) - 1)'
         /\ r \in Transient => AllTransient(Len(usageLog))'
<1>1. usageLog \in Seq(Reply) /\ Len(usageLog) = attempt - 1 /\ attempt \in Nat
  BY RetryAssumption DEF TypeInv, TypeOK, LogInv
<1>2. Len(usageLog') = attempt /\ usageLog'[attempt] = r /\ usageLog' # <<>>
  BY <1>1
<1>3. \A k \in 1..attempt - 1 : usageLog'[k] = usageLog[k]
  BY <1>1
<1>4. \A k \in 1..attempt - 1 : usageLog'[k] \in Transient
  BY <1>1, <1>3 DEF LogInv, AllTransient
<1> QED
  BY <1>1, <1>2, <1>4 DEF AllTransient

LEMMA LogInvariant == Spec => []LogInv
<1>1. Init => LogInv
  <2>1. Init => Len(usageLog) = 0 /\ usageLog = <<>> /\ attempt = 1 /\ pc = "start"
                 /\ loop = "calling"
    BY DEF Init
  <2>2. Init => stdout = FALSE
    BY DEF Init
  <2> QED
    BY <2>1, <2>2, RetryAssumption DEF LogInv, AllTransient
<1>2. TypeInv /\ LogInv /\ [Next]_vars => LogInv'
  <2> SUFFICES ASSUME TypeInv, LogInv, [Next]_vars PROVE LogInv'
    OBVIOUS
  <2>0. attempt \in 1..MaxRetries /\ MaxRetries \in Nat /\ (pc = "sleep" => attempt < MaxRetries)
    BY RetryAssumption DEF TypeInv, TypeOK
  <2>1. CASE KeyMissing
    BY <2>1 DEF KeyMissing, LogInv, AllTransient, LastIs
  <2>2. CASE KeyFound
    BY <2>2 DEF KeyFound, LogInv, AllTransient, LastIs
  <2>3. ASSUME NEW r \in Reply, TransientFailure(r) PROVE LogInv'
    <3>1. pc = "ask" /\ r \in Transient /\ usageLog' = Append(usageLog, r)
          /\ UNCHANGED <<attempt, stdout, loop>>
      BY <2>3 DEF TransientFailure
    <3>2. /\ Len(usageLog') = attempt /\ usageLog' # <<>>
          /\ AllTransient(Len(usageLog) - 1)' /\ AllTransient(Len(usageLog))'
      BY <3>1, Logged
    <3>3. ~stdout /\ loop = "calling"
      BY <3>1 DEF LogInv
    <3>4. \/ pc' = "sleep"
          \/ pc' = "done" /\ exitCode' = 1 /\ attempt = MaxRetries
      BY <2>0, <2>3 DEF TransientFailure, MoreAttempts
    <3> QED
      BY <2>0, <3>1, <3>2, <3>3, <3>4 DEF LogInv
  <2>4. ASSUME NEW r \in Reply, PermanentFailure(r) PROVE LogInv'
    <3>1. pc = "ask" /\ r \in Refused \cup Malformed /\ usageLog' = Append(usageLog, r)
          /\ UNCHANGED <<attempt, stdout, loop>> /\ pc' = "done" /\ exitCode' = 1
      BY <2>4 DEF PermanentFailure
    <3>2. /\ Len(usageLog') = attempt /\ usageLog' # <<>> /\ usageLog'[Len(usageLog')] = r
          /\ AllTransient(Len(usageLog) - 1)'
      BY <3>1, Logged
    <3>3. ~stdout /\ loop = "calling"
      BY <3>1 DEF LogInv
    <3> QED
      BY <2>0, <3>1, <3>2, <3>3 DEF LogInv, LastIs
  <2>5. ASSUME NEW r \in Reply, Answer(r) PROVE LogInv'
    <3>1. pc = "ask" /\ r = Success /\ usageLog' = Append(usageLog, r)
          /\ UNCHANGED <<attempt, loop>> /\ pc' = "done" /\ stdout'
      BY <2>5 DEF Answer
    <3>2. /\ Len(usageLog') = attempt /\ usageLog' # <<>> /\ usageLog'[Len(usageLog')] = r
          /\ AllTransient(Len(usageLog) - 1)'
      BY <3>1, Logged
    <3> QED
      BY <2>0, <3>1, <3>2 DEF LogInv, LastIs
  <2>6. CASE Sleep
    <3>1. pc = "sleep" /\ pc' = "ask" /\ attempt' = attempt + 1
          /\ UNCHANGED <<usageLog, stdout, exitCode, loop>>
      BY <2>6 DEF Sleep
    <3>2. Len(usageLog) = attempt /\ AllTransient(Len(usageLog)) /\ ~stdout /\ loop = "calling"
      BY <3>1 DEF LogInv
    <3> QED
      BY <2>0, <3>1, <3>2 DEF LogInv, AllTransient
  <2>7. CASE CallerReturns
    BY <2>7 DEF CallerReturns, ExecFails, LogInv, AllTransient, LastIs
  <2>8. CASE UNCHANGED vars
    BY <2>8 DEF vars, LogInv, AllTransient, LastIs
  <2> QED
    BY <2>1, <2>2, <2>3, <2>4, <2>5, <2>6, <2>7, <2>8 DEF Next
<1> QED
  BY <1>1, <1>2, TypeInvariant, PTL DEF Spec

\* However the endpoint replies, it is asked again only after a reply that a
\* repetition can change, and never more often than MaxRetries times.
THEOREM RetriesAreTransient == Spec => []AsksAgainOnlyAfterTransient
<1>1. TypeInv /\ LogInv => AsksAgainOnlyAfterTransient
  <2> SUFFICES ASSUME TypeInv, LogInv PROVE AsksAgainOnlyAfterTransient
    OBVIOUS
  <2>1. Len(usageLog) \in Nat
    BY DEF TypeInv, TypeOK
  <2>2. ASSUME NEW k \in 1..Len(usageLog), k < Len(usageLog) \/ pc = "sleep"
        PROVE  usageLog[k] \in Transient
    BY <2>1, <2>2 DEF LogInv, AllTransient
  <2> QED
    BY <2>2 DEF LogInv, AsksAgainOnlyAfterTransient
<1> QED
  BY <1>1, TypeInvariant, LogInvariant, PTL

\* A file is patched only with the completion that was the last reply.
THEOREM PatchesAreCompletions == Spec => []PatchesOnlyCompletions
<1>1. LogInv => PatchesOnlyCompletions
  BY DEF LogInv, LastIs, PatchesOnlyCompletions
<1> QED
  BY <1>1, LogInvariant, PTL

\* The loop gives up without an answer only when no repetition would help.
THEOREM GivesUpForAReason == Spec => []GivesUpOnlyWhenDone
<1>1. LogInv => GivesUpOnlyWhenDone
  BY DEF LogInv, LastIs, GivesUpOnlyWhenDone
<1> QED
  BY <1>1, LogInvariant, PTL
=============================================================================
