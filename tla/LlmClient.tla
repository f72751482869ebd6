----------------------------- MODULE LlmClient -----------------------------
(***************************************************************************)
(* The model client: one run of bin/llm.go as the synthesis loop sees it.  *)
(* fetchCompletion asks the remote endpoint up to MaxRetries times and     *)
(* sleeps a growing delay after each transient failure; main turns the     *)
(* result into an exit code, standard output and standard error; the Tcl   *)
(* loop that started the process with `catch {exec bin/llm ...}` reads all  *)
(* three.  The prompt and the answer are not told apart here: what matters *)
(* is which reply came when, and what the caller makes of it.              *)
(***************************************************************************)
EXTENDS Naturals, Sequences

CONSTANTS MaxRetries,   \* attempts of one call (5 in the source)
          RetryStep     \* seconds of delay per attempt already made (5)

ASSUME RetryAssumption == MaxRetries \in Nat \ {0} /\ RetryStep \in Nat

VARIABLES
  pc,         \* "start", "ask", "sleep" or "done"
  attempt,    \* the loop variable of fetchCompletion
  usageLog,   \* replies in the order logLLMCall recorded them
  waited,     \* seconds slept between attempts
  stdout,     \* TRUE once the completion has been printed
  stderr,     \* TRUE once anything has been written to standard error
  exitCode,   \* of the llm process, meaningful once pc = "done"
  loop        \* the caller: "calling", "patching" or "aborted"

vars == <<pc, attempt, usageLog, waited, stdout, stderr, exitCode, loop>>

-----------------------------------------------------------------------------
(* Replies of the endpoint, by what fetchCompletion does with them.        *)

\* Retried: a transport error, a body that breaks off, any other non-200 status.
Transient == {"request_failed", "read_failed", "http_other"}
\* Not retried: the statuses no repetition can change.
Refused == {"http_400", "http_401"}
\* Not retried: a 200 whose body is not a completion.
Malformed == {"bad_json", "no_choices"}
Success == "success"
Reply == Transient \cup Refused \cup Malformed \cup {Success}

Init ==
  /\ pc = "start" /\ attempt = 1 /\ usageLog = <<>> /\ waited = 0
  /\ stdout = FALSE /\ stderr = FALSE /\ exitCode = 0 /\ loop = "calling"

\* main: without DEEPSEEK_API_KEY in the environment or ~/.env, exit 1.
KeyMissing ==
  /\ pc = "start"
  /\ pc' = "done" /\ stderr' = TRUE /\ exitCode' = 1
  /\ UNCHANGED <<attempt, usageLog, waited, stdout, loop>>

KeyFound ==
  /\ pc = "start" /\ pc' = "ask"
  /\ UNCHANGED <<attempt, usageLog, waited, stdout, stderr, exitCode, loop>>

\* (Mutants of MoreAttempts: the bound is off by one, either way.)
MoreAttemptsOneTooMany == attempt <= MaxRetries
MoreAttemptsOneTooFew == attempt + 1 < MaxRetries
MoreAttempts == attempt < MaxRetries

\* A transient failure warns on standard error and, unless it was the last
\* attempt, sleeps before the next one; after the last attempt main reports
\* "failed after ... attempts" and exits 1.
TransientFailure(r) ==
  /\ pc = "ask" /\ r \in Transient
  /\ usageLog' = Append(usageLog, r)
  /\ stderr' = TRUE
  /\ IF MoreAttempts THEN pc' = "sleep" /\ UNCHANGED exitCode
                     ELSE pc' = "done" /\ exitCode' = 1
  /\ UNCHANGED <<attempt, waited, stdout, loop>>

\* (Mutant: the delay is computed from a 0-based attempt counter.)
BackoffFromZero(n) == (n - 1) * RetryStep
Backoff(n) == n * RetryStep

Sleep ==
  /\ pc = "sleep"
  /\ waited' = waited + Backoff(attempt)
  /\ attempt' = attempt + 1
  /\ pc' = "ask"
  /\ UNCHANGED <<usageLog, stdout, stderr, exitCode, loop>>

\* (Mutant: every status but 200 is retried, 401 and 400 included.)
PermanentFailureRetried(r) ==
  /\ pc = "ask" /\ r \in Refused \cup Malformed
  /\ usageLog' = Append(usageLog, r)
  /\ stderr' = TRUE
  /\ IF MoreAttempts THEN pc' = "sleep" /\ UNCHANGED exitCode
                     ELSE pc' = "done" /\ exitCode' = 1
  /\ UNCHANGED <<attempt, waited, stdout, loop>>

\* 401, 400 and undecodable completions end the call at once.
PermanentFailure(r) ==
  /\ pc = "ask" /\ r \in Refused \cup Malformed
  /\ usageLog' = Append(usageLog, r)
  /\ stderr' = TRUE /\ exitCode' = 1 /\ pc' = "done"
  /\ UNCHANGED <<attempt, waited, stdout, loop>>

Answer(r) ==
  /\ pc = "ask" /\ r = Success
  /\ usageLog' = Append(usageLog, r)
  /\ stdout' = TRUE /\ exitCode' = 0 /\ pc' = "done"
  /\ UNCHANGED <<attempt, waited, stderr, loop>>

\* Tcl's exec raises an error for a non-zero exit, and also whenever the
\* child wrote to a standard error that was neither redirected nor ignored.
\* (Mutant: the caller does not look at the status of exec.)
ExecFailsIgnored == FALSE
ExecFails == exitCode # 0 \/ stderr

\* (Mutant: only a call that printed a completion returns to the caller.)
CallerReturnsIfAnswered ==
  /\ pc = "done" /\ loop = "calling" /\ stdout
  /\ loop' = IF ExecFails THEN "aborted" ELSE "patching"
  /\ UNCHANGED <<pc, attempt, usageLog, waited, stdout, stderr, exitCode>>

\* The caller: `if {$modelStatus != 0} { ...; exit 1 }`, else it patches.
CallerReturns ==
  /\ pc = "done" /\ loop = "calling"
  /\ loop' = IF ExecFails THEN "aborted" ELSE "patching"
  /\ UNCHANGED <<pc, attempt, usageLog, waited, stdout, stderr, exitCode>>

Next ==
  \/ KeyMissing \/ KeyFound
  \/ \E r \in Reply : TransientFailure(r) \/ PermanentFailure(r) \/ Answer(r)
  \/ Sleep
  \/ CallerReturns

Spec == Init /\ [][Next]_vars

\* The client's HTTP timeout (90 s) and finite sleeps make every step happen.
FairSpec == Spec /\ WF_vars(Next)

-----------------------------------------------------------------------------
(* Properties.                                                              *)

\* Type correctness of the client and its caller.
TypeOK ==
  /\ pc \in {"start", "ask", "sleep", "done"}
  /\ attempt \in 1..MaxRetries
  /\ usageLog \in Seq(Reply)
  /\ waited \in Nat
  /\ stdout \in BOOLEAN /\ stderr \in BOOLEAN
  /\ exitCode \in {0, 1}
  /\ loop \in {"calling", "patching", "aborted"}

\* The endpoint is asked again only after a transient reply, and at most
\* MaxRetries times: every reply but the last one in the log is transient, and
\* the log is never longer than the attempts counted (llm.go:169-239).
AsksAgainOnlyAfterTransient ==
  /\ Len(usageLog) <= MaxRetries
  /\ \A k \in 1..Len(usageLog) :
       (k < Len(usageLog) \/ pc = "sleep") => usageLog[k] \in Transient

\* The delays add up: before attempt n the client has slept n(n-1)/2 steps, so
\* a call that uses all five attempts sleeps 50 seconds and never after the
\* last one (llm.go:185-188, 198-201, 216-219).
WaitBudget == 2 * waited = RetryStep * attempt * (attempt - 1)

\* The loop patches a file only with a completion the endpoint gave as the
\* last reply of this call, never with the output of a failed call.
PatchesOnlyCompletions ==
  loop = "patching" =>
    stdout /\ usageLog # <<>> /\ usageLog[Len(usageLog)] = Success

\* A failed call is never mistaken for an answer and an unanswered one is never
\* given up early: the loop aborts for lack of a completion only when the key
\* is missing, the reply was permanent, or all attempts are used up.
GivesUpOnlyWhenDone ==
  (loop = "aborted" /\ ~stdout) =>
    \/ usageLog = <<>>
    \/ usageLog[Len(usageLog)] \in Refused \cup Malformed
    \/ Len(usageLog) = MaxRetries

\* Every call comes back to the loop that made it.
CallReturns == <>(loop # "calling")
=============================================================================
