# TLA+ verification of j9mpl: the factory and the NetJoy interpreter

j9mpl is a software factory. It takes Markdown specifications of classes, has a language
model write the methods in NetRexx, compiles and repairs them in a loop, fuzzes the
class with a generated harness inside a sandbox, and merges what passed into the main
workspace, where it serves as an example for the next class. The largest program of the
repository is an interpreter for the language Joy, written in C
(`examples/languages/netjoy`). This directory holds TLA+ models of the parts of both
with control logic worth checking, their TLC configurations, and proofs checked by
TLAPS.

`PROJECT.json` is the index: components, runs, the source lines behind every definition
(`map`), one mutant per checked property, findings, hazards, theorems.

    tlc -workers 2 -config MCJobQueueSafety.cfg MCJobQueue.tla
    tlc -workers 2 -config MCJoyReader.cfg MCJoyReader.tla
    tlapm JobQueueProofs.tla

---------------------------------------------------------------------------

## 1. Inventory of the system

### How the parts of the factory interact

    spec files ──> bin/job_queue.tcl ──── one job at a time ────┐
                     │  copies the main workspace to jobs/<class>│ exec, pipe
                     │  merges back, re-indexes, accretes        v
                     │                              bin/run_job_pipeline.sh
                     │            1   bin/spec_parser          skeletons, prompts
                     │            3   bin/self_correct_loop.tcl   *Record.nrx, class
                     │            3.5 ContextExtractor -> sqlite3 ledger
                     │            4   bin/run_test_generator.sh   <class>Test.nrx
                     │            5   bin/self_correct_loop.tcl   harness + sandbox
                     v
            bin/accrete_exemplars  ->  exemplars in .context/project_context.db

    self_correct_loop.tcl ──exec──> bin/llm           one completion
                          ──exec──> bin/patch_source  replace a block of the file
                          ──exec──> bin/self_correct  translate, ECJ, diagnose
                          ──exec──> sandbox_exec.sh   run the harness

Almost all interaction is through files: the source under `generated/`, the class in
`bin/`, and under `.context/` the ledger, the list of methods, the skeletons, the repair
prompt and the "errant block", the text the next patch replaces. Exit codes and the
standard error of child processes are the only return values. Processes run concurrently
only between the supervisor and its pipelines.

### Components of the factory

**Job queue supervisor**, `bin/job_queue.tcl`. *State:* queue of specifications, the
array of open pipes and its counter, the exit code; on disk `jobs/<class>`, the main
sources, the ledger, the exemplars. *Operations:* `startNextJob`, `setupWorkspace`,
`cleanupWorkspace`, `handleOutput` (end of file: merge, cleanup, re-index, accretion,
next job). *Hard:* the two procedures call each other recursively inside an event loop;
a workspace is a snapshot merged back whole; most failures are caught and dropped, some
escape; a killed run leaves a workspace behind. *Correct when:* the counter agrees with
the pipes, the exit code is honest, failed jobs leave the main workspace alone, merges
never go backwards, exemplars are verified, later jobs see them, and the supervisor
ends.

**Incremental synthesis loop**, first half of `bin/self_correct_loop.tcl` (l. 69-238)
with `bin/spec_parser.go` (skeletons), `bin/self_correct.go` (compile, diagnose) and
`bin/patch_source.go`. *State:* the source file, the method at hand, its attempts,
repair prompt and errant block. *Hard:* only the first diagnostic is followed and it may
name another method; the prompt and the block may be left over from an earlier
compilation; a kill between patch and compilation leaves a mixture which the next run
judges by a comment marker. *Correct when:* success means the whole file compiles and no
skeleton is left, the number of model calls is bounded, finished classes survive reruns,
and patches find the text they replace.

**Standard self-correction loop**, second half of the same script (l. 240-506) with
`bin/sandbox_exec.sh`. *State:* two retry counters, the file under repair, the
production source and the class in `bin`. *Hard:* two circuit breakers share one loop; a
repair of the production class is compiled and its verdict ignored; ECJ writes classes
in spite of errors; nothing limits the time of a sweep. *Correct when:* the calls are
bounded, a success was exercised against the class as it is now, and the loop ends.

**Model client**, `bin/llm.go`. *State:* attempt, delays, usage log, the two output
streams and the exit code. *Hard:* retries with a growing delay, permanent against
transient failures, and a caller that judges by exit code *and* standard error. *Correct
when:* only transient failures are retried, the attempts and the waiting are bounded,
and only completions are patched into files.

**Job pipeline**, `bin/run_job_pipeline.sh`: five steps under `set -e` in one workspace.
*Hard:* the ledger is re-indexed in the middle (step 3.5); helper records are compiled
by the same loop; a rerun meets the files of an earlier run.

**Specification parser**, `bin/spec_parser.go`: Markdown to a class of skeleton methods,
one prompt per method, dependencies from the ledger.

**Test generator**, `src/TestGenerator.rsc`, `bin/run_test_generator.sh`: a harness that
calls each method with combinations of boundary values, with at most one bad input each,
and expects a result or an exception.

**Context extractor and ledger**, `src/ContextExtractor.rsc`,
`.context/init_schema.sql`: declarations, and the specification's facts, in SQLite.

**Exemplar accretion**, `bin/accrete_exemplars.go`: the methods of a finished class
replace its rows of the exemplar table, in one transaction.

**Transaction router, metrics logger, telemetry engine**, `generated/*.nrx`: products of
the factory, with a log and a metrics table in SQLite.

**Context resolver**, `bin/context_resolver.go`: a query of the ledger.
**First-generation scripts**: `factory-loop.sh`, `bin/self_correct_loop.sh`. **NetRexx
distribution**: the jars' start scripts `bin/nrc`, `nrws`, `pipe`, ... **Examples and
editor tools**: `examples/` but for NetJoy, `tools/`.

### How the parts of NetJoy interact

    files ──> scan.c  getsym ──> main.c  compound_def, definition ──> symtab
                 ^                  │  lookup: one entry per name      │
                 │                  v                                  │
          include│           utils.c readterm ── program ──> interp.c exeterm
                 │                  │                             │    │
                 └──────────────────┼─────────────────────────────┘    │
                                    v                                  v
                            utils.c newnode, gc1, copy   (memory, stk, conts, dumps)

One sequential process. Everything is shared by global variables: the node memory, its
roots (`stk`, `prog`, `conts`, `dump`, `dump1` .. `dump5`), the symbol table with its
display, the stack of open files. An error leaves any depth of C calls by one `longjmp`
to the main loop (main.c:151-154, 227). What makes it hard is not concurrency but this
shared state under recursion: the reader, the evaluator and each combinator call one
another, every one of them may allocate, and every allocation may move all nodes.

### Components of NetJoy

**Evaluator**, `interp.c`. *State:* the Joy stack, the continuations `conts`, six dumps,
and the C call stack. *Operations:* `exeterm`, some 40 combinators, some 90 primitives,
abort. *Hard:* a combinator "saves" the stack by keeping a pointer to its top node, so
that every operator that changes a node in place may change what another one has saved;
several dumps are pushed and popped in different orders; errors abandon all of it.
*Correct when:* the dumps are balanced, saved stacks and programs stay as they are, and
a program leaves what the operators' own documentation says.

**Memory and collector**, `utils.c`. *State:* two halves of an array above the
definitions, the direction of allocation, nine roots. *Operations:* `newnode`, `gc1` and
`copy`, `inimem1`, `inimem2`, `printnode` aside. *Hard:* any allocation moves every live
node; definition blocks change the layout of memory; code that holds a node in a C
variable across an allocation loses it. *Correct when:* a collection cannot be noticed
except by the space it gains.

**Reader and symbol table**, `scan.c`, `main.c`, `readterm` of `utils.c`. *State:* open
files, line buffer, symbol table, display with two counters. *Operations:* `getsym`,
`lookup`, `definition`, `compound_def` (LIBRA, HIDE .. IN, MODULE .. PRIVATE .. PUBLIC),
`readterm`, `readfactor`, `include`. *Hard:* a name is bound once, when the term that
uses it is read, by whatever the display holds then; sections nest in hidden and public
parts; files include one another in the middle of a line. *Correct when:* a name stands
for the declaration that the sections around it determine, sections are closed again,
and every input ends.

**Joy libraries and the NetRexx port**: `*.joy` and `netJoy.nrx`, not modelled.

`PROJECT.json` lists for each component whether it is modelled, and its hazards at their
lines.

---------------------------------------------------------------------------

## 2. The modules

| module | models | composed with |
|---|---|---|
| `JobBoard` | what the supervisor promises: order, limit, verdicts, exit code | abstract |
| `JobQueue` | `job_queue.tcl`, the pipeline as the supervisor sees it | implements `JobBoard` |
| `MethodSynthesis` | incremental half of `self_correct_loop.tcl`, skeletons, patches, diagnostics | |
| `FuzzRepair` | standard half of `self_correct_loop.tcl`, sweeps | takes over where `MethodSynthesis` ends with "standard" |
| `LlmClient` | `llm.go` and what `exec` reports to the loop | the detail behind the steps `ModelFails` and `Patch`, `RepairTarget`, `RepairProd` of the loops |
| `JoyNodes` | nodes, values and the functions on values of `interp.c` | used by the next three |
| `JoyMachine` | state of the evaluator, `exeterm`, errors, primitives | |
| `JoyEval` | all combinators, the evaluator's specification | extends `JoyMachine` |
| `JoyMeaning` | what the operators' documentation says, as functions on stacks of values | reference of `JoyEval` |
| `JoyStore` | what memory promises: registers and dumps hold terms | abstract |
| `JoyHeap` | `newnode`, collector, memory layout; reader and combinators as they allocate | implements `JoyStore` |
| `JoyCollect` | `JoyHeap` with the heap as it was when the last collection began; what `gc1` promises | extends `JoyHeap` |
| `JoyReader` | files, symbol table, definitions, `readterm`, main loop | |
| `MCJobQueue`, `MCMethodSynthesis`, `MCJoyEval`, `MCJoyHeap`, `MCJoyReader` | instances for TLC | |
| `*Proofs` | theorems about the module named before; `JoyHeapProofs` also about `JoyCollect` | |
| `JoyHeapKinds` | the invariants of `JoyHeapProofs`, and what each operation does to them | extends `JoyHeap` |

The three NetJoy models share the interpreter but no state. `JoyEval` runs whole
programs on nodes that never move; `JoyHeap` moves nodes under the same newnode calls,
for a few representative combinators; `JoyReader` ends where a program is handed to the
evaluator. One joint is checked: `JoyHeap` implements a store in which nothing
moves, which is what `JoyEval` takes for granted.

### JobQueue

One action per procedure call that touches the disk, since the pipelines interleave with
the supervisor between any two of them; a Tcl procedure is otherwise not interrupted.
`pc` names the procedure being executed: `NextExit`, `NextWait`, `NextPop` are the
branches of `startNextJob`; `SetupDone`, `SetupStarved`, `SetupError` the ends of
`setupWorkspace`; `SpawnDone`, `SpawnError` the two branches of the `catch` around
`open`; `HandleSuccess`, `HandleFailure` the end of file in `handleOutput`, followed for
a success by `MergeWorkspace`, `CleanAfterSuccess`, `UpdateMainLedger`,
`AccreteExemplars` and `startNextJob` again. `entered` says whether `vwait forever` has
been reached: an uncaught Tcl error ends the script before that point and only the event
handler after it. `VwaitFails` is a Tcl built without threads, which reports a `vwait`
without event sources; a threaded Tcl, the usual build, waits (`ThreadedTcl`).
`PipelineHangs` is a pipeline with a command that never returns (`FuzzRepair` shows
one): its pipe stays open and silent.

A source file is the number of the job that wrote it last (0: before this run; -1:
absent). A workspace is its sources plus the copy of the main sources and exemplars it
was made from. Every failure the code catches is in `Faults`, and the runs choose among
them. The pipeline writes its class or a shared helper record in its own workspace, and
succeeds or fails.

The variables `outcome` and `verified` are observations for the properties.

### MethodSynthesis

A file is a function from units (methods and the header) to blocks; of a block the model
keeps which text it is, whether it compiles and whether it contains the `SKELETON_`
marker by which `spec_parser` decides to start over (spec_parser.go:442-451). A block to
be replaced is a partial function: one unit, or all of them when the diagnostic points
outside any declaration. Actions: `ParseSpec`, `SkipSynthesis` (spec_parser),
`StartMethod`, `FilesMissing`, `AllSynthesized`, `PromptMissing`, `ModelFails`, `Patch`,
`PatchMisses` (the loop and patch_source), `Accepted`, `Diagnosed`, `NotParsed`
(self_correct and what the loop makes of its exit code), `Killed` and `Rerun`.

The model's answer is any block: compiling or not, another text or the same. Two
assumptions are made about it. It does not contain the comment `SKELETON_<method>`
unless its prompt quoted it; and an answer with the skeleton's own text is the skeleton
itself, since a text determines whether it compiles. Diagnostics may blame any unit when
the file does not compile, and a diagnostic may lead to a text that is not in the file
at all, because the block text is taken from a ledger indexed before the file was
patched.

### FuzzRepair

Texts are numbered by the repairs they have seen. Compiler and harness are deterministic
programs: what they said about the same text and class is remembered (`compiles`,
`verdict`) until either changes. The harness enumerates fixed boundary values on the
fresh temporary file system of the sandbox, which is why its verdict is a function of
its text and the class. `Recompile` has the three outcomes of `self_correct` on the
production class: clean, with errors (class written anyway, `-proceedOnError`), or not
translated (old class stays). `SweepHangs` leads to `hung`, from which the loop does not
come back.

### LlmClient

One call: a log of the replies, the attempt counter of `fetchCompletion`, delays in
seconds, and the two streams and the exit code with which `main` ends. `CallerReturns`
is `catch {exec bin/llm ...}`: Tcl's `exec` fails for a non-zero exit and also when the
child wrote to standard error.

### JoyNodes, JoyMachine, JoyEval and JoyMeaning

`heap` is a sequence of nodes `[op, u, next]`, a pointer an index into it, 0 is NULL;
lists share nodes exactly as the C code lets them, and in-place assignments are `heap`
updates. `frames` is the C call stack: the procedure, the point it has reached and its
locals. One step runs a C procedure up to its next call of `exeterm`: a combinator is
one action whose disjuncts are those stretches. `RunProgram`, `ExeLiteral`,
`ExeDefined`, `ExeOperator`, `ExeReturn` and `EndProgram` are `exeterm` and the main
loop; `ExecError` is `execerror` with its `longjmp`; `Crash` is a read through NULL,
which the code does where a quotation left less on the stack than its combinator reads.
`ExeOperator` takes any node but a literal, a defined name or `exeterm`: `optable` has
no operator of that name. The loops over an aggregate enter one case of a C `switch` and
stay in it; `Loc.over` remembers which.
Every operator has the ONEPARAM .. FIVEPARAMS, quote and type checks of its procedure in
front of it. Strings are sequences of numbers, a set is a bit mask of `SETSIZE` bits
including the sign bit (`in` and `has` test with `> 0`). `Spelling` gives the characters
of the names, since `=` and the comparisons fall back on `strcmp` of names. The
comparisons let the type of the top decide how the second is read (COMPREL): a list
compared with a number or a set is an address, here any number; the sessions compare
only what the documentation allows. Left out: floats, files, time,
formatting, symbols as data, the help texts.

The model keeps the code's own peculiarities: `take` of a positive number of an empty
list, the unterminated strings of `map` and `take` (`Residue` is what memory held
before), the aliasing of `app11`, `app12`, `while` and `concat`.

`JoyMeaning` is written from the two strings `optable` gives every operator
(interp.c:2326-2998), not from the C procedures: a function from stacks of values to
stacks of values with neither sharing nor dumps.

### JoyHeap and JoyStore

`copy` is recursive in C; here it is a machine of one step per visited node (`calls`,
`reg`), `gc1` walks the roots in its own order (`slots`), `SkipNull` is its test of each
root for NULL. Each `newnode` either allocates or first collects and then resumes the
assignment that waits for the node (`Deliver`). The reader links factors in place as
`readterm` does; `exeterm`, stack, unstack, rest, cons, a combinator's save and restore,
the lists `map` builds on `dump2` and `dump3` and the loop of `primrec` stand for the
ways combinators allocate. `Begin`- and `EndDefinitions` are `inimem1` and `inimem2`.

Three operators change nodes of the stack in place, and after `unstack` these can be
nodes of a definition: `App11` cuts the node below the result out (interp.c:1590),
`ConcatString` empties the strings it has copied (l. 1246-1249; strings are numbers
here), `WhileAgain` and `WhileStore` are the read and the assignment of SAVED3, the
`next` of the node of the test (l. 2057-2065). Not among them is `app12` (l. 1656), as
`unary2` .. `unary4`: the cell it assigns to is one that it has just built on `dump1`.
`conts_` and `dump_`, which push the registers themselves on the stack, are left out.

`Unsafe` names the places where the code does harm to memory: the assignments of `map`
("map"), the loop of `primrec` ("primrec"), an error inside a definition block
("definition"), a collection while the first term after a definition block is read
("prog", a root that `inimem1` does not reset), and the assignment of `while` ("while"),
when its test is a cell of a definition, which then leads into the half that the
collector moves, or one that the stack to be stored leads to, which closes a circle in
which `copy` never returns. The passing run and the theorems take `Unsafe` to be empty
and show that everything else that is modelled is sound; the violation run shows one of
the places.

In `JoyStore` an operator that changes a node in place changes the terms of everyone who
holds it; which those are, `shared`, is read off the nodes in memory. A collection does
not change it.

`JoyCollect` adds the variable `before`, memory, roots and waiting `newnode` call as they
were when the last collection began. Nothing in the program depends on it; it lets
`CollectsExactly` compare the end of a collection with its beginning.

### JoyReader

`infile` is the stack of open files, a line a sequence of symbols. `TakeSymbol`,
`ReadLine`, `EndOfFile` are `getsym` and `getch`: the end of a file does not end the
line, which `getch` goes on filling from the including file (`filled`); `CompoundDef`, `Module`, `Hide`,
`Defsequence`, `Definition` follow main.c procedure by procedure, with the display
changed at the points where the code does; `ReadAtom`, `ReadField`, `NoFactor`,
`ReadLiteral`, `ReadList`, `EndTerm` are `readterm` and `readfactor`. The two hash
chains of the table are one chain here, of which `lookup` takes the newest entry. A
program acts on the reader by `include` or by failing. `crashed` is a `readfactor` that
returns without a node: `readterm` then links whatever is on the stack, and the model
stops there. Nothing in the code compares the display counters with `DISPLAYMAX`; the
stories nest less deeply, which `TypeOK` confirms, and the theorem about the table
assumes it.

---------------------------------------------------------------------------

## 3. The runs

| run | what it shows |
|---|---|
| `llm_client` | every sequence of replies: only transient ones are repeated, the waiting adds up to the documented 5 s steps, only completions are patched, the loop gives up only for a reason, every call returns |
| `queue_safety` | three jobs, every failure: accounting, exit code, isolation of failed jobs, no stale merge, `JobBoard` |
| `queue_learning` | with working merge, index and accretion: exemplars are verified, later jobs start with them, and the supervisor, on a threaded Tcl, ends unless it waits for a hung pipeline or, after an uncaught error, for nothing |
| `synthesis` | three methods, two runs, kills everywhere: success is complete, calls bounded, finished classes survive, patches miss only after a stray diagnostic, every run ends |
| `synthesis_stale` | *finding*: a retry may be driven by the prompt of an older failure |
| `repair` | both circuit breakers, sweeps, ignored recompilations: calls bounded, success was exercised against the current source, harness not adapted to an old class, the loop ends or hangs in a sweep |
| `repair_zero_error` | *finding*: success although the production source does not compile |
| `joy_eval` | programs for every combinator and every short program: dumps balanced, saved stacks and programs intact, results as documented |
| `joy_alias` | *finding*: an operator inside a `nullary` changes the stack that `nullary` restores |
| `joy_heap` | collections on every newnode, both directions: invisible to the program, exact; definitions lead to definitions only, also when operators change them in place |
| `joy_heap_primrec` | *finding*: `primrec` goes on with the marks of the collector |
| `joy_reader` | nested sections, modules, included files, and anything typed after the start of a definition: names resolve lexically, sections are closed, the table is well formed, every session ends |

### Bounds

- `LlmClient` and `FuzzRepair` run with the source's own constants (5 attempts, 5 s; 5
  compile and 5 fuzzer attempts): nothing is cut off.
- `JobQueue`: two classes and three jobs, so that one class occurs twice and another job
  can come in between (`spec` is any assignment); one shared helper, enough for one job
  to repair what another one uses; one worker as in the source (job_queue.tcl:17). What
  holds for several workers is proved. Classes are symmetric: no definition names one.
  The symmetry is used in `queue_safety` only; the run with a liveness property has
  none.
- `MethodSynthesis`: three methods (one behind, one current, one to come), three tries
  as in the source, one text besides the skeleton (its two compilation verdicts, with
  and without the marker, already make four different blocks, enough to tell the same
  text from another), two runs, so that a killed or finished run is met by another.
  `MaxRuns` is the only bound not in the code. The violation run needs only two methods
  and one run.
- `JoyEval`: `SETSIZE` = 5 instead of 32, so that a set with the sign bit is met. One
  program or more for every combinator, with lists, strings and sets, nested, with empty
  aggregates, failing quotations and definitions that call one another; and every
  program of up to three items (`Longest`) over an alphabet of thirteen. Programs that
  do not end are not among them: the machine is infinite there. The programs of
  `joy_eval` do not use the operators that `joy_alias` is about on a saved stack; what
  is left is shown not to disturb one.
- `JoyHeap`: 28 cells, two halves of which one is a cell shorter, hold the live cells of
  every script and little more. Garbage of 0 to 12 cells goes before each of the longer
  scripts, so that the collections fall on each of its newnodes, in both directions;
  every sequence of three operations follows on 0, 2 and 3. In `Shorten` a definition
  becomes the stack and is changed in place before it is collected around and run again.
  There are 991 111 states. `Reach` = 4 is the longest
  path on which `CollectsExactly` compares the terms before and after a collection; the
  theorem `CollectorExact` has no such bound.
- `JoyReader`: 4 open files instead of 10 and 6 display levels instead of 10: one file
  can include another and itself, and stories nest sections in hidden and in public
  parts, up to a section in the public part of a section in a hidden part. A section has
  up to two hidden and two public names, enough for each to use the other, a global one,
  and to shadow one; `Typed` continues a definition, a module, a list and a field by
  every sequence of up to three symbols. Programs refer to what may be visible, and to a
  name that must not be.

### Fairness

- `LlmClient`: weak fairness of `Next`; the HTTP client has a timeout of 90 s and sleeps
  are finite.
- `JobQueue`: weak fairness of the supervisor's steps, and of the end of each pipeline
  that has not hung. A pipeline may hang at any time (`PipelineHangs`), as in a sweep
  without time limit; otherwise its loops are bounded. `SupervisorEnds` names the two
  ways in which the supervisor waits for ever and shows that there is no third.
- `MethodSynthesis`: weak fairness of the script's own steps, none for kills and reruns.
- `FuzzRepair`: weak fairness of `Next`, and `LoopEnds` admits `hung`.
- `JoyReader`: weak fairness of `Next`. The interpreter is one sequential process
  reading files; a program that does not end is not an input here.
- `JoyEval` and `JoyHeap` state no liveness: a Joy program need not end.

`CHECK_DEADLOCK FALSE` everywhere, since every modelled program stops; that it stops
where it should is the business of the liveness properties and of `ExitIsHonest`.

### What was found

1. **A retry about another failure** (`self_correct.go:245`, run `synthesis_stale`).
   When the output of the compiler cannot be parsed, no prompt is written and the old
   one is used.
2. **"Zero-error build" with errors** (`self_correct_loop.tcl:405`, run
   `repair_zero_error`). The verdict on the repaired production class is never read.
3. **`nullary` does not keep the stack** (`interp.c:2065`, run `joy_alias`). The
   documentation says that no parameter is removed (interp.c:2824); `3 [null not] [pred]
   [while] nullary` leaves `0 [pred] [null not] 0`.
4. **`primrec` after a collection** (`interp.c:1971`, run `joy_heap_primrec`). Its C
   variable `current` is not a root: on a list of 300 ones `[0] [+] primrec` ends with a
   type error when a collection falls into the loop.

Seen while modelling, and without a run of their own. In the factory:

- Every transient failure is reported on standard error, and Tcl's `exec` takes that for
  a failure of the call: a completion that arrives after a retry is thrown away
  (self_correct_loop.tcl:140). `ExecFails` models it.
- An error of `setupWorkspace` for the second or a later job escapes the event handler;
  with a threaded Tcl nobody starts the next job and `vwait` waits for ever
  (job_queue.tcl:201), and a pipeline that hangs is waited for without limit.
  REASONIX.md:366 says that failures are logged "without process stall".
  `SupervisorEnds` has these two states among its ends, `WaitsForNothing` and
  `WaitsForHungPipelines`.
- The copies of a merge are under `catch`; after a silent failure the workspace is
  deleted, and accretion makes an exemplar of the old source (job_queue.tcl:112). The
  theorem `ExemplarsCorrect` needs the assumption that merges do not fail.
- REASONIX.md:217 asks the loop to trip at the third consecutive compilation error, and
  the source's limit is 5 (self_correct_loop.tcl:242); REASONIX.md:533 says a method is
  attached once it has been verified, and the source patches it in before it compiles.

In NetJoy:

- A module in the public part of a HIDE overwrites the display entry by which the hidden
  names are found (main.c:107), and a public name equal to a hidden one redefines the
  hidden entry. Neither is among the stories of `joy_reader`.
- An error inside a definition leaves the display raised (main.c:151) and skips
  `inimem2` (main.c:239): later definitions join the abandoned section. `SectionsClosed`
  exempts it by name (`aborted`).
- `MODULE dup` makes a module of a builtin; `readfactor` may return without a node, and
  `readterm` then links whatever is on the stack (`NoFactor`).
- The rest of a line is executed before the file that it includes.
- `inimem1` resets all roots but `prog` (utils.c:21): a collection before the next
  program has been read copies from it.
- `map` assigns through SAVED or DMP expressions on the left of a `newnode`
  (interp.c:1674, 1678). A compiler may evaluate the left side first, and a collection
  then invalidates it (`Unsafe` = "map").
- `unstack` makes the cells of a definition the stack, and the operators that write to
  the stack change the definition: after `DEFINE l == [1 2 3 4]. l unstack [] app11` the
  body of `l` is `[1 3 4]` (interp.c:1590). `DEFINE l == [[l] [list not] 3]. l unstack
  while` makes `l` a circle (interp.c:2065, `Unsafe` = "while").
- `newnode` does not ask whether the collection freed a cell (utils.c:158), and a
  definition block may be longer than what is left (utils.c:31). The model stops there
  (`full`).
- `drop` and `take` on an empty stack, and combinators whose quotation empties it, read
  through NULL (`Crash`).

### Mutants

Each property of each passing run has a mutated definition, written next to the
original, under which TLC finds the property violated. A definition called "Mutant" in
its comment belongs to no specification.

---------------------------------------------------------------------------

## 4. What is proved

Proofs hold for every value of the constants under the named assumptions.
`RetryAssumption`, `JobAssumption`, `SynthesisAssumption`, `RepairAssumption`,
`HeapAssumption` and `ReachAssumption` only give the constants their types.
`ReaderAssumption` says that at least two files can be open, the user's library and the
one that includes another, that the display has an entry, and that the operators of
`optable` are a sequence of names. `DumpsAreBalanced` needs no assumption at all: what
the modules of the evaluator assume is used by TLC only.

**LlmClientProofs.** `TypeCorrect` needs one fact more than the types: a sleeping client
has an attempt left. `DelaysAddUp`: the delays add up for every number of attempts and
every step. `LogInv` relates the log to the control state: a request is under way or
slept for only after transient failures, one for each attempt made; the answer on
standard output is the last reply of the log; a call that ended without it ended on a
refusal, on the last attempt, or before the first. It gives `RetriesAreTransient`,
`PatchesAreCompletions` and `GivesUpForAReason`.

**JobQueueProofs.** Five invariants, each on top of the one before:

- `ControlInv` (any number of workers). The queue is the rest of the command line; a job
  outside it without verdict or pipe is the one being started; the open pipes are the
  running jobs and they are counted; a pipeline runs only for a running job. Gives
  `TypeCorrect` and `AccountingCorrect`. `ActiveAccounting` alone is not inductive: that
  a started job was not running already, so that the count grows by one, needs the shape
  of the queue.
- `SoloInv` (one worker). The job being handled is the one popped last and no pipe is
  open during setup and merge; a dropped job means that nothing can go on. Gives
  `ExitCorrect` and `BoardImplemented`.
- `DiskInv` (one worker). The workspace of the running job differs from the main sources
  only in what that job wrote. Gives `FailedJobsAreIsolated` and `MergesGoForward`: what
  comes back is the current version or a newer one.
- `LearnInv` (one worker, "merge" not in `Faults`). From the exit of the pipeline to the
  accretion, the class is the version that was verified. Gives `ExemplarsCorrect`.
  Without the assumption the theorem fails, see section 3.
- `TaughtInv` (one worker; "merge", "index", "accrete" not in `Faults`). The exemplars
  of a completed class are its sources in the main workspace, except for the class being
  settled between its merge and its accretion; a workspace in use was copied outside
  that interval. Gives `JobsLearn`.

The assumption `MaxWorkers = 1` is stated in the theorems that use it and is the
source's setting. `BoardImplemented` maps initial states and every step to a step of
`JobBoard` or a stutter, with `ProcessCode` as exit code.

**MethodSynthesisProofs.** `SynthesisInv` has seven parts: types, control, "between two
methods the whole file compiles", "the marker of a method behind us is gone", "a shipped
file is never worked on", the account of calls, and "as long as no diagnostic strayed,
the methods to come are skeletons and a repair is about the current method".
`SuccessIsComplete` follows from the second and third only because the header and all
methods are covered when the index has passed the last one; `CallBudget` is not
inductive without the account per method. Theorems: `TypeCorrect`, `SuccessCorrect`,
`BudgetKept`, `ShippedSurvives`, `PatchesFindTheirText`.

**FuzzRepairProofs.** `RepairInv` adds to the types the account of calls (each attempt
but the last has paid for one) and the shape of a class older than its source: then the
harness compiles and its sweep fails, so neither a success nor a repair of the harness
is possible until a recompilation succeeds. This is where determinism of compiler and
harness is used. Theorems: `TypeCorrect`, `BudgetKept`, `SweepsAreCurrent`,
`HarnessNotAdapted`.

**JoyReaderProofs.** The counters `display_enter` and `display_lookup` are raised and
lowered by nested calls of `compound_def` at different points, so "0 in the main loop"
is not inductive. The invariant `Nesting` says what they count: the calls on the C stack
that have reached a point after the raise and not yet the one after the lowering. Lemmas
on appending, changing and removing the last call show how each step changes the number
of such calls; with no call left it is 0, unless a `longjmp` forgot some. Gives
`SectionsAlwaysClosed`. A second invariant, `FilesOpen`, bounds the array of open files:
the user's library is opened first, without the check of `doinclude`. Gives
`FilesAlwaysBounded`: `getsym` has a file to read from until the interpreter exits, and
the array never overflows.

`TableWellFormed` proves the type invariant for every table of operators, input and set
of files, from one hypothesis on the behaviour: `Shallow`, there are never more sections
open than `DISPLAYMAX`. The code does not check that, so the hypothesis cannot be
dropped; the run's stories satisfy it. The invariant is `WellFormed`. The chain of the table leads from every entry to an older one, so `lookup` ends, at an entry
with the name or at 0; references in bodies and open terms are to entries there are; and
`Levels` says of each active call what the two display counters were when it began and
what they are for the call it made, which keeps them inside the display when sections
close. `FindFrom` is a recursive function on numbers: what it returns is proved by
taking the least entry for which it would not hold (`LeastNumber`, from the library's
well-founded minimum).

**JoyHeapKinds and JoyHeapProofs** (`Unsafe = {}`; every size of memory, set of numbers
and set of names). `NoBadNode` alone says nothing of the cells that are assigned to in
place, and nothing of the middle of a collection. The invariant `HeapInv` has two sides.

- Between collections (`Shape`): definitions lead to definitions, cells that `newnode`
  has given out lead to such cells or to definitions. What is assigned in place is told
  apart by *kinds* of cells: cells of `conts`, of the dumps, of `dump2` and `dump3`,
  headers of terms being read, ends that `readterm` keeps on `dump`, last cells of lists
  under construction. Each has a rule about where it hangs: the headers of the open
  terms are on the stack one below the other, the ends are on `dump` in the order of the
  terms that have one. `Args` says what each call of `newnode` brings along, since the
  collection falls between its arguments and its assignment.
- During a collection (`Collecting`): every cell of the new half has an *origin* in the
  old half, and holds what its origin held, as far as it has been filled, with pointers
  to copies. What the old half held before is known (`M0`, `R0`, `C0`), although `copy`
  overwrites it: cells that are not marked still hold it, marked ones lead to their
  copy. At the end the heap is the old one moved along origins (`Moved`), and
  `MovedShape` carries the kinds over.

- In both (`Ordered`): lists have no cycles. `Acyclic` says that every non-empty set of
  given cells has a member that leads to none of the set. A new cell keeps it at once,
  for nothing leads to it. The assignments in place do not: `readterm` hangs a factor
  behind the last one of a term, `map` a result behind the last one. They keep it
  because a list under construction is led into only from its own register, which is
  `Leveled` for terms (the cells of the term open at a level lead to cells of that
  level) and `Hiding` for `map` (nothing that the program can reach leads to a cell of
  `dump2` or `dump3` or to a result that is not delivered). The lemma `AcyclicInto` is
  the argument common to them, and to `WhileStore`, whose guard says that the stack does
  not lead to the test. `App11` makes a cell lead where it led already, by a detour
  (`AcyclicSkip`).

The first side is proved once per action, with one lemma for an allocation at each place
(`Deliver`), the second once per step of the collector.

The kinds do not say which cells the operators that change the stack in place may hit:
`app11` and `while` write to any node of a list. `MemoryInv` therefore joins `HeapInv`
with `PartInv`, *frames and values*. The cells in use fall into two parts (`Divides`):
`W`, the frames of `conts` and the dumps, and `V`, the cells of lists. No list leads to a
frame, so no operator reaches one, and `Holds` says in which part each register is.
The two parts move with the collection.

Theorems: `TypeCorrect`, `NoBadNodeMet`, `DefinitionsStay`, `ListsEnd`: no collection
meets a cell that was never written, no pointer the program follows leads outside of
what is allocated or to a mark of the collector, a definition leads to definitions only
even after operators have changed it, and no allocated cell, definitions included, leads
back to itself. Their scope is the operations of `JoyHeap` with `Unsafe = {}`; the last
two are false of a program that reaches the store of `while` in a definition or in a
test its stack leads to. `ListsEnd` is thus no statement about every Joy program: it says
which one assignment of the code can close a circle.

**JoyHeapProofs, of JoyCollect** (`Unsafe = {}`; moreover every `Reach`).
`CollectorExact` proves `CollectsExactly`, three statements about a whole collection.

- When a collection ends, whatever path is followed from a register or from an argument
  of the waiting `newnode` finds what it found when the collection began: numbers are
  the same, lists are lists, however much they share (`TermsSurvive`, also listed by
  itself as `TermsKept`). The proof shows that the heap `M0` of `Collecting` is the one
  that `before` remembers, and goes along the path, by the first step at which the two
  would differ.
- The new half then holds one cell for each live one. The invariant `Accounts`: no two
  new cells have the same origin, origins are live, and an origin is marked unless
  `copy` is still busy with it. `copy` marks a cell only after it has copied what hangs
  below it, so it could copy a cell twice if the calls in progress met one; they follow
  the links of the old heap, which has no cycles (`Unasked`). At the end the set of
  origins holds the pointers and is closed under links, so it is all of `LiveIn`;
  `LiveIn` itself is shown to be closed because each step of `Reachable` but the last
  adds one of `MEMORYMAX` cells (`ReachCloses`).
- When a half is full outside a definition block, the new cells that fill it have
  different live origins, so the live cells alone are as many as the half holds.

**JoyEvalProofs** (every session: any heap, any definitions, any programs, terminating
or not). `DumpsAreBalanced` proves `DumpsBalanced`: each active `exeterm` has its entry
on `conts`, each active combinator its entry on `dump`, and whenever no call is active,
after a program as after an error, all of `dump1` .. `dump5` are empty. The property
says nothing about `dump1` .. `dump5` while calls are active, so it is far from
inductive. The invariant `Balance` tells what each call keeps on them, by its procedure,
the point it has reached and its locals (`Cells`), and takes the calls off one by one,
the innermost first: `Under(f, d)` is what is left of the dumps `d` when the call `f`
has taken its own off, and after the last call nothing must be left. Three kinds of
procedures need more than "one item on these dumps":

- the loops keep an item on one to five dumps over a list and none over a string or a
  set; which of the two is settled when the loop begins;
- `unary2` .. `unary4` have put `n - 1` results on `dump1` after `n` rounds, and take
  all of them off at once;
- `construct` does not push: it puts the whole of `dump2` away on `dump1` and builds its
  results on a new one, so what is under it is the `dump2` found in that item.

The lemmas `GoesTo`, `GoesInto`, `Runs` and `Returns` reduce a step to one obligation,
that it leaves what lies under the running call as it was (`Keeps`), and `Pushed`,
`Moved` and `Popped` are shown to do that once; what remains per combinator is which
dumps it uses at which point. TLC has checked `Balance` on the instance of `joy_eval`,
with the layers of the dumps computed from the frames.

### Model-checked only

- Liveness: `CallReturns`, `SupervisorEnds`, `RunsEnd`, `LoopEnds`, `InputEnds`.
  Liveness under fairness and `ENABLED` are beyond the prover.
- `JoyEval`: `Agrees`, `SavedIntact` and `ProgramsIntact` compare what nodes stand for,
  which is a RECURSIVE operator over the heap. `TypeOK` is not proved because it does
  not hold of every session: the clauses of `cond`, `case` and `opcase` are not checked
  to be lists, and a number in place of one is followed as a pointer. It is checked for
  the programs of `joy_eval`, whose clauses are lists.
- `JoyHeap`: `ImplementsStore` speaks of terms, which are defined by a RECURSIVE
  operator over the heap.
- `JoyReader`: `ResolvesLexically` compares two recursive definitions.
- With several workers, everything but types and accounting. With several workers on one
  class the disk properties do not hold (two jobs share a directory), which is no defect
  of the source's configuration.

Recursion over numbers is within reach where the definition is a recursive function: the
least number that contradicts the claim does the work of induction. The library's
induction theorems themselves, which take an operator as a parameter, and `RECURSIVE`
operators are not.

### What could be proved next

- For `JoyEval`, that all pointers lead to nodes, for the sessions whose clauses are
  lists: a type discipline on the quotations, since `cons` and `concat` build clauses too.
- That `JoyReader` resolves names lexically, once both sides are recursive functions
  over the same measure.

---------------------------------------------------------------------------

## 5. What is not modelled

- The text of prompts and answers; the Markdown and Rascal grammars; the class and field
  facts of the ledger; which boundary values the generated harness enumerates: formats,
  not control.
- The order of the five steps of `run_job_pipeline.sh`. To the supervisor a pipeline is
  one child with one exit code, and the two loops in it are modelled by themselves.
- The context resolver (a stateless query), the first-generation scripts (no longer
  called), the transaction router, metrics logger and telemetry engine (each one
  statement on a database), the NetRexx distribution (jars without source).
- Of NetJoy: floats, files, time and formatting among the operators; how characters form
  symbols, comments, echo, the shell escape; the build with the BDW collector, tracing.
  The Joy libraries are programs for the interpreter. `netJoy.nrx` is a second
  interpreter, with the stack and the memory of its host language.
- Known disagreements of the reader with lexical scoping (a module inside the public
  part of a HIDE, a public name equal to a hidden one) are outside the stories of
  `joy_reader`.
