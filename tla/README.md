# TLA+ models of php-binaries

This directory holds TLA+ modules, TLC configurations and TLAPS proofs for the
program in this repository: the packaged PHP 8.2 ZTS runtime, the scripts that
build and install it, and the tools that come with it. Paths and line numbers
are those of the repository; unless another file is named they are lines of
`php7/lib/php/build/run-tests.php`. The headers are those under
`php7/include/php/Zend`.

    tlc -workers 2 -config parallel_safety.cfg MCRunTestsParallel
    tlc -workers 2 -config run_test.cfg MCRunTest
    tlc -workers 2 -config zend_variables.cfg MCZendVariables
    tlapm RunTestsParallelProofs.tla
    tlapm ZendVariablesProofs.tla

## 1. Inventory

The repository ships three kinds of things: scripts of its own (build, update,
packaging, CI), the php-src tooling that `make install` puts into a runtime
(`run-tests.php`, `gen_stub.php`, `phpize`, ...), and the runtime itself
(headers, binary modules, ini files).

| Part | State | Operations | What makes it correct |
|---|---|---|---|
| **Parallel scheduler**: `run_all_tests_parallel` (1347-1665), `run_worker` (1684-1748) | queues of tests, waiting tests per conflict key, keys in use, batches out, sockets and processes of the workers; in a worker, the tests of its batch | spawn, accept, greet; select, read, `tests_finished`, `ready`, `test_result`, `php_error`; retire a worker, end; in a worker greet, run a batch, report | tests that conflict never run at once; no test is lost or run twice; the run ends; an error is blamed on a worker only when there was one |
| **Command with a timeout**: `system_with_timeout` (1165-1260) | child process, three pipes, output so far | write stdin, select, read, time out, collect the status | ends within the timeout; output complete; no child survives |
| **Life of a test**: `run_test` (1789-2808), `is_flaky`, `error_may_be_retried`; `run_all_tests` (1266-1342); `compute_summary` (3107), `main` (149-810) | the test's sections, `$retried`, `$warn`, `$IN_REDIRECT`, results, `$PHP_FAILED_TESTS` | parse, skip check, redirect, run, clean, compare, retry, classify, record, summarise | one true result per test; at most one retry; list of failures and exit status agree with the results |
| **Skip cache**: `SkipCache` (3694-3775) | answers by command, directory and code; extensions by command | look up, run and store | same answer as without the cache |
| **JUnit report**: `JUnit` (3404-3692) | suites, counters, timers | start and stop a timer, mark, merge, clear | counters add up; nothing is counted in a suite that is not there |
| **VM, exceptions**: `zend_vm_def.h` (HANDLE_EXCEPTION 7933, dispatch helper 7858, CATCH 4606, FAST_CALL 8373, FAST_RET 8384, DISCARD_EXCEPTION 8349, RETURN, YIELD) | call frames, `EG(exception)`, temporaries and their live ranges, `fast_call` variables | execute an opcode, throw, unwind block by block, enter catch or finally, return through finally, suspend, resume and destroy a generator | does what the statements mean; frees every temporary once; ends |
| **VM, variables**: `zend_types.h`, `zend_execute.h` (`zend_assign_to_variable` 142), `zend_variables.h`, opcodes of `zend_vm_def.h` | reference counts, references, shared arrays, compiled variables, static and global variables | assign, assign by reference, write an element, pass, return, bind, iterate, unset | values behave as if they were copied; counts are exact; nothing is freed early or leaks |
| **Build**: `build.sh` | `work/`, `work/deps`, `dist/php7` | download, build 9 libraries, clone, configure, install, copy ini files | the output is of one build; an aborted one leaves nothing that looks complete |
| **Update, wrapper, packaging**: `update.sh`, `php7/bin/php`, `zip.sh` | `php7/`, `bin.zip` | copy what differs, start PHP, archive | wrapper finds what update installs; no mixed runtime |
| Test file parser: `TestFile` (3828-4037) | sections, current section | read a line, check | rejects what it must |
| Expected output and diffs (2534-2630, 2860-3050) | - | text to regular expression, diff | text only |
| Options and discovery (149-640, 1047-1120) | option variables | parse, list directories | text only |
| Valgrind (3777-3827) | version, tool | probe, wrap a command | - |
| CI: `.github/workflows/build.yml` | checkout, artifacts | run the build, copy ini files, upload | uploads what the build made |
| other headers, `gen_stub.php`, `phpize`, `libtool`, `.so`, `.phar`, ini files | - | - | declarations, third-party or opaque |

How they interact. `main` builds the list of tests and calls `run_all_tests`,
which hands the list to `run_all_tests_parallel` when `-jN` is given (1291).
The parent starts workers by `proc_open`; each runs `run-tests.php` again,
connects over TCP, takes over the parent's globals from the greeting, and runs
its batches through `run_all_tests` and `run_test`. `run_test` calls
`system_with_timeout` for SKIPIF (through `SkipCache`), the test and CLEAN,
records into `JUnit` and `$PHP_FAILED_TESTS`, and may call `run_all_tests`
again for a REDIRECTTEST. Results travel back in `test_result` messages, JUnit
reports in `tests_finished`. `build.sh` fills `dist/php7`, `update.sh` copies
it into `php7`, `zip.sh` archives `php7`, and the wrapper starts the result;
they share only the file system. The headers describe the virtual machine that
runs all PHP code, run-tests.php included: `zend_vm_def.h` is the source from
which the handlers of every opcode are generated (`zend_vm_execute.h`), and it
works on values through the inline functions of `zend_types.h`,
`zend_variables.h` and `zend_execute.h`.

What is hard here: the parent interleaves the conversations of all workers and
updates four queues from within nested loops; workers die, are slow, or are
terminated by the parent itself; the greeting and the batches have time limits;
a retry runs code again with the variables of the first attempt; a redirection
runs the same code inside itself; unwinding meets half-executed returns,
suspended generators and destructors that throw; a count that one opcode leaves
wrong shows many opcodes later; and the release scripts can stop between any two
files. `PROJECT.json` lists each hazard at its line.

## 2. Modules

| Module | Contents |
|---|---|
| `TestPool` | what a parallel run promises: pending tests, leased in batches to workers, conflicting tests never leased to two |
| `RunTestsParallel` | the scheduler and its workers, message by message; its properties |
| `RunTestsParallelInv` | the inductive invariants, in named parts; what the parent waits for, and the measure that every step lowers |
| `RunTestsParallelProofs` | types, messages, conflict keys: lemmas and theorems |
| `RunTestsParallelWork` | lemmas about queues, batches, counts, retired workers and results on their way; the theorems that no test is lost and that the run does not strand |
| `RunTestsParallelRefinement` | no test is in two queues, no name in two places; the theorems that the scheduler implements `TestPool`, reports no test twice, keeps the order of tests with one key, never waits for nobody and counts down |
| `MCRunTestsParallel` | lists of tests for TLC |
| `TestProcess`, `TestProcessProofs`, `MCTestProcess` | one call of `system_with_timeout` with its pipes, shell, program and background process; theorems about it; the calls that run-tests.php makes |
| `JUnitReport` | the JUnit class as operators on a report: timers, marks, counters, merge |
| `RunTest`, `RunTestProofs`, `MCRunTest` | the tests of one process from the list to the exit status, with `SkipCache` and `JUnitReport`; theorems about retries, directories, results, cached answers, merged reports and the end of a process; sixteen kinds of tests |
| `TryStatement` | what try, catch, finally, return, break and a destroyed generator mean, as a function of the statement and of what its expressions do |
| `ZendCompile` | the op_array of a statement, as the handlers expect it |
| `ZendExceptions` | the virtual machine's unwinding, opcode by opcode |
| `ZendExceptionsProofs` | its theorems: where jumps lead, what runs while something is thrown, that each value is freed once and none is left, and that unwinding ends |
| `MCZendExceptions` | programs, and the property that relates the machine to `TryStatement` |
| `PhpVariables` | what a program may rely on: variables with values, and sets of variables linked by `&` |
| `ZendVariables`, `ZendVariablesProofs`, `MCZendVariables` | reference-counted cells and the opcodes on them; theorems: the counts are exact, nothing is left behind, and sharing cannot be seen |
| `Release`, `ReleaseProofs`, `MCRelease` | `build.sh`, `update.sh` and the wrapper over a file system; theorems about what is linked and what is copied |

**`RunTestsParallel`** is at the grain at which the processes can interleave. The
parent is one thread; `pc` is its place, and one iteration of each loop of the
message handler is one step:

| Model | Code |
|---|---|
| `ReadConflicts`, `OrderTests` | the loop over `$test_files` (1367-1393), `array_reverse` and `shuffle` (1395-1403) |
| `Spawn`, `SpawnFails` | `proc_open` (1425-1445) |
| `Accept`, `AcceptFails`, `ReadReply`, `ReplyFails` | accept, greeting and reply with 5 seconds each (1447-1486) |
| `Select`, `TakeSocket`, `Drained` | the loop's head, `$toRead`, `feof`, `fgets` (1501-1525) |
| `ReadFinished`, `Release`, `FallThrough` | case `tests_finished` (1535-1549) |
| `ReadReady`, `StartBatch`, `PopFree`, `PopBlocked`, `Dispatch`, `Retire` | case `ready` (1550-1592) |
| `ReadResult`, `ReadPhpError` | the other messages (1593-1649) |
| `Finish`, `Abort` | the end (1660-1664), `kill_children` and `error()` |
| `Connect` ... `FinishBatch`, `ReportPhpError`, `HangUp` | `run_worker` (1684-1748) |
| `RunTest`, `Redirect` | `run_all_tests` in a worker (1296-1331); REDIRECTTEST (2187-2226) |
| `Terminate`, `Crash` | SIGTERM takes effect; a worker dies by itself |

A variable has its PHP name: `test_files`, `sequentialTests`, `waitingTests`,
`activeConflicts`, `testsInProgress`, `workerProcs`, `workerSocks`, `toRead`,
`files`, `test_results`, `test_idx`; `reading` is `$i`, `toWorker` and
`toParent` are the sockets, `wpc` and `todo` the place and the batch of a
worker. `leased` is a history variable: the tests sent to a worker until its
`tests_finished` is read. Abstractions: tests and keys are names; what a test
does is left to `RunTest`. A message is whole (the joining of pieces over
`$rawMessageBuffers` is not modelled). `Release` frees the keys of a batch in
any order. A wait that has a time limit may fail when the one waited for is
gone, or when `"late" \in Faults`. A PHP warning in a worker is one `php_error`
at most on the way, because the first that is read ends the run.

Four comments say something else than the scheduler does, and the model follows the
code. Under valgrind the batch size is to be 1 (1558), but the loop takes one
test more than `$batchSize` (`<=` in 1565). The order of tests with a common
conflict key is to be preserved (1396), but a test waits behind one key only, and a
test that is listed later and has its other key passes it (1569);
`SameKeyInOrder` is what remains. Tests that conflict with all are to come
separately at the end (1385), but they are put where the next test is popped
from, before what is still there when one worker is left (1553). While a test with
key K runs no other that conflicts with K is to run (1361), but a redirected
test's own keys are not looked at (2217); `Exclusive` speaks about the tests
that are handed out.

**`TestProcess`** has the steps of the function (`Open`, `Feed`, `CloseInput`,
`Select`, `TimeOut`, `Read`, `ReadEof`, `GetStatus`, `Close`, `Wait`; 1192-1260)
on one side, and what a command may do on the other: write to a pipe that has
room, read its input, close a stream, fork, exit, crash, or do nothing for ever.
`proc_open` runs the command through `sh -c`; a shell may wait for the program or
replace itself by it, so `child`, the process that `proc_terminate`,
`proc_get_status` and `proc_close` act on, is either. Output is counted in units:
pipes keep the order of what is written, and `data`, `pipe` and `written` are
counts. The length of the timeout is not modelled: it expires when `select`
waits and nothing is readable. `CAPTURE_STDIO` with neither stdout nor stderr is
left out (`CallsAssumption`): `select` then has no stream to wait for.

**`RunTest`** is one process. `calls` is the stack of `run_all_tests` (one nested
call at most, from a redirection), each with the tests it has left and the
`run_test` under way, whose `at` is the next section: `NextTest` and `Unparsed`,
`Unavailable`, `NotLoaded`, `Prepare` up to SKIPIF (1854-2108), `SkipCached` and
`CheckSkip` (2111-2178 with 3709-3742), `SkipZlib`, `Redirect`, `RedirectEnds`
and `RedirectEmpty` (2187-2257), `EmptyRequest`, `Execute` (2259-2480), `Retry`
(2630), `Clean` (2635), `Pass` and `Report` (2658-2807); then `TestsFinished` of
a worker or `Summarize` of the parent. What a program prints is chosen at every
run of it (passes, leaks, its headers, what `error_may_be_retried` looks for);
what a SKIPIF answers is chosen once for the circumstances it can see.
`T` gives the sections of a test, `TestRecords` their values.

**`ZendExceptions`** executes one opcode of the running frame per step. An
expression is one opcode (`DO_ICALL`) that may return, throw A or B, or exit
(`zend_throw_unwind_exit`); a destructor runs where a loop variable is freed
(`FREE`). Only these destructors throw: those of a pending return or exception that
DISCARD_EXCEPTION, the dispatch helper or `cleanup_live_vars` frees are taken not to. `HandleException` is HANDLE_EXCEPTION; the loop of the dispatch helper
(7864-7912) takes one step per try block: `GoToCatch`, `SkipFinally`,
`GoToFinally`, `ChainPrevious`, `PassBlock`, and `Uncaught` after the last. `Yield`,
`Resume` and `Destroy` are a generator's. `Running` and `InBlocks` require that the
number of the opcode or block exists; `TypeOK` says that it always does. The
functions whose C files are not in the repository (`zend_compile.c`,
`zend_generators.c`, `zend_exceptions.c`) are modelled from how the handlers use
them and marked external.

**`ZendVariables`** has numbered cells: one for all variables, one for the literal
of the empty array, the others arrays and references with a count. Each opcode is
one action that composes the inline functions of the headers (`SEPARATE_ARRAY`,
`MAKE_REF`, `AssignTo`, `Release`, `CopyTo`); `value` and `linked` record what
`PhpVariables` promises for the same opcodes, and `ValueSemantics` compares.
`tied` is set when an array is stored in an element of itself through a
reference: ASSIGN_DIM separates the array before it reads the value (2557 ff.),
and from then on the array contains itself; nothing is promised, and only the
cycle collector could free it.

**`Release`** knows a file by the build that made it. `BuildLibrary`, `MakePhp` and
`Install` follow `build.sh` (515-523, 611-675); `make install` writes a file in two steps (`BeginInstall`, `Install`), so that
one of dist may stay `Half` of what a build makes; `EndBuild` is its end or its failure
anywhere (`set -e`); `NothingToCopy`, `Truncate` and `Write` are `copy_file` of
`update.sh` with `cp` in its two steps; `Section` and `Turn` give the order of the script, the
binaries first and PHP before the others (36-93);
`StartServer` is the wrapper. The binary of a running server cannot be written.

## 3. Runs

| Run | Instance | Shows |
|---|---|---|
| `parallel_safety` | 9 tests, keys A, B and all, a test with A and B, two that run alone, a redirection to a test with key A; 3 workers; batches of up to 2; no faults | `Exclusive`, `NoTestLost`, `ReportedOnce`, `WaitingHasHolder`, `SameKeyInOrder`; refinement of `TestPool`; the run `Completes` |
| `parallel_faults` | 4 tests in every order, 2 workers; failures of spawn, late answers, crashes and PHP errors anywhere | the inductive invariant `RunInv`, which contains `IndInv`, `InProgressCounts` and `NeverStranded`; `NoFalseAlarm`; `WaitsForSomeone`; `CountsDown`; every run `Ends` |
| `process` | a test with `2>&1` and stdin of 2 units, `CAPTURE_STDIO` of stdin and stdout, of stderr only, and SKIPIF; pipes of 1 unit, up to 2 units of output per stream; exit, crash, hang, fork, interrupted select; statuses 0, 128, 139 and 160, of which the code takes 139 for a signal | `CommandInv`; `NoOutputLost`, `SurvivesOnlyTimeout`, `TermsigOfProgram` (a Termsig has one of three reasons, one of which is a program that merely exited with 129 to 159);  `TimeoutHonoured` |
| `run_test` | 12 lists of one or two of 16 kinds of tests, 3 sets of options, parent or worker | `FailuresListed` (all but the tests BORKED for an empty POST_RAW or PUT, of which the summary gives only the number: 2324-2327, 2355-2358), `ExitTruthful`, `OneResult` (one result per test, at most two runs, the classes agree with what the programs did), `SkipFresh` (a cached answer is what the script says to this command, in this directory and ENV; of another ENV only from a script that depends on it and did not say `nocache`, since the key has no ENV, 3733), `OwnDirectory`, `ReportAddsUp`, `MergesComplete`; every run `Terminates` |
| `zend_exceptions` | every nesting of two try or switch statements, calls of functions with one, generators destroyed where they yield; each expression and destructor may throw A or B or exit | `Structured` (same trace and same chain of exceptions as `TryStatement`), `ThrownOnlyToCatch`, `FreedOnce`, `NothingLeaks`; unwinding `Terminates` |
| `zend_variables` | two script variables, a function with a parameter, a static and a global variable, a foreach, one array key, 5 cells | `RefcountExact`, `Flat`, `LiteralKept`, `NothingLeaks`, `ValueSemantics` (copying cannot be observed) |
| `release` | 3 libraries, 2 binaries, an optional module, opcache; 2 builds, 2 updates, a server; a file of dist or of the runtime may stay half-written | `LinkedTogether`, `UpdateComplete`, `BinaryFirst` |
| `doc_timeout` | a SKIPIF call | violated: `fread` waits for stdout while only stderr is readable, so a hanging program is never timed out (1233; help text at 106) |
| `bug_termsig` | a SKIPIF call | violated: `stopsig` is printed as Termsig of a killed child (1250) |
| `bug_return_leak` | the programs of `zend_exceptions` | violated: the value being returned leaks when the destructor of a loop variable throws and a finally block stands before the RETURN (`zend_vm_def.h:7947`) |
| `bug_redirect_stuck` | a redirection without TESTS, then one with | violated: the second is refused as if inside the first (2190, reset only at 2222; message at 3999) |
| `doc_opcache` | the instance of `release` | violated: after a complete update of a complete build the opcache.so that the wrapper names is not there: update.sh never installs it (`update.sh:91`; comment at 82) |

`TimeoutHonoured` says exactly when the timeout works: `Benign` lists what it
relies on (stdin fits into its pipe, stderr is silent and as long open as
stdout, the child holds its output until it ends, no interrupted select).
`Returns`, without these, is what the help text promises. In the same way `NothingLeaks`
of `ZendExceptions` excepts `LostReturn`, the case of `bug_return_leak`, and
no other.

Bounds. Everything is finite in the scheduler: the list of tests, and with it the
messages, is fixed by the constants; there is no state constraint. Three workers
are the least with which one can hold a key, one wait for it and one be retired
while the other two go on; two keys, and a test with both that is listed behind the holder of B and before that of A,
make a test wait twice; with a batch size of 1, which the code makes 2, the nine
tests need several batches of each worker, and two tests that conflict with all
make the last worker merge a list of more than one. With faults two workers and four tests
reach every action; `Shuffle` makes every order a start. In `process` a pipe of one
unit is full or empty, two units of output make a full pipe with more to come, and
stdin of two units does not fit. `MaxOutput` bounds the output, so a program that prints
for ever is not covered: each line it prints restarts the timeout.
In `run_test` (321 000 states) a list has two tests because a test can bear on a later one only
through the skip cache, `$IN_REDIRECT`, the report or the results, and the lists
pair the kinds for which it can. In `zend_exceptions` (164 000 states) the nestings are two deep, where a block
can be pending under another one, in every position (body, handler, finally);
a callee or a generator adds a frame. In `zend_variables` (673 000 states)
`MaxCells` is the bound: with the variables' cell and the literal, three cells hold a reference
to an array that holds an array, or two arrays shared by a reference; an opcode that needs more is not
taken. Its `CONSTRAINT Untied` stops where an array was stored in itself. In `release`
(1 140 000 states) `MaxBuilds` and `MaxUpdates` let a build fail or stop in the middle of a file before
or after a complete one, and an update come after an interrupted one; deadlock is not checked because nobody has to start a
script again.

Fairness. `FairSpec` of `RunTestsParallel` asks weak fairness of the parent and of each worker: the
operating system schedules every process that can run, `stream_select` returns
when a socket is readable, and a signal that was sent is delivered. That a test
ends is assumed there. Nothing is asked of the faults: a crash may happen or not.
In `TestProcess` the parent, the shell and the kernel are fair, the program is
not: it may hang. `RunTest` and `ZendExceptions` have one thread each; fairness
says that it goes on (for `RunTest`, that each command returns, which is the subject of
`TestProcess`). `Completes` is checked without faults, `Ends` with all of them.

Mutants. Each property of a passing run is violated when a definition of the
model is replaced by a plausible bug, kept next to it and commented as "faulty variant":
only the first key is looked up, the sequential tests are not reset, a caught
exception is kept, the pending return is forgotten, the modules are copied before
the binary, and so on.

## 4. Proofs

`RunTestsParallelProofs` proves, for every list of tests, keys, number of
workers, batch size, order and set of faults:

- `TypeCorrect`: `Spec => []TypeOK`
- `Inductive`: `Spec => []IndInv`
- `ConflictExclusion`: `Spec => []Exclusive`

`RunTestsParallelWork` and `RunTestsParallelRefinement` continue it:

- `WorkInductive`: `Spec => []RunInv`
- `WaitersAreWaitedFor`: `Spec => []WaitingHasHolder`
- `BatchesCounted`: `Spec => []InProgressCounts`
- `WorkerIsLeft`: `Spec => []NeverStranded`
- `NoAlarmWithoutCrash`: `Spec => []NoFalseAlarm`
- `EveryTestReported`: `Spec => []NoTestLost`
- `ImplementsPool`: `Spec => ImplementsTestPool`
- `EachReportedOnce`: `Spec => []ReportedOnce`, if no redirected test has the name of a
  test of the list (`NamesApart`)
- `StartedInOrder`: `Spec => []SameKeyInOrder`, without `--shuffle`
- `NeverWaitsForNobody`: `Spec => []WaitsForSomeone`
- `EveryStepCountsDown`: `Spec => [](Left \in [1 .. 10 -> Nat]) /\ CountsDown`

Assumptions: `TestsAssumption` (no name occurs twice in the list; `array_unique` at 696 and
765), `RedirectAssumption` (a test run by a redirection does not redirect: `run_test` refuses
it, 2190) and `OptionsAssumption`. None speaks about time or fairness.

Argument. `Exclusive` speaks about the tests on lease to two workers. It
follows from `KeysHeld` (every key of a test on lease is in use by the worker
that holds it; a key is in use by one worker) and `SequentialHeldBack` (tests
that conflict with all are nowhere but in `sequentialTests` until one worker is
left). These two are not inductive alone. `Dispatch` overwrites the lease of
the worker that asked, so a worker may ask only when it holds nothing:
`ReadingHoldsNone`. That holds because a worker says `ready` once, before its
first batch, and `tests_finished` only after a batch: `ReadyOnce`, which needs
`EarlyQuiet` (nothing is said or asked before the greeting) and `Listening`
(the parent reads only workers it has not terminated). `BatchFree` says that
the keys of the batch being put together stay free, `HoldersLive` that a retired
worker holds nothing, `Spawning` and `Started` that no process appears later
that the parent would count. Each part has a lemma `...Step`, with a step per
action that can disturb it; frame lemmas (`WorkerFrame`, `ParentFrame`,
`LeaseFrame`, `ParentOrders`) settle the others.

`RunInv` adds to `IndInv` what follows a test from the queues to its result.
A key in use belongs to a running worker with a test that has it (`KeysUsed`), and
tests wait only for such keys (`WaitingForUsed`); while a batch is put together
the keys of its tests are in use for the worker that asked. A batch is in one place: on its way to the
worker, in its hands, or finished with `tests_finished` on the way back
(`BatchInOnePlace`), so one `tests_finished` is read per batch and `testsInProgress`
counts the leases. Every result of a batch is counted, on its way ahead of that
`tests_finished`, or still to come from the worker (`ResultsDue`); when the message is
read no result is outstanding, and the lease can end without a loss. The last worker is retired
only with the queues empty (`QueuesDrained`, `AllGreeted`, `GivenUp`), and the
loop ends with nothing left (`NothingLeft`), so a run that ends without an
error has every result. That a test with a redirection reports
under the names of the tests it runs, and those under their own, is where
`RedirectAssumption` is used.

`ImplementsPool` shows each step to be a step of `TestPool` or a stutter. It needs
that the queues hold each test once (`KeptOnce`): `Dispatch` takes its batch out of
the pool only if no other queue has the same test. A step that moves tests
between queues shares out the tests of two of them anew (`SharedOut`, `QueuesMove`)
and leaves the pool as it is. `Dispatch` is `Lease`; `ReadFinished` hands a lease
back; the normal end needs `NothingLeft`; giving up is `Fail`.

`EachReportedOnce` follows the names under which tests are reported. A name is in one
place: still pending, held by one worker, sent by one worker, or read (`NamesAt`, whose sets are
disjoint); a worker reports a name once for each time it holds it (`HeldOnce`, `SentOnce`). Without
`NamesApart` it is false and should be: a test that the list names both by itself and in a redirection
runs twice; the code reports a redirected one as "# redir: test" (1298), so the names differ.
`StartedInOrder` uses `QueuesOrdered`: the queue that is popped from the end holds tests with one common
key in descending order, the queues of waiting tests in ascending order (they are reversed when they are
merged), and what waits or is in the batch comes before what is still to be popped.

`NeverWaitsForNobody` and `EveryStepCountsDown` are what a proof can say about the end of a run, with all faults. The first:
where the parent waits there is something for it, a worker that is gone, or one that `CanGo` on without an answer; and
no message comes where it is not expected. Its invariant `AttendInv` says whose turn it is: a worker that has connected is in the
backlog or has been accepted, its greeting, its reply and its requests come in this order and each has one answer (`Greetings`, `TurnComes`,
`Replies`), and an idle worker of `$workerProcs` has a batch on the way or has asked for one (`Attended`). The second: every
step lowers `Left`, ten numbers of which the first that changes decides. What moves tests between the queues does not add
to those that are pending; a batch takes at least one of them away, because a batch that stays empty
retires its worker, which is the next number; what a worker is told lowers its count by being read; a redirection, which gives a worker
more to do, is used up itself (`Redirects`, by its place from the end of the batch); and what the parent has to
read comes after all that makes workers write. The lemma `NoEndlessDescent`, about the order `Lower` alone, closes it: a descent that never ends would have numbers of one length that do, by
the first of them, which can fall only so often. So no run goes on for ever, with no appeal to
fairness, and none stops in the middle as long as who can go on does, which is what `FairSpec`
asks. Only this last sentence, `Ends` itself, stays with TLC.

`TestProcessProofs` proves, for every set of calls, pipe size, bound on the output
and set of signals and statuses:

- `CommandInductive`: `Spec => []CommandInv`
- `OutputComplete`: `Spec => []NoOutputLost`
- `SurvivorTimedOut`: `Spec => []SurvivesOnlyTimeout`
- `TermsigTold`: `Spec => []TermsigOfProgram`, for any exit statuses
- `EveryStepUsesUp`: `Spec => [](Left \in Nat) /\ [][Left' < Left]_vars`
- `CallGoesOn`: `Spec /\ []Benign => []GoesOn`

`Flow` (what was written to the pipe that is read is in it or in `$data`) and
`AfterEof` (after the end of file it is empty and nobody holds it, and a fork
hands on only what is held) give the first; `Outlives` (a shell that was not
killed ends after its program, only the timeout kills, `proc_close` waits) the
second, `Fates` (a shell that was not killed ends with 128 plus the signal or with the
status of its program) the third: the code takes a status
from 129 to 159 for a signal, whatever ended the program, and `TermsigOfProgram` names that case beside the true
one and the 0 of `bug_termsig`. The last two are about the end of a call. `Left` counts the phases ahead,
the units still to be written, carried and read, and the processes with the streams they hold. `GoesOn` says that none of
the three places where the function can block does: `fwrite` has room or nobody to write to, `fread` has something to read or
the end of file, `proc_close` waits for a process that is ending. It needs `Benign`: the run `doc_timeout` shows what happens without.

`RunTestProofs` proves, for any tests, lists, options and answers, in a parent or a worker:

- `TypeCorrect`: `Spec => []TypeOK`
- `TriedTwiceAtMost`: `Spec => []TriedAgain`, the third part of `OneResult`
- `FilesInOwnDirectory`: `Spec => []OwnDirectory`
- `EveryFailureListed`: `Spec => []FailuresListed`, the empty requests excepted as the property says
- `ExitTellsFailures`: `Spec => []ExitTruthful`
- `OneResultEach`: `Spec => []OneResult`, if no list names a redirecting test both as a whole and with one of
  the tests it redirects to (`NamedOnce`)
- `SkipAnswerFresh`: `Spec => []SkipFresh`
- `MergedIsComplete`: `Spec => []MergesComplete`
- `CountedOnce`: `Spec => []ReportAddsUp`, if `NamedOnce`
- `EveryStepUsesUp`: `Spec => [](Left \in [1 .. 6 -> Nat]) /\ [][Lower(Left', Left)]_vars`, if the tests are finitely many

`RunTestAssumption` says what a list and the sections of a test can be, and that the directories are finitely
many; its `None` is no test, answer or exit status. `Tried` counts the tries by `$retried` and by where the test is, and
says what the judged try showed; `PhpChosen` says that `$php`, which a retry takes over, is the
CLI until the test has chosen and the chosen program after. Only the last call of the stack
works, the first waits for its redirection (`CallsInv`). `RedirectInv` says that `$IN_REDIRECT` is the
test of the first call exactly while there is a second, until a redirection had no TESTS (`stuck`), and that a test
past its SKIPIF was allowed to be where it is. `Proceeds`, `Returns` and `Stays` sort the actions by what they
do to the results, so that `ResultsInv` (each entry of `done` is `Recorded` in the results and in `PHP_FAILED_TESTS`) and
`UniqueInv` (one entry for each test and redirection; what is still to run is not among them) need one step for each
sort. `NamedOnce` is needed: a list that names a redirection and one of the tests
in it as well runs that one twice in the same redirection, and TLC finds it. `SkipInv` follows an answer from the script that
gave it (`CacheSaid`) to the test that acts on it (`CurrentSaid`, through a redirection
and a retry) and to its result (`DoneSaid`). `MergeInv` says that a report is of
complete suites unless a PHP warning was given (`Sound`), on which the parent gives up before it merges.
`TallyInv` says that the counters of the run are the sums of those of the suites, that an absent suite counts
nothing (so that merging may take the other one as it is: `MergeTallied`) and that the report and what was merged
count as many tests as there are entries in `done`. `MarkTallied` follows `markTestAs` through its two records;
`NewEntry`, from `UniqueInv`, is why a return counts an entry that was not there. What adding one or adding two counters does
to a sum over a finite set is shown from a smallest set for which it is not so (`SumCounted`, `SumAdded`).
`EveryStepUsesUp` counts, for the outer call and then for the redirection in it, the tests to be taken and the sections
ahead of the current one, four more before a retry; a redirection is one section of its test, and the report of
a batch is handed on once (`Ahead`, `Left`).

`ZendExceptionsProofs` proves, for every set of programs whose op_arrays are `WellFormed`
and every set of outcomes:

- `NothingRunsUnderException`: `Spec => []ThrownOnlyToCatch`
- `JumpsStayInside`: `Spec => []TypeOK`
- `FreedOnlyOnce`: `Spec => []FreedOnce`
- `NothingLeftBehind`: `Spec => []NothingLeaks`
- `UnwindingEnds`: `Spec => [](OnItsWay \in [1 .. 3 -> Nat]) /\ [][Unwinding /\ Unwinding' => Lower(OnItsWay', OnItsWay)]_vars`

`WellFormed` (`ProgramsAssumption`) is what the handlers rely on in an op_array that the compiler and `pass_two` have made, and what
TLC evaluates for each program of the runs. A block's `catch_op` is a CATCH, a CATCH that
is not the last of its block leads to a CATCH, and a loop variable freed for a return
has a live range. `OpcodesInPlace` and `BlocksInPlace` say the rest without following any execution: an opcode
that goes on has a next one, a jump has a target, and control comes into a finally block only
through a FAST_CALL that writes its variable, or from its try block; blocks are listed in the order in which
they begin, and nest. `ValuesInPlace`, `FreesInPlace` and `RangesInPlace` are about values: `Held` is the set of temporaries
that an opcode finds, read off the live ranges and the opcodes on the way to a RETURN, and each opcode
hands it on to where it leads, but for what it makes and takes; `Inside` is the set of finally blocks around an opcode that no DISCARD_EXCEPTION
before it has given up; what an opcode that may throw finds is exactly what is in its live ranges; live ranges and finally
blocks nest. All of this is about the op_array alone. That it asks nothing special of the runs' programs, which nest two deep,
`DeeperAssumption` checks on 811 statements that nest three deep.

`ThrownInv` says that the stack holds frames of the program and the outermost one is no
generator's (`StackOK`), so that there is a frame to go on with after a return,
an uncaught exception or a yield; that the dispatch helper knows the number of the
opcode (`WalkOK`), so that a block with no catch (`catch_op` 0) is not taken for one ahead; and
that a generator is suspended with nothing thrown (`Quiet`). `TopStep`, `PushStep` and `PopStep` say what
the three kinds of change do to the stack.

`JumpsInv` is needed because `TypeOK` is not inductive: FAST_RET goes on after the opcode that a
variable of the frame names, and nothing in `TypeOK` says that this variable was written. So each frame is `Placed`: the `fast_call` variables of the
finally blocks around its opcode are set (`Entered`), and one that holds the number of a
FAST_CALL holds one at which the variables around *it* are set (`VarsOK`), which is where FAST_RET then is.
Every frame below the running one is at a call (`Calls`), which has a next opcode. While the
helper walks, the blocks it has yet to see begin before the opcode it started from, and the
variables are set there (`WalkPlaced`): so a catch or finally block it enters lies ahead, and
in no finally block that was not entered (`CatchEntry`, `FinallyEntry`). A suspended generator is
`Placed` both at its YIELD, from where it is destroyed, and after it, where it is resumed (`YieldPlaced`).

`FreedOnce` and `NothingLeaks` speak of what a free found in the past, so `ValuesInv` has to say what a
frame holds at each moment: its live temporaries are `Held` at its opcode and what waits in the finally blocks it
is `Inside`, namely the operand of the RETURN that called each (`Waits`), all of these distinct, and nothing else but
values that `LostReturn` is about (`FitsAt`; for the running frame `TopFits`, for the callers `StackFits`, for a suspended generator `GeneratorFits`).
Between the opcodes the sets are others. When an opcode has thrown
it has taken its operand and made nothing (`ThrownFits`), and a FREE on the way to a RETURN is in the log as one that threw, which
is how `HANDLE_EXCEPTION` and `LostReturn` come to speak of the same case. The dispatch helper has freed everything that is in no live range
of the opcode it starts from, and of the finally blocks around that opcode it has given up those with a higher
number than `walk.offset` (`WalkFits`, `LeftAt`), in the order in which they nest (`LeftNext`); where it stops, at a CATCH or at a
finally block that lies ahead, what is left is what that opcode finds. `Framed` says that a fast_call variable holds a FAST_CALL of its
own finally block, which is why FAST_RET, DISCARD_EXCEPTION and the helper find the right operand to go on with or to free.
`MisuseLost` then says that `misuse` has only what was left behind at a `LostReturn`.

`UnwindingEnds` follows an exception through the frames: `Uncaught` gives one up, the other steps of the helper pass a block, and
`HANDLE_EXCEPTION` starts the helper once per frame. It says nothing about what runs between two exceptions: a program
may loop, so that a program ends is a property of the runs' programs only (`Terminates`).

`ZendVariablesProofs` proves, for any variables, keys, scalars and number of cells:

- `MemInvariant`: `Spec => []MemInv`
- `CountsExact`: `Spec => []RefcountExact`
- `ReferencesFlat`: `Spec => []Flat`
- `LiteralUntouched`: `Spec => []LiteralKept`
- `NothingLost`: `Spec => []NothingLeaks`
- `SharingNotSeen`: `Spec => []ValueSemantics`

No constraint is assumed: the first four hold also after an array was stored in itself. `MemInv` is
`Good(mem, UNDEF, UNDEF)` with what a frame's temporaries hold (`TempsInv`). `Good(m, y, z)` says that each cell has
the shape of its kind (`Shape`), that each zval points to a cell of its type and references are
flat (`Sound`), and that each count is the number of zvals in memory that point to the
cell, and of y and z, which are in no place of the memory (`Balanced`). With these two held values each inline function
has a lemma of its own, from `Good` to `Good`: `AddRefGood` takes a value in hand, `PutGood` exchanges it for what is in a place,
`ReleaseGood` gives it up, `NewArrayGood`, `MakeRefGood` and `DupGood` make a cell, `ArrayAtGood` separates. An
opcode composes them as the code does, and its lemma composes theirs; a temporary is the second value held while its array is separated.
`DestroyGood` is about all rounds of `rc_dtor_func`: a round takes from each count the zvals of the cells
that are freed (`DestroyDeadGood`); that the rounds make the recursive function `Destroy` is
shown from the least round that would not (`Least`).

`NothingLeaks` does not follow from the counts: two arrays that hold each other have exact ones. `Tidy(mem)` is what it needs,
as long as no array was stored in itself: no cell without a holder is left (`Dead(mem) = {}`), and of any arrays there is one that none of them
contains (`Founded`). Most operations are `Calm`: they add no link between arrays and leave no cell without a holder;
for `Destroy` the second holds because it has as many rounds as there are cells, and each frees one (`DestroyCalm`). Links are
added by separation, which gives them to a new array that nothing contains (`DupLinks`), and by storing in an
element: `SEPARATE_ARRAY` leaves the array that is written with the count 1, which its variable or reference has (`OwnApart`), so that
no array contains it and a value with a count of its own is another one. Then a cell that is not reached has a
holder that is not reached (`ReachedClosed`: `Reached` has as many rounds as there are cells), all
of these are arrays, and by `Founded` there are none.

`ValueSemantics` compares the memory with `PhpVariables`, where arrays are values, nothing is shared and a link is a set of variables. Its
inductive invariant is `MeansInv`: while no array was stored in itself there is a valuation `t` of the array cells, each array having
the values of its elements (`Valued`), under which every variable says its `value` and is the same reference as
its `linked` variables (`Seen`). `MemInv` and `Tidy` are used throughout. Each inline function has a lemma about what it leaves to be seen: nothing
(`Alike`: for `Release`, whatever it frees, `DestroyThinned`; for a count, for a copy, `DupAlike`; for a new reference, `MakeRefAlike`), a
value for a variable and those linked to it (`Becomes`: `AssignToMeans`, `CopyToMeans`), a link (`Linked`) or variables unset (`Cleared`). Writing an
element is where sharing could show: it changes one array cell, and that is the value of the variables linked to the one that is written and of
nothing else, because separation leaves that array with one holder (`OwnFacts`, `HeldByVar`, `ElementMeans`); for `$v[k][l]` the same is shown of the inner array
and then of the outer one (`InnerElementMeans`, `StoreInnerMeans`). A value read after the separation is the one promised unless it
is the array that was separated, which is when `tied` is set (`AssignDimMeans`). Last, the values that `ArrayValues` computes in as many rounds as there are cells are
those of `t`: the cells that are wrong after a round contain one that was wrong before, and by `Founded` they become fewer in each (`RoundsSuffice`).

Assumptions: `VarsAssumption` (the sets of variables are finite and disjoint) and
`BoundsAssumption`.

`ReleaseProofs` proves, for every list of libraries in which OpenSSL comes before curl, any files and any
number of builds and updates:

- `LinkedToOneBuild`: `Spec => []LinkedTogether`
- `UpdatedToDist`: `Spec => []UpdateComplete`
- `BinaryUpdatedFirst`: `Spec => []BinaryFirst`

`BuiltSoFar` says what the build under way has made: every library before `step`, and
curl against the OpenSSL of the same build. That libraries of an earlier, failed
build lie in `work/deps` does no harm because every build makes all of them before PHP.
`CopiedSoFar` says that what the update has left behind is as it is in dist, unless a build was installed
since it began; `PhpFirst` that a file of the newer build is there only after the binary is.
`ReleaseAssumption` also says that no two files of dist are one in the runtime: `php-bin` and `opcache.so` are
names of the scripts' own.

Only model-checked: `Structured` of `MCZendExceptions`; all liveness (`Completes`, `Ends`, `Terminates`, `TimeoutHonoured`). What is proved of them are the
measures: `EveryStepCountsDown` with `NeverWaitsForNobody` for `Ends`, `EveryStepUsesUp` with `CallGoesOn` for `TimeoutHonoured`, `EveryStepUsesUp` for `Terminates` of
`RunTest`, `UnwindingEnds` for that of `ZendExceptions`. With no endless descent and a fair step always at hand the property
follows by hand; that last step needs ENABLED.

Out of reach of the prover: liveness under fairness; what the recursive operators
`Eval` and `Compile` compute, and with them `Structured`. (Recursion over natural numbers, such as
`Destroy`, is not: what holds for each step follows for all of them from a least counterexample.)

## 5. Plan

Done: `TestPool`, `RunTestsParallel` and its theorems; `TestProcess` and its theorems;
`RunTest` with `SkipCache`, `JUnitReport` and its theorems; `Release` and its theorems; the exceptions and
the variables of the virtual machine, with the theorems above.

Left, in this order:

1. `ZendVariables` with foreach by reference and objects (destructors run code in the middle of an
   assignment).
2. `LineFraming`: messages in pieces over `$rawMessageBuffers`, refining the
   whole messages of `RunTestsParallel`.
3. `RunTestsParallel` composed with `TestProcess`: what becomes of the process of
   a test when its worker is terminated.
4. `zip.sh` and the CI job in `Release`.

## 6. Not modelled

- In `RunTest`: durations (SLOW), texts, the files of the logs and results,
  `--keep`, `--show`, and the nested parallel run that a redirection starts in the parent of
  a `-jN` run (1291). Two things of the code show in the model without a property of their own: under `phpdbg -rr`
  a test with EXTENSIONS is always skipped (2035), because the query for the loaded
  extensions is run with `-rr` too; and the list that `-w` writes has redirected
  tests as `# file: test` (1298), which the pattern that reads lists does not accept (441).
- In `Release`: `zip.sh`, `build.yml`, the ini files, what happens inside the build
  of one library.
- In `ZendExceptions`: a destructor that throws where DISCARD_EXCEPTION (8355-8366), the dispatch helper (7890-7903) or
  `cleanup_live_vars` frees a value; only FREE and FE_FREE run such destructors.
- In the virtual machine: objects, strings, typed references, the cycle collector, foreach by reference,
  and all other opcodes. There are two header trees, `include/Zend` (4.2.32)
  and `include/php/Zend` (4.2.34-dev); the second, which php-config names, is modelled. `zend_vm_execute.h` (64 658 lines, twice)
  is generated from `zend_vm_def.h` and is not modelled again.
- Matching of expected output and diffs, option parsing, the test file parser, `gen_stub.php`: their correctness is
  about text that TLC cannot enumerate usefully. libtool, phpize, shtool, config.guess: third-party.
- Other headers: they declare functions and structures whose code (the `.c` files of PHP) is not in the repository, or hold
  generated tables (argument information, HTML entities, opcode handlers). Of the
  some 267 000 lines of headers nearly all are of these kinds, so the share of
  them that any model can translate is small.
