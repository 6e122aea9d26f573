--------------------------- MODULE RunTestsParallel ---------------------------
(***************************************************************************)
(* The parallel test runner of run-tests.php (-jN): run_all_tests_parallel *)
(* in the parent, run_worker in each worker process, and the sockets       *)
(* between them.  The parent classifies the tests by their conflict keys,  *)
(* starts the workers, greets each one, and then hands out batches of      *)
(* tests: a test whose key is in use waits until the batch that holds the  *)
(* key is finished, a test that conflicts with "all" waits until one       *)
(* worker is left, and a worker for which nothing is left is terminated.   *)
(*                                                                         *)
(* The parent is one thread.  pc is where it is; each loop of its message  *)
(* handler is a loop here, one iteration a step, so that the workers'      *)
(* steps interleave with it.  What a test does, its text and its result    *)
(* are not modelled: a test_result message is the name of its test.        *)
(***************************************************************************)
EXTENDS Integers, Sequences, FiniteSets, SequencesExt

CONSTANTS
  Test,              \* the names of the test files, those of redirected tests included
  Key,               \* the conflict keys
  All,               \* the key "all"
  TestList,          \* $test_files as the run is asked for it
  fileConflictsWith, \* test -> the sequence of its conflict keys
  Redirected,        \* test -> the tests its REDIRECTTEST section runs (<<>>: it has none)
  NWorkers,          \* the N of -jN
  MaxBatchSize,      \* $maxBatchSize: 1 under valgrind, 4 with --shuffle, else 32
  Shuffle,           \* --shuffle
  Faults             \* what the environment may do: a set of the kinds below

FaultKinds == {"spawn",     \* proc_open fails
               "late",      \* a worker takes more than the 5 seconds it has to answer
               "crash",     \* a worker process dies by itself
               "php_error"} \* a worker meets a PHP warning in run-tests.php itself

ASSUME TestsAssumption ==
  /\ All \in Key
  /\ TestList \in Seq(Test)
  /\ \A m, n \in DOMAIN TestList : TestList[m] = TestList[n] => m = n
  /\ fileConflictsWith \in [Test -> Seq(Key)]
  /\ Redirected \in [Test -> Seq(Test)]

(* run_test reports a test that redirects as BORKED when it is itself run  *)
(* by a redirection: it is one whose Redirected is empty.                  *)
ASSUME RedirectAssumption ==
  \A t \in Test : \A n \in DOMAIN Redirected[t] : Redirected[Redirected[t][n]] = <<>>

ASSUME OptionsAssumption ==
  /\ NWorkers \in Nat \ {0}
  /\ MaxBatchSize \in Nat \ {0}
  /\ Shuffle \in BOOLEAN
  /\ Faults \subseteq FaultKinds

Worker == 1 .. NWorkers

Keys(t) == Range(fileConflictsWith[t])

Sequential(t) == All \in Keys(t)

Tests == Range(TestList)

(* count($test_files) once the sequential tests are taken out.             *)
totalFileCount ==
  Cardinality({n \in DOMAIN TestList : ~Sequential(TestList[n])})

(* Don't start more workers than test files, and always one.               *)
workers == LET n == IF NWorkers < totalFileCount THEN NWorkers ELSE totalFileCount
           IN IF n > 1 THEN n ELSE 1

VARIABLES
  pc,               \* where the parent is
  unread,           \* the tests whose conflicts the parent has still to read
  test_files,       \* the tests to hand out; the next one is the last
  sequentialTests,  \* the tests that conflict with "all"
  waitingTests,     \* key -> the tests that wait for it (<<>>: unset)
  activeConflicts,  \* key in use -> the worker whose batch uses it
  testsInProgress,  \* the number of batches out
  workerProcs,      \* the workers started and not terminated
  workerSocks,      \* the workers whose connection the parent reads
  toRead,           \* the rest of what stream_select said is readable
  reading,          \* $i, the worker whose message is handled (0: none yet)
  files,            \* the batch being put together
  test_results,     \* the tests that have a result
  test_idx,         \* the number of results received
  failure,          \* what error() was called for ("none": it was not)
  backlog,          \* connections not accepted yet
  toWorker,         \* worker -> what it has still to read
  toParent,         \* worker -> what the parent has still to read from it
  wpc,              \* worker -> where it is
  todo,             \* worker -> the tests it has still to run
  signalled,        \* workers sent SIGTERM
  leased            \* worker -> tests sent to it, until the parent hears it is done

parentVars == <<pc, unread, test_files, sequentialTests, waitingTests, activeConflicts,
                testsInProgress, workerProcs, workerSocks, toRead, reading, files,
                test_results, test_idx, failure, leased>>
workerVars == <<wpc, todo>>
vars == <<parentVars, backlog, toWorker, toParent, workerVars, signalled>>

Pcs == {"classify", "spawn", "accept", "greet", "loop", "read", "drain", "release",
        "batch", "done", "failed"}

Failures == {"none", "spawn", "accept", "greeting", "no_such_socket", "worker_died",
             "php_error", "negative"}

ToWorkerMsg == [type : {"hello"}] \cup [type : {"run_tests"}, test_files : Seq(Test)]

ToParentMsg == [type : {"hello_reply", "ready", "tests_finished", "php_error"}]
               \cup [type : {"test_result"}, name : Test]

TypeOK ==
  /\ pc \in Pcs
  /\ unread \in Seq(Test)
  /\ test_files \in Seq(Test)
  /\ sequentialTests \in Seq(Test)
  /\ waitingTests \in [Key -> Seq(Test)]
  /\ DOMAIN activeConflicts \subseteq Key
  /\ activeConflicts \in [DOMAIN activeConflicts -> Worker]
  /\ testsInProgress \in Int
  /\ workerProcs \subseteq Worker
  /\ workerSocks \subseteq Worker
  /\ toRead \subseteq Worker
  /\ reading \in Worker \cup {0}
  /\ pc \in {"greet", "drain", "release", "batch"} => reading \in Worker
  /\ files \in Seq(Test)
  /\ test_results \subseteq Test
  /\ test_idx \in Nat
  /\ failure \in Failures
  /\ backlog \subseteq Worker
  /\ toWorker \in [Worker -> Seq(ToWorkerMsg)]
  /\ toParent \in [Worker -> Seq(ToParentMsg)]
  /\ wpc \in [Worker -> {"unborn", "connecting", "waiting", "greeted", "idle", "running",
                         "crashed", "exited"}]
  /\ todo \in [Worker -> Seq(Test)]
  /\ signalled \subseteq Worker
  /\ leased \in [Worker -> SUBSET Test]

Init ==
  /\ pc = "classify"
  /\ unread = TestList
  /\ test_files = <<>>
  /\ sequentialTests = <<>>
  /\ waitingTests = [k \in Key |-> <<>>]
  /\ activeConflicts = [k \in {} |-> 0]
  /\ testsInProgress = 0
  /\ workerProcs = {}
  /\ workerSocks = {}
  /\ toRead = {}
  /\ reading = 0
  /\ files = <<>>
  /\ test_results = {}
  /\ test_idx = 0
  /\ failure = "none"
  /\ backlog = {}
  /\ toWorker = [w \in Worker |-> <<>>]
  /\ toParent = [w \in Worker |-> <<>>]
  /\ wpc = [w \in Worker |-> "unborn"]
  /\ todo = [w \in Worker |-> <<>>]
  /\ signalled = {}
  /\ leased = [w \in Worker |-> {}]

-------------------------------------------------------------------------------
(* The groups of variables that most steps leave alone.                    *)
queues == <<test_files, sequentialTests, waitingTests>>
conflicts == <<activeConflicts, testsInProgress, leased>>
pool == <<workerProcs, workerSocks>>
tally == <<test_results, test_idx>>
network == <<backlog, toWorker, toParent>>

SendTo(w, msg) == toWorker' = [toWorker EXCEPT ![w] = Append(@, msg)]

SendParent(w, msg) == toParent' = [toParent EXCEPT ![w] = Append(@, msg)]

(* The message at hand in the drain loop is of this type.                  *)
Reading(type) == /\ pc = "drain"
                 /\ toParent[reading] # <<>>
                 /\ Head(toParent[reading]).type = type

TakeMessage == toParent' = [toParent EXCEPT ![reading] = Tail(@)]

(* SIGTERM to every worker not terminated before.                          *)
kill_children == signalled' = signalled \cup workerProcs

(* kill_children, then error(): the parent exits.                          *)
Abort(why) == /\ kill_children
              /\ pc' = "failed"
              /\ failure' = why
              /\ UNCHANGED <<unread, queues, conflicts, pool, toRead, reading, files, tally,
                             network, workerVars>>

-------------------------------------------------------------------------------
(* The parent, before the loop.                                            *)

ReadConflicts ==
  /\ pc = "classify"
  /\ unread # <<>>
  /\ unread' = Tail(unread)
  /\ IF Sequential(Head(unread))
       THEN /\ sequentialTests' = Append(sequentialTests, Head(unread))
            /\ UNCHANGED test_files
       ELSE /\ test_files' = Append(test_files, Head(unread))
            /\ UNCHANGED sequentialTests
  /\ UNCHANGED <<pc, waitingTests, conflicts, pool, toRead, reading, files, tally, failure,
                 network, workerVars, signalled>>

(* array_reverse, then shuffle if it is asked for.                         *)
OrderTests ==
  /\ pc = "classify"
  /\ unread = <<>>
  /\ pc' = "spawn"
  /\ \/ /\ ~Shuffle
        /\ test_files' = Reverse(test_files)
     \/ /\ Shuffle
        /\ \E p \in [DOMAIN test_files -> DOMAIN test_files] :
             /\ \A m, n \in DOMAIN test_files : p[m] = p[n] => m = n
             /\ test_files' = [n \in DOMAIN test_files |-> test_files[p[n]]]
  /\ UNCHANGED <<unread, sequentialTests, waitingTests, conflicts, pool, toRead, reading,
                 files, tally, failure, network, workerVars, signalled>>

Spawn ==
  LET w == Cardinality(workerProcs) + 1
  IN /\ pc = "spawn"
     /\ workerProcs' = workerProcs \cup {w}
     /\ wpc' = [wpc EXCEPT ![w] = "connecting"]
     /\ pc' = IF w = workers THEN "accept" ELSE "spawn"
     /\ UNCHANGED <<unread, queues, conflicts, workerSocks, toRead, reading, files, tally,
                    failure, network, todo, signalled>>

SpawnFails == /\ pc = "spawn"
              /\ "spawn" \in Faults
              /\ Abort("spawn")

(* Whatever the parent waits 5 seconds for may not come: its sender is     *)
(* gone, or slow.                                                          *)
MayTimeOut(senders) == "late" \in Faults \/ \E w \in senders : wpc[w] = "crashed"

Accept(w) ==
  /\ pc = "accept"
  /\ w \in backlog
  /\ backlog' = backlog \ {w}
  /\ reading' = w
  /\ SendTo(w, [type |-> "hello"])
  /\ pc' = "greet"
  /\ UNCHANGED <<unread, queues, conflicts, pool, toRead, files, tally, failure, toParent,
                 workerVars, signalled>>

AcceptFails == /\ pc = "accept"
               /\ backlog = {}
               /\ MayTimeOut(workerProcs)
               /\ Abort("accept")

(* The loop over $i ends when every worker has been greeted.               *)
ReadReply ==
  /\ pc = "greet"
  /\ toParent[reading] # <<>>
  /\ Head(toParent[reading]).type = "hello_reply"
  /\ TakeMessage
  /\ workerSocks' = workerSocks \cup {reading}
  /\ pc' = IF Cardinality(workerSocks') = workers THEN "loop" ELSE "accept"
  /\ UNCHANGED <<unread, queues, conflicts, workerProcs, toRead, reading, files, tally,
                 failure, backlog, toWorker, workerVars, signalled>>

(* No reply within 5 seconds, or something else than a hello_reply.        *)
ReplyFails ==
  /\ pc = "greet"
  /\ IF toParent[reading] = <<>>
       THEN MayTimeOut({reading})
       ELSE Head(toParent[reading]).type # "hello_reply"
  /\ Abort("greeting")

-------------------------------------------------------------------------------
(* The loop: wait for readable sockets, take each in turn, and handle what *)
(* it has sent until there is no more.                                     *)

(* Faulty variant of Closed: only an orderly end is noticed.               *)
ClosedInOrder(w) == wpc[w] = "exited"

(* The process at the other end is gone.                                   *)
Closed(w) == wpc[w] \in {"crashed", "exited"}

(* Faulty variant of MoreToDo: batches that are out are not waited for.    *)
MoreToHandOut == test_files # <<>> \/ sequentialTests # <<>>

(* The condition of the loop; it does not mention $waitingTests.           *)
MoreToDo == test_files # <<>> \/ sequentialTests # <<>> \/ testsInProgress > 0

Select ==
  /\ pc = "loop"
  /\ MoreToDo
  /\ toRead' = {w \in workerSocks : toParent[w] # <<>> \/ Closed(w)}
  /\ toRead' # {}
  /\ pc' = "read"
  /\ UNCHANGED <<unread, queues, conflicts, pool, reading, files, tally, failure, network,
                 workerVars, signalled>>

(* feof is true only once everything sent before the end has been read.    *)
TakeSocket(w) ==
  /\ pc = "read"
  /\ w \in toRead
  /\ IF w \notin workerSocks THEN Abort("no_such_socket")
     ELSE IF Closed(w) /\ toParent[w] = <<>> THEN Abort("worker_died")
     ELSE /\ toRead' = toRead \ {w}
          /\ reading' = w
          /\ pc' = "drain"
          /\ UNCHANGED <<unread, queues, conflicts, pool, files, tally, failure, network,
                         workerVars, signalled>>

(* fgets has nothing more: on to the next readable socket.                 *)
Drained ==
  /\ pc = "drain"
  /\ toParent[reading] = <<>>
  /\ pc' = IF toRead = {} THEN "loop" ELSE "read"
  /\ UNCHANGED <<unread, queues, conflicts, pool, toRead, reading, files, tally, failure,
                 network, workerVars, signalled>>

ReadResult ==
  /\ Reading("test_result")
  /\ TakeMessage
  /\ test_results' = test_results \cup {Head(toParent[reading]).name}
  /\ test_idx' = test_idx + 1
  /\ UNCHANGED <<pc, unread, queues, conflicts, pool, toRead, reading, files, failure,
                 backlog, toWorker, workerVars, signalled>>

ReadPhpError == Reading("php_error") /\ Abort("php_error")

(* Faulty variant of ReadFinished: the batch still counts.                 *)
ReadFinishedUncounted ==
  /\ Reading("tests_finished")
  /\ TakeMessage
  /\ leased' = [leased EXCEPT ![reading] = {}]
  /\ pc' = "release"
  /\ UNCHANGED <<testsInProgress, unread, queues, activeConflicts, pool, toRead, reading,
                 files, tally, failure, backlog, toWorker, workerVars, signalled>>

(* The start of case "tests_finished": the batch is over.                  *)
ReadFinished ==
  /\ Reading("tests_finished")
  /\ TakeMessage
  /\ testsInProgress' = testsInProgress - 1
  /\ leased' = [leased EXCEPT ![reading] = {}]
  /\ pc' = "release"
  /\ UNCHANGED <<unread, queues, activeConflicts, pool, toRead, reading, files, tally,
                 failure, backlog, toWorker, workerVars, signalled>>

(* Faulty variant of PopAll: the tests are appended as they are.           *)
AppendAll(tests) == tests

(* Popping a list one by one leaves its tests behind one another in        *)
(* reverse, the first of the list at the end, where test_files is popped.  *)
PopAll(tests) == Reverse(tests)

(* The foreach over $activeConflicts: each key of the worker is freed, and *)
(* the tests that wait for it are popped back onto $test_files.  The order *)
(* of the keys is not modelled.                                            *)
Release(k) ==
  /\ pc = "release"
  /\ k \in DOMAIN activeConflicts
  /\ activeConflicts[k] = reading
  /\ activeConflicts' =
       [j \in DOMAIN activeConflicts \ {k} |-> activeConflicts[j]]
  /\ test_files' = test_files \o PopAll(waitingTests[k])
  /\ waitingTests' = [waitingTests EXCEPT ![k] = <<>>]
  /\ UNCHANGED <<pc, unread, sequentialTests, testsInProgress, leased, pool, toRead, reading,
                 files, tally, failure, network, workerVars, signalled>>

(* Faulty variants of OneWorkerLeft: too early, and never.                 *)
TwoWorkersLeft == Cardinality(workerProcs) <= 2
NoWorkerLeft == Cardinality(workerProcs) = 0

OneWorkerLeft == Cardinality(workerProcs) = 1

(* Faulty variant of StartBatch: $sequentialTests is not emptied.          *)
StartBatchAgain ==
  /\ test_files' = IF OneWorkerLeft THEN test_files \o sequentialTests ELSE test_files
  /\ files' = <<>>
  /\ pc' = "batch"
  /\ UNCHANGED <<unread, sequentialTests, waitingTests, conflicts, pool, toRead, reading,
                 tally, failure, backlog, toWorker, workerVars, signalled>>

(* The start of case "ready": the sequential tests join once one worker is *)
(* left, and an empty batch is opened.                                     *)
StartBatch ==
  /\ IF OneWorkerLeft
       THEN /\ test_files' = test_files \o sequentialTests
            /\ sequentialTests' = <<>>
       ELSE UNCHANGED <<test_files, sequentialTests>>
  /\ files' = <<>>
  /\ pc' = "batch"
  /\ UNCHANGED <<unread, waitingTests, conflicts, pool, toRead, reading, tally, failure,
                 backlog, toWorker, workerVars, signalled>>

ReadReady == Reading("ready") /\ TakeMessage /\ StartBatch

(* All keys are free: fall through to case "ready".                        *)
FallThrough ==
  /\ pc = "release"
  /\ \A k \in DOMAIN activeConflicts : activeConflicts[k] # reading
  /\ UNCHANGED toParent
  /\ StartBatch

averageFilesPerWorker ==
  LET n == Cardinality(workerProcs)
      q == (totalFileCount + n - 1) \div n
  IN IF q > 1 THEN q ELSE 1

batchSize == IF MaxBatchSize < averageFilesPerWorker THEN MaxBatchSize
             ELSE averageFilesPerWorker

(* count($files) <= $batchSize && $file = array_pop($test_files)           *)
MorePops == Len(files) <= batchSize /\ test_files # <<>>

(* Faulty variant of InUse: only the first key is looked up.               *)
FirstInUse(t) == {n \in DOMAIN fileConflictsWith[t] :
                    n = 1 /\ fileConflictsWith[t][n] \in DOMAIN activeConflicts}

(* The places of the keys of a test that are in use.                       *)
InUse(t) == {n \in DOMAIN fileConflictsWith[t] :
               fileConflictsWith[t][n] \in DOMAIN activeConflicts}

PopFree ==
  /\ pc = "batch"
  /\ MorePops
  /\ InUse(Last(test_files)) = {}
  /\ test_files' = Front(test_files)
  /\ files' = Append(files, Last(test_files))
  /\ UNCHANGED <<pc, unread, sequentialTests, waitingTests, conflicts, pool, toRead, reading,
                 tally, failure, network, workerVars, signalled>>

(* Faulty variant of PopBlocked: the test waits for its first key.         *)
PopBlockedOnFirst ==
  /\ pc = "batch"
  /\ MorePops
  /\ LET file == Last(test_files)
     IN /\ InUse(file) # {}
        /\ waitingTests' = [waitingTests EXCEPT ![fileConflictsWith[file][1]] = Append(@, file)]
  /\ test_files' = Front(test_files)
  /\ UNCHANGED <<pc, unread, sequentialTests, conflicts, pool, toRead, reading, files, tally,
                 failure, network, workerVars, signalled>>

(* The test waits for the first of its keys that is in use.                *)
PopBlocked ==
  /\ pc = "batch"
  /\ MorePops
  /\ LET file == Last(test_files)
     IN \E n \in InUse(file) :
          /\ \A m \in InUse(file) : n <= m
          /\ waitingTests' =
               [waitingTests EXCEPT ![fileConflictsWith[file][n]] = Append(@, file)]
  /\ test_files' = Front(test_files)
  /\ UNCHANGED <<pc, unread, sequentialTests, conflicts, pool, toRead, reading, files, tally,
                 failure, network, workerVars, signalled>>

(* The batch goes to the worker, and with it every key of its tests.       *)
Dispatch ==
  LET keys == UNION {Keys(t) : t \in Range(files)}
  IN /\ pc = "batch"
     /\ ~MorePops
     /\ files # <<>>
     /\ activeConflicts' = [k \in keys \cup DOMAIN activeConflicts |->
                              IF k \in keys THEN reading ELSE activeConflicts[k]]
     /\ testsInProgress' = testsInProgress + 1
     /\ SendTo(reading, [type |-> "run_tests", test_files |-> files])
     /\ leased' = [leased EXCEPT ![reading] = Range(files)]
     /\ pc' = "drain"
     /\ UNCHANGED <<unread, queues, pool, toRead, reading, files, tally, failure, backlog,
                    toParent, workerVars, signalled>>

(* Faulty variant of Unset: the socket is still listened to.               *)
UnsetProc(w) == workerProcs' = workerProcs \ {w} /\ UNCHANGED workerSocks

Unset(w) == /\ workerProcs' = workerProcs \ {w}
            /\ workerSocks' = workerSocks \ {w}

(* Nothing for this worker: terminate it and start the loop over.          *)
Retire ==
  /\ pc = "batch"
  /\ ~MorePops
  /\ files = <<>>
  /\ signalled' = signalled \cup {reading}
  /\ Unset(reading)
  /\ toRead' = {}
  /\ pc' = "loop"
  /\ UNCHANGED <<unread, queues, conflicts, reading, files, tally, failure, network,
                 workerVars>>

(* The loop is over: kill_children, and error() on a negative count.       *)
Finish ==
  /\ pc = "loop"
  /\ ~MoreToDo
  /\ IF testsInProgress < 0
       THEN Abort("negative")
       ELSE /\ kill_children
            /\ pc' = "done"
            /\ UNCHANGED <<unread, queues, conflicts, pool, toRead, reading, files, tally,
                           failure, network, workerVars>>

Parent ==
  \/ ReadConflicts \/ OrderTests
  \/ Spawn \/ SpawnFails
  \/ \E w \in Worker : Accept(w)
  \/ AcceptFails \/ ReadReply \/ ReplyFails
  \/ Select
  \/ \E w \in Worker : TakeSocket(w)
  \/ Drained
  \/ ReadResult \/ ReadPhpError \/ ReadFinished
  \/ \E k \in Key : Release(k)
  \/ ReadReady \/ FallThrough
  \/ PopFree \/ PopBlocked
  \/ Dispatch \/ Retire \/ Finish

-------------------------------------------------------------------------------
(* A worker.                                                               *)

ParentOver == pc \in {"done", "failed"}

(* Moves worker w from one place to another.                               *)
WorkerStep(w, from, to) == /\ wpc[w] = from
                           /\ wpc' = [wpc EXCEPT ![w] = to]

Connect(w) ==
  /\ ~ParentOver
  /\ WorkerStep(w, "connecting", "waiting")
  /\ backlog' = backlog \cup {w}
  /\ UNCHANGED <<parentVars, toWorker, toParent, todo, signalled>>

ReadGreeting(w) ==
  /\ toWorker[w] # <<>>
  /\ Head(toWorker[w]).type = "hello"
  /\ WorkerStep(w, "waiting", "greeted")
  /\ toWorker' = [toWorker EXCEPT ![w] = Tail(@)]
  /\ UNCHANGED <<parentVars, backlog, toParent, todo, signalled>>

(* The reply to the greeting and the first "ready", one after the other.   *)
Greet(w) ==
  /\ WorkerStep(w, "greeted", "idle")
  /\ toParent' = [toParent EXCEPT ![w] = @ \o <<[type |-> "hello_reply"],
                                                [type |-> "ready"]>>]
  /\ UNCHANGED <<parentVars, backlog, toWorker, todo, signalled>>

TakeBatch(w) ==
  /\ toWorker[w] # <<>>
  /\ Head(toWorker[w]).type = "run_tests"
  /\ WorkerStep(w, "idle", "running")
  /\ todo' = [todo EXCEPT ![w] = Head(toWorker[w]).test_files]
  /\ toWorker' = [toWorker EXCEPT ![w] = Tail(@)]
  /\ UNCHANGED <<parentVars, backlog, toParent, signalled>>

(* run_test, then the test_result message.                                 *)
RunTest(w) ==
  /\ wpc[w] = "running"
  /\ todo[w] # <<>>
  /\ Redirected[Head(todo[w])] = <<>>
  /\ todo' = [todo EXCEPT ![w] = Tail(@)]
  /\ SendParent(w, [type |-> "test_result", name |-> Head(todo[w])])
  /\ UNCHANGED <<parentVars, backlog, toWorker, wpc, signalled>>

(* A test with a REDIRECTTEST section: run_test calls run_all_tests, which *)
(* runs the other tests here and now, and no result is sent for the test.  *)
Redirect(w) ==
  /\ wpc[w] = "running"
  /\ todo[w] # <<>>
  /\ Redirected[Head(todo[w])] # <<>>
  /\ todo' = [todo EXCEPT ![w] = Redirected[Head(@)] \o Tail(@)]
  /\ UNCHANGED <<parentVars, network, wpc, signalled>>

FinishBatch(w) ==
  /\ todo[w] = <<>>
  /\ WorkerStep(w, "running", "idle")
  /\ SendParent(w, [type |-> "tests_finished"])
  /\ UNCHANGED <<parentVars, backlog, toWorker, todo, signalled>>

(* The error handler reports a warning and lets the worker go on; one      *)
(* report waits to be read at a time, since the first one ends the run.    *)
ReportPhpError(w) ==
  /\ "php_error" \in Faults
  /\ wpc[w] \in {"greeted", "running"}
  /\ \A n \in DOMAIN toParent[w] : toParent[w][n].type # "php_error"
  /\ SendParent(w, [type |-> "php_error"])
  /\ UNCHANGED <<parentVars, backlog, toWorker, workerVars, signalled>>

(* The parent has exited: nothing to connect to, or the end of the socket. *)
HangUp(w) ==
  /\ ParentOver
  /\ toWorker[w] = <<>>
  /\ \E at \in {"connecting", "waiting", "idle"} : WorkerStep(w, at, "exited")
  /\ UNCHANGED <<parentVars, network, todo, signalled>>

Alive(w) == wpc[w] \notin {"unborn", "crashed", "exited"}

Terminate(w) ==
  /\ w \in signalled
  /\ Alive(w)
  /\ wpc' = [wpc EXCEPT ![w] = "exited"]
  /\ UNCHANGED <<parentVars, network, todo, signalled>>

Crash(w) ==
  /\ "crash" \in Faults
  /\ Alive(w)
  /\ wpc' = [wpc EXCEPT ![w] = "crashed"]
  /\ UNCHANGED <<parentVars, network, todo, signalled>>

Work(w) == \/ Connect(w) \/ ReadGreeting(w) \/ Greet(w)
           \/ TakeBatch(w) \/ RunTest(w) \/ Redirect(w) \/ FinishBatch(w)
           \/ HangUp(w) \/ Terminate(w)

(* The run has ended and so has every process: the system stops here.      *)
Ended == /\ ParentOver
         /\ \A w \in Worker : ~Alive(w)
         /\ UNCHANGED vars

Next == \/ Parent
        \/ \E w \in Worker : Work(w) \/ ReportPhpError(w) \/ Crash(w)
        \/ Ended

Spec == Init /\ [][Next]_vars

(* The operating system runs the parent and every worker; a test that is   *)
(* started ends (run_test gives it a timeout).                             *)
FairSpec == /\ Spec
            /\ WF_vars(Parent)
            /\ \A w \in Worker : WF_vars(Work(w))

-------------------------------------------------------------------------------
(* Properties.                                                             *)

(* The tests the parent has still to hand out, wherever it keeps them.     *)
Pending == Range(unread) \cup Range(test_files) \cup Range(sequentialTests)
           \cup (UNION {Range(waitingTests[k]) : k \in Key})
           \cup (IF pc = "batch" THEN Range(files) ELSE {})

(* Tests that may not run in two workers at once: they have a key in       *)
(* common, or one of them conflicts with "all".                            *)
Conflict(t, u) == Keys(t) \cap Keys(u) # {} \/ Sequential(t) \/ Sequential(u)

(* No two workers hold tests that conflict: what activeConflicts,          *)
(* waitingTests and the last-worker rule are for.                          *)
Exclusive ==
  \A v, w \in Worker : v # w =>
    \A t \in leased[v], u \in leased[w] : ~Conflict(t, u)

(* Every name a test reports under: its own, or those it redirects to.     *)
Reports(t) == IF Redirected[t] = <<>> THEN {t} ELSE Range(Redirected[t])

(* Between the list, the queues, the batches and the results no test of    *)
(* the run falls through, although the loop's condition does not mention   *)
(* the tests that wait; so a run that ends well has a result for each.     *)
NoTestLost ==
  /\ \A t \in Tests : \/ t \in Pending
                      \/ \E w \in Worker : t \in leased[w]
                      \/ Reports(t) \subseteq test_results
  /\ pc = "done" => \A t \in Tests : Reports(t) \subseteq test_results

(* No result comes twice, so the count of results is that of the tests.    *)
ReportedOnce == test_idx = Cardinality(test_results)

(* A test that waits for a key waits for a batch that is out (or just      *)
(* back, its keys not all freed): its release will come.                   *)
WaitingHasHolder ==
  \A k \in Key : waitingTests[k] # <<>> =>
    /\ k \in DOMAIN activeConflicts
    /\ activeConflicts[k] \in workerProcs
    /\ \/ \E t \in leased[activeConflicts[k]] : k \in Keys(t)
       \/ pc = "release" /\ activeConflicts[k] = reading

(* testsInProgress is the number of workers that hold a batch, so the loop *)
(* ends neither while a batch is out nor one short of it.                  *)
InProgressCounts ==
  testsInProgress = Cardinality({w \in Worker : leased[w] # {}})

(* While anything is left to do the parent listens to some worker: it      *)
(* never terminates the last one that the rest of the run depends on.      *)
NeverStranded ==
  pc = "loop" /\ (MoreToDo \/ Pending # {}) => workerSocks # {}

(* The parent blames a worker only for what happened: a worker it          *)
(* terminated itself never counts as one that died, and neither "should    *)
(* not happen" comes to pass.                                              *)
NoFalseAlarm ==
  /\ failure = "worker_died" => \E w \in Worker : wpc[w] = "crashed"
  /\ failure \notin {"no_such_socket", "negative"}

(* Tests whose only key is the same one are started in the order of the    *)
(* list, across reversal, batches, waiting and release.                    *)
SameKeyInOrder ==
  \A m, n \in DOMAIN TestList :
    LET t == TestList[m]
        u == TestList[n]
    IN /\ m < n
       /\ \E k \in Key \ {All} : Keys(t) = {k} /\ Keys(u) = {k}
       => ~(t \in Pending /\ u \notin Pending)

(* The run implements a pool of tests on lease to workers.                 *)
Status == IF ParentOver THEN pc ELSE "running"

TestPool == INSTANCE TestPool WITH Test <- Tests, pending <- Pending, status <- Status

ImplementsTestPool == TestPool!Spec

(* Every run ends: with its results, or with an error.                     *)
Ends == <>ParentOver

(* A run that meets no fault ends with its results, and does not fail.     *)
Completes == <>(pc = "done")
===============================================================================
