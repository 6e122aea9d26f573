------------------------- MODULE RunTestsParallelInv --------------------------
(***************************************************************************)
(* The inductive invariants of RunTestsParallel, in named parts: IndInv,   *)
(* behind the exclusion property; WorkInv, which follows every test from   *)
(* the queues to its result; NamesInv, where the name of a test can still  *)
(* be; OrderInv, the order in which the queues hold tests of one key; and  *)
(* AttendInv, what there is for the parent to wait for.  Last, Left: what  *)
(* is left to do, which every step uses up.                                *)
(***************************************************************************)
EXTENDS RunTestsParallel

(* The workers started so far are the first ones, and at most workers.     *)
Spawning ==
  pc \in {"classify", "spawn"} =>
    \E m \in 0 .. workers - 1 : workerProcs = 1 .. m

(* Until all workers are greeted, a process that runs is one the parent    *)
(* started, and only such a process connects.                              *)
Started ==
  /\ \A w \in backlog : wpc[w] # "unborn"
  /\ pc \in {"classify", "spawn", "accept", "greet"} =>
       \A w \in Worker : wpc[w] # "unborn" => w \in workerProcs
  /\ pc = "greet" => reading \in workerProcs

(* The parent listens only to workers it has not terminated, and handles   *)
(* only their messages.                                                    *)
Listening ==
  /\ workerSocks \subseteq workerProcs
  /\ pc \in {"drain", "release", "batch"} => reading \in workerSocks

Early(w) == wpc[w] \in {"unborn", "connecting", "waiting", "greeted"}

Sent(w, type) == \E n \in DOMAIN toParent[w] : toParent[w][n].type = type

Ordered(w) == \E n \in DOMAIN toWorker[w] : toWorker[w][n].type = "run_tests"

(* A worker that has not replied to the greeting has asked for nothing and *)
(* been given nothing.                                                     *)
EarlyQuiet ==
  \A w \in Worker : Early(w) =>
    /\ ~Sent(w, "hello_reply") /\ ~Sent(w, "ready") /\ ~Sent(w, "tests_finished")
    /\ ~Ordered(w)
    /\ w \notin workerSocks
    /\ leased[w] = {}

(* A worker says "ready" once, before it is given anything.                *)
ReadyOnce ==
  \A w \in Worker : \A n \in DOMAIN toParent[w] : toParent[w][n].type = "ready" =>
    /\ \A m \in DOMAIN toParent[w] : toParent[w][m].type = "ready" => m = n
    /\ ~Sent(w, "tests_finished")
    /\ ~Ordered(w)
    /\ wpc[w] # "running"
    /\ leased[w] = {}

(* The worker a batch is put together for holds none.                      *)
ReadingHoldsNone ==
  pc \in {"release", "batch"} => ~Sent(reading, "ready") /\ leased[reading] = {}

(* Every key of a test on lease is in use by the worker that holds it.     *)
KeysHeld ==
  \A w \in Worker : \A t \in leased[w] : \A k \in Keys(t) :
    k \in DOMAIN activeConflicts /\ activeConflicts[k] = w

(* No key of the batch being put together is in use.                       *)
BatchFree ==
  pc = "batch" =>
    \A n \in DOMAIN files : \A k \in Keys(files[n]) : k \notin DOMAIN activeConflicts

(* Only workers that are not terminated hold tests.                        *)
HoldersLive == \A w \in Worker : leased[w] # {} => w \in workerProcs

NoneSequential(s) == \A n \in DOMAIN s : ~Sequential(s[n])

(* Tests that conflict with "all" stay in sequentialTests until at most    *)
(* one worker is left.                                                     *)
SequentialHeldBack ==
  \/ /\ pc \notin {"classify", "spawn"}
     /\ \E x \in Worker : workerProcs \subseteq {x}
  \/ /\ NoneSequential(test_files)
     /\ \A k \in Key : NoneSequential(waitingTests[k])
     /\ pc = "batch" => NoneSequential(files)
     /\ \A w \in Worker : \A t \in leased[w] : ~Sequential(t)

(* The messages on the sockets and the parent's lists of workers agree     *)
(* with where the workers are.                                             *)
ProtocolInv == /\ Spawning
               /\ Started
               /\ Listening
               /\ EarlyQuiet
               /\ ReadyOnce
               /\ ReadingHoldsNone

(* Conflict keys and sequential tests.                                     *)
LeaseInv == /\ KeysHeld
            /\ BatchFree
            /\ HoldersLive
            /\ SequentialHeldBack

IndInv == TypeOK /\ ProtocolInv /\ LeaseInv

-------------------------------------------------------------------------------
(* On top of that: the queues, the batches and the results.                *)

(* A key is in use by a worker that is not terminated and holds a test     *)
(* with that key, or has just given it back.                               *)
KeysUsed ==
  \A k \in DOMAIN activeConflicts :
    /\ activeConflicts[k] \in workerProcs
    /\ \/ \E t \in leased[activeConflicts[k]] : k \in Keys(t)
       \/ pc = "release" /\ activeConflicts[k] = reading

(* Tests wait only for a key that is in use.                               *)
WaitingForUsed ==
  \A k \in Key : waitingTests[k] # <<>> => k \in DOMAIN activeConflicts

InHand(w) == wpc[w] = "running" \/ todo[w] # <<>>

(* At most one batch is on its way to a worker, and at most one message    *)
(* that ends a batch on its way back.                                      *)
OneOrder(w) ==
  \A m, n \in DOMAIN toWorker[w] :
    toWorker[w][m].type = "run_tests" /\ toWorker[w][n].type = "run_tests" => m = n

OneFinished(w) ==
  \A m, n \in DOMAIN toParent[w] :
    toParent[w][m].type = "tests_finished" /\ toParent[w][n].type = "tests_finished"
      => m = n

(* A batch on lease is in one place: on its way to the worker, in its      *)
(* hands, or finished with the message on its way back.                    *)
InOnePlace(w) ==
  /\ leased[w] = {} => ~Ordered(w) /\ ~InHand(w) /\ ~Sent(w, "tests_finished")
  /\ Ordered(w) => ~InHand(w) /\ ~Sent(w, "tests_finished")
  /\ InHand(w) => ~Sent(w, "tests_finished")
  /\ todo[w] # <<>> => wpc[w] \in {"running", "crashed", "exited"}
  /\ OneOrder(w)
  /\ OneFinished(w)

BatchInOnePlace == \A w \in Worker : InOnePlace(w)

(* The loop is reached with every worker greeted, and no worker is         *)
(* terminated halfway.                                                     *)
AllGreeted ==
  /\ pc \in {"accept", "greet"} => workerProcs = 1 .. workers
  /\ pc \in {"loop", "read", "drain", "release", "batch"} => workerSocks = workerProcs

(* The tests are all read before the loop; and sequential tests wait for   *)
(* nothing once one worker is left to run them.                            *)
QueuesDrained ==
  /\ pc # "classify" => unread = <<>>
  /\ pc = "batch" /\ OneWorkerLeft => sequentialTests = <<>>

(* The parent takes in hand only sockets it still listens to; SIGTERM is   *)
(* for workers it has given up, and nothing else ends one while it runs.   *)
GivenUp ==
  /\ pc \in {"read", "drain", "release", "batch"} => toRead \subseteq workerSocks
  /\ pc \in {"classify", "spawn", "accept", "greet"} => signalled = {}
  /\ ~ParentOver => /\ signalled \cap workerProcs = {}
                    /\ \A w \in Worker : wpc[w] = "exited" => w \in signalled
                    /\ failure = "none"

(* The names under which the tests of a list report.                       *)
ToReport(s) == UNION {Reports(s[n]) : n \in DOMAIN s}

(* A result is on its way, ahead of the message that ends the batch.       *)
ResultSent(w, name) ==
  \E n \in DOMAIN toParent[w] :
    /\ toParent[w][n] = [type |-> "test_result", name |-> name]
    /\ \A m \in DOMAIN toParent[w] : toParent[w][m].type = "tests_finished" => n < m

OrderedTo(w, name) ==
  \E n \in DOMAIN toWorker[w] : /\ toWorker[w][n].type = "run_tests"
                                /\ name \in ToReport(toWorker[w][n].test_files)

(* A result is counted, on its way or still to come from a worker.         *)
Due(w, name) == \/ name \in test_results
                \/ ResultSent(w, name)
                \/ name \in ToReport(todo[w])
                \/ OrderedTo(w, name)

ResultsDue ==
  \A w \in Worker : \A t \in leased[w] : \A name \in Reports(t) : Due(w, name)

NothingLeft == Pending = {} /\ \A w \in Worker : leased[w] = {}

WorkInv == /\ KeysUsed
           /\ WaitingForUsed
           /\ BatchInOnePlace
           /\ InProgressCounts
           /\ AllGreeted
           /\ QueuesDrained
           /\ GivenUp
           /\ NoFalseAlarm
           /\ NeverStranded
           /\ ResultsDue
           /\ NoTestLost
           /\ pc = "done" => NothingLeft

RunInv == IndInv /\ WorkInv

-------------------------------------------------------------------------------
(* And no test is kept twice, for the refinement of TestPool.              *)

(* The queues by name; those with one list have it under the key All.      *)
Place == {"unread", "test_files", "sequential", "waiting", "files"} \X Key

Queue == [p \in Place |->
  IF p[1] = "waiting" THEN waitingTests[p[2]]
  ELSE IF p[2] # All THEN <<>>
  ELSE IF p[1] = "unread" THEN unread
  ELSE IF p[1] = "test_files" THEN test_files
  ELSE IF p[1] = "sequential" THEN sequentialTests
  ELSE IF pc = "batch" THEN files ELSE <<>>]

Once(s) == \A m, n \in DOMAIN s : s[m] = s[n] => m = n

(* No list of the family q has a test twice, and no two lists share one.   *)
Apart(q) == /\ \A p \in DOMAIN q : Once(q[p])
            /\ \A p, r \in DOMAIN q : p # r => Range(q[p]) \cap Range(q[r]) = {}

KeptOnce == Apart(Queue)

-------------------------------------------------------------------------------
(* And no result is reported twice.                                        *)

(* The names that worker w has sent a result for that is not read yet, and *)
(* those its batches have still to report.                                 *)
SentNames(w) == {name \in Test : [type |-> "test_result", name |-> name] \in Range(toParent[w])}

Orders(w) == {msg \in Range(toWorker[w]) : msg.type = "run_tests"}
HeldNames(w) == ToReport(todo[w]) \cup UNION {ToReport(msg.test_files) : msg \in Orders(w)}

(* Where a name is on the way from the list to its result.                 *)
NamePlace == ({"pending", "done"} \X {0}) \cup ({"held", "sent"} \X Worker)

NamesAt == [p \in NamePlace |->
  IF p[1] = "pending" THEN UNION {Reports(t) : t \in Pending}
  ELSE IF p[1] = "held" THEN HeldNames(p[2])
  ELSE IF p[1] = "sent" THEN SentNames(p[2])
  ELSE test_results]

Disjoint(f) == \A p, r \in DOMAIN f : p # r => f[p] \cap f[r] = {}

(* No two results on their way from a worker are the same.                 *)
ResultsOnce(s) == \A m, n \in DOMAIN s : s[m].type = "test_result" /\ s[m] = s[n] => m = n

SentOnce == \A w \in Worker : ResultsOnce(toParent[w])

(* No two tests of a list report under the same name, none twice.          *)
ReportOnce(s) ==
  \A m \in DOMAIN s : /\ Once(Redirected[s[m]])
                      /\ \A n \in DOMAIN s : m # n => Reports(s[m]) \cap Reports(s[n]) = {}

HeldOnce ==
  \A w \in Worker :
    /\ ReportOnce(todo[w])
    /\ \A msg \in Orders(w) : ReportOnce(msg.test_files)

NamesInv == /\ Pending \subseteq Tests
            /\ Disjoint(NamesAt)
            /\ SentOnce
            /\ HeldOnce
            /\ IsFiniteSet(test_results)
            /\ ReportedOnce

(* The tests of the list report under different names: a test that a       *)
(* redirection runs is reported with the name of the redirecting test.     *)
NamesApart ==
  \A t \in Tests : /\ Once(Redirected[t])
                   /\ \A u \in Tests : t # u => Reports(t) \cap Reports(u) = {}

-------------------------------------------------------------------------------
(* And the order of the tests that have the same only key.                 *)

SameKey(t, u) == \E k \in Key \ {All} : Keys(t) = {k} /\ Keys(u) = {k}

(* t is before u in the list.                                              *)
Before(t, u) == \E m, n \in DOMAIN TestList : m < n /\ TestList[m] = t /\ TestList[n] = u

Ascending(s) == \A m, n \in DOMAIN s : m < n /\ SameKey(s[m], s[n]) => Before(s[m], s[n])
Descending(s) == \A m, n \in DOMAIN s : m < n /\ SameKey(s[m], s[n]) => Before(s[n], s[m])

(* The tests of one list are all before those of another.                  *)
Ahead(r, s) == \A t \in Range(r), u \in Range(s) : SameKey(t, u) => Before(t, u)

(* The tests are read in the order of the list, handed out from the end of *)
(* test_files, and wait in the order in which they were taken from it.     *)
QueuesOrdered ==
  /\ Ascending(unread)
  /\ IF pc = "classify" THEN Ascending(test_files) ELSE Descending(test_files)
  /\ Ahead(test_files, unread)
  /\ \A k \in Key : /\ Ascending(waitingTests[k])
                    /\ Ahead(waitingTests[k], unread)
                    /\ Ahead(waitingTests[k], test_files)
  /\ pc = "batch" => Ahead(files, test_files)

(* A test waits for one of its keys, and only the tests that run alone are *)
(* kept apart.                                                             *)
QueuesByKey ==
  /\ \A t \in Range(sequentialTests) : Sequential(t)
  /\ \A k \in Key : \A t \in Range(waitingTests[k]) : k \in Keys(t)

OrderInv == QueuesOrdered /\ QueuesByKey /\ SameKeyInOrder
-------------------------------------------------------------------------------
(* And the parent never waits for nobody.                                  *)

(* A worker can be greeted only in its turn: what it has to read is the    *)
(* greeting, from when it is accepted to when it has read it.              *)
Greetings ==
  \A w \in Worker :
    /\ Early(w) => toWorker[w] = IF wpc[w] = "waiting" /\ w \notin backlog
                                   THEN <<[type |-> "hello"]>> ELSE <<>>
    /\ wpc[w] \in {"idle", "running"} =>
         \A n \in DOMAIN toWorker[w] : toWorker[w][n].type = "run_tests"

(* A connection that is not accepted is of a worker that waits, or is gone,*)
(* and the one whose reply the parent waits for is accepted.               *)
Queueing ==
  /\ \A w \in backlog : wpc[w] \in {"waiting", "crashed", "exited"} /\ w \notin workerSocks
  /\ pc = "greet" => /\ reading \notin workerSocks /\ reading \notin backlog
                     /\ wpc[reading] \notin {"unborn", "connecting"}

(* Every started worker is listened to, or its turn to be greeted comes.   *)
TurnComes ==
  /\ pc \in {"classify", "spawn"} => workerSocks = {}
  /\ pc \in {"accept", "greet"} => workerSocks # workerProcs
  /\ pc \in {"classify", "spawn", "accept", "greet"} =>
       \A w \in workerProcs : \/ w \in workerSocks \cup backlog
                              \/ wpc[w] \in {"connecting", "crashed"}
                              \/ pc = "greet" /\ w = reading

OneReply(w) ==
  \A m, n \in DOMAIN toParent[w] :
    toParent[w][m].type = "hello_reply" /\ toParent[w][n].type = "hello_reply" => m = n

(* A worker replies to the greeting once, with "ready" behind the reply.   *)
Replies ==
  \A w \in Worker :
    /\ OneReply(w)
    /\ Sent(w, "hello_reply") => Sent(w, "ready") /\ w \notin workerSocks
    /\ /\ pc \in {"classify", "spawn", "accept", "greet"}
       /\ w \notin workerSocks
       /\ wpc[w] \in {"idle", "running"}
       => Sent(w, "hello_reply")

(* A worker that the parent listens to has something to say or to do, or   *)
(* is gone, or is being given something.                                   *)
Attended ==
  \A w \in workerSocks :
    \/ Sent(w, "ready") \/ Sent(w, "tests_finished") \/ Ordered(w)
    \/ wpc[w] = "running" \/ Closed(w)
    \/ pc \in {"release", "batch"} /\ w = reading

(* Nothing is taken from a socket but by the parent, in its turn.          *)
TurnsKept ==
  /\ pc \in {"read", "drain", "release", "batch"} =>
       \A w \in toRead : toParent[w] # <<>> \/ Closed(w)
  /\ pc \in {"drain", "release", "batch"} => reading \notin toRead
  /\ pc = "read" => toRead # {}

AttendInv == /\ Greetings
             /\ Queueing
             /\ TurnComes
             /\ Replies
             /\ Attended
             /\ TurnsKept

(* A worker has a step to take that the parent need not answer first.      *)
CanGo(w) == \/ wpc[w] \in {"connecting", "greeted", "running"}
            \/ wpc[w] = "waiting" /\ toWorker[w] # <<>> /\ Head(toWorker[w]).type = "hello"
            \/ wpc[w] = "idle" /\ toWorker[w] # <<>> /\ Head(toWorker[w]).type = "run_tests"

(* Wherever the parent waits there is something for it, a worker that can  *)
(* go on, or one that is gone; and it knows every message that it reads.   *)
WaitsForSomeone ==
  /\ pc = "accept" =>
       backlog # {} \/ \E w \in workerProcs : wpc[w] \in {"connecting", "crashed"}
  /\ pc = "greet" =>
       toParent[reading] # <<>> \/ wpc[reading] = "crashed" \/ CanGo(reading)
  /\ pc = "loop" /\ MoreToDo =>
       \E w \in workerSocks : toParent[w] # <<>> \/ Closed(w) \/ CanGo(w)
  /\ pc = "read" => toRead # {}
  /\ pc = "drain" /\ toParent[reading] # <<>> =>
       Head(toParent[reading]).type \in {"test_result", "php_error", "tests_finished", "ready"}

-------------------------------------------------------------------------------
(* And every run ends: what each step uses up.                             *)

(* How far the parent is from its end, and from the loop.                  *)
Stage == [classify |-> 4, spawn |-> 3, accept |-> 2, greet |-> 2, loop |-> 1, read |-> 1,
          drain |-> 1, release |-> 1, batch |-> 1, done |-> 0, failed |-> 0]

Setup == IF pc = "classify" THEN Len(unread)
         ELSE IF pc = "spawn" THEN NWorkers - Cardinality(workerProcs)
         ELSE IF pc = "accept" THEN 2 * (NWorkers - Cardinality(workerSocks)) + 1
         ELSE IF pc = "greet" THEN 2 * (NWorkers - Cardinality(workerSocks))
         ELSE 0

(* How far the handling of a message is from the next one, and its loops   *)
(* from their ends.                                                        *)
Errand == IF pc = "release" THEN 5
          ELSE IF pc = "batch" THEN 4
          ELSE IF pc = "drain" /\ toParent[reading] = <<>> THEN 3
          ELSE IF pc = "loop" THEN 2
          ELSE IF pc = "read" THEN 1
          ELSE 0

Rounds == IF pc = "release" THEN Cardinality(DOMAIN activeConflicts)
          ELSE IF pc = "batch" THEN Len(test_files)
          ELSE 0

(* What a worker has still to do, but for what a redirection adds to it.   *)
Rank == [unborn |-> 6, connecting |-> 5, waiting |-> 4, greeted |-> 3, running |-> 2,
         idle |-> 1, crashed |-> 0, exited |-> 0]

Chores == [w \in Worker |->
             Rank[wpc[w]] + Len(todo[w]) + (IF Sent(w, "php_error") THEN 0 ELSE 1)]

(* The tests in the hands of the workers that redirect, by their places    *)
(* from the end, which stay the same while the front is worked on.         *)
RedirectsOf(s) == {m \in 1 .. Len(s) : Redirected[s[Len(s) + 1 - m]] # <<>>}
RedirectsIn(c) == UNION {{w} \X RedirectsOf(c[w]) : w \in Worker}
Redirects == RedirectsIn(todo)

(* The sum of the natural numbers f[w], as the number of places below them.*)
Places(f) == UNION {{w} \X (1 .. f[w]) : w \in Worker}
Total(f) == Cardinality(Places(f))

(* What the workers have still to read, and what the parent has.           *)
ToldWorkers == Total([w \in Worker |-> Len(toWorker[w])])
ToldParent == Total([w \in Worker |-> Len(toParent[w])])

(* What is left to do, from what is used up last to what is used up first. *)
Left == <<Stage[pc], Setup, Cardinality(Pending), Cardinality(workerProcs), ToldWorkers,
          Cardinality(Redirects), Total(Chores), ToldParent, Errand, Rounds>>

(* Of two lists of numbers, the first that they differ in decides.         *)
Lower(s, t) == \E n \in DOMAIN t : s[n] < t[n] /\ \A m \in 1 .. n - 1 : s[m] = t[m]

(* The sets that are counted are finite.                                   *)
Counted == Pending \subseteq Tests /\ IsFiniteSet(DOMAIN activeConflicts)

(* Every step, of the parent, of a worker or of the environment, uses up   *)
(* some of what is left and gives back only what is used up sooner: no     *)
(* waiting test goes round for ever between the queues, no batch comes     *)
(* back, no message is read twice, no worker is greeted again.             *)
CountsDown == [][Lower(Left', Left)]_vars
===============================================================================
