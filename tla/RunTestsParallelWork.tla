------------------------- MODULE RunTestsParallelWork -------------------------
(***************************************************************************)
(* Proofs that the scheduler of RunTestsParallel finishes its work: every  *)
(* test that waits is waited for, the count of batches is right, a worker  *)
(* is left for what is left to do, and no test is lost on its way from the *)
(* list to its results; the theorems of RunInv.                            *)
(***************************************************************************)
EXTENDS RunTestsParallelProofs

USE DEF queues, conflicts, pool, tally, network, workerVars, parentVars

-------------------------------------------------------------------------------
(* Keys and the tests that wait for them.                                  *)

(* A key stays with a worker that has a use for it.                        *)
LEMMA KeysUsedStep == RunInv /\ [Next]_vars => KeysUsed'
<1> SUFFICES ASSUME RunInv, [Next]_vars, NEW k \in DOMAIN activeConflicts'
             PROVE  /\ activeConflicts'[k] \in workerProcs'
                    /\ \/ \E t \in leased'[activeConflicts'[k]] : k \in Keys(t)
                       \/ pc' = "release" /\ activeConflicts'[k] = reading'
  BY DEF KeysUsed
<1> USE DEF RunInv, IndInv, WorkInv, KeysUsed
<1>1. CASE Dispatch
  <2> DEFINE keys == UNION {Keys(u) : u \in Range(files)}
  <2>1. /\ activeConflicts' = [j \in keys \cup DOMAIN activeConflicts |->
                                 IF j \in keys THEN reading ELSE activeConflicts[j]]
        /\ leased'[reading] = Range(files)
        /\ \A v \in Worker \ {reading} : leased'[v] = leased[v]
        /\ pc = "batch"
        /\ reading \in Worker
        /\ workerProcs' = workerProcs
    BY <1>1 DEF Dispatch, TypeOK
  <2>2. CASE k \in keys
    BY <2>1, <2>2 DEF ProtocolInv, Listening
  <2>3. CASE k \notin keys
    <3>1. PICK t \in leased[activeConflicts[k]] : k \in Keys(t)
      BY <2>1, <2>3
    <3>2. activeConflicts[k] # reading
      BY <2>1, <3>1 DEF ProtocolInv, ReadingHoldsNone
    <3> QED
      BY <2>1, <2>3, <3>1, <3>2 DEF TypeOK
  <2> QED
    BY <2>2, <2>3
<1>2. CASE ReadFinished
  <2>1. /\ activeConflicts' = activeConflicts /\ workerProcs' = workerProcs
        /\ leased' = [leased EXCEPT ![reading] = {}]
        /\ pc = "drain" /\ pc' = "release" /\ reading' = reading
    BY <1>2 DEF ReadFinished, Reading
  <2>2. PICK t \in leased[activeConflicts[k]] : k \in Keys(t)
    BY <2>1
  <2>3. activeConflicts[k] # reading => leased'[activeConflicts[k]] = leased[activeConflicts[k]]
    BY <2>1 DEF TypeOK
  <2> QED
    BY <2>1, <2>2, <2>3
<1>3. CASE \E j \in Key : Release(j)
  BY <1>3 DEF Release
<1>4. CASE FallThrough
  BY <1>4 DEF FallThrough, StartBatch
<1>5. CASE Retire
  <2>1. /\ leased[reading] = {} /\ workerProcs' = workerProcs \ {reading}
        /\ leased' = leased /\ activeConflicts' = activeConflicts /\ pc = "batch"
    BY <1>5 DEF Retire, Unset, ProtocolInv, ReadingHoldsNone
  <2> QED
    BY <2>1
<1>6. CASE /\ Parent /\ ~Dispatch /\ ~ReadFinished /\ ~FallThrough /\ ~Retire
           /\ ~(\E j \in Key : Release(j))
  <2>1. /\ UNCHANGED <<activeConflicts, leased>>
        /\ pc # "release"
        /\ workerProcs \subseteq workerProcs'
    BY <1>6 DEF Parent, ReadConflicts, OrderTests, Spawn, SpawnFails, Accept, AcceptFails,
       ReadReply, ReplyFails, Select, TakeSocket, Drained, ReadResult, ReadPhpError,
       ReadReady, StartBatch, PopFree, PopBlocked, Finish, Abort, Reading
  <2> QED
    BY <2>1
<1>7. CASE ~Parent
  BY <1>7, WorkerFrame
<1> QED
  BY <1>1, <1>2, <1>3, <1>4, <1>5, <1>6, <1>7

(* A test begins to wait only for a key in use, and a key that is freed    *)
(* lets go of every test that waits for it.                                *)
LEMMA WaitingForUsedStep == RunInv /\ [Next]_vars => WaitingForUsed'
<1> SUFFICES ASSUME RunInv, [Next]_vars, NEW k \in Key, waitingTests'[k] # <<>>
             PROVE  k \in DOMAIN activeConflicts'
  BY DEF WaitingForUsed
<1> USE DEF RunInv, IndInv, WorkInv, WaitingForUsed
<1>1. CASE PopBlocked
  <2>1. PICK n \in InUse(Last(test_files)) :
          waitingTests' = [waitingTests EXCEPT ![fileConflictsWith[Last(test_files)][n]]
                             = Append(@, Last(test_files))]
    BY <1>1 DEF PopBlocked
  <2>2. fileConflictsWith[Last(test_files)][n] \in DOMAIN activeConflicts
    BY DEF InUse
  <2>3. k # fileConflictsWith[Last(test_files)][n] => waitingTests'[k] = waitingTests[k]
    BY <2>1 DEF TypeOK
  <2> QED
    BY <1>1, <2>2, <2>3 DEF PopBlocked
<1>2. CASE \E j \in Key : Release(j)
  BY <1>2 DEF Release, TypeOK
<1>3. CASE Dispatch
  BY <1>3 DEF Dispatch
<1>4. CASE Parent /\ ~PopBlocked /\ ~Dispatch /\ ~(\E j \in Key : Release(j))
  <2>1. UNCHANGED waitingTests
    BY <1>4 DEF Parent, ReadConflicts, OrderTests, Spawn, SpawnFails, Accept, AcceptFails,
       ReadReply, ReplyFails, Select, TakeSocket, Drained, ReadResult, ReadPhpError,
       ReadFinished, ReadReady, FallThrough, StartBatch, PopFree, Retire, Finish, Abort
  <2> QED
    BY <1>4, <2>1, LeaseFrame
<1>5. CASE ~Parent
  BY <1>5, WorkerFrame
<1> QED
  BY <1>1, <1>2, <1>3, <1>4, <1>5


-------------------------------------------------------------------------------
(* Where a batch is.                                                       *)

(* A step of one worker moves nothing of another's.                        *)
LEMMA OtherWorker ==
  ASSUME TypeOK, NEW v \in Worker, Work(v) \/ ReportPhpError(v) \/ Crash(v),
         NEW w \in Worker, w # v
  PROVE  /\ wpc'[w] = wpc[w] /\ todo'[w] = todo[w]
         /\ toWorker'[w] = toWorker[w] /\ toParent'[w] = toParent[w]
BY DEF TypeOK, Work, Connect, ReadGreeting, Greet, TakeBatch, RunTest, Redirect, FinishBatch,
       HangUp, Terminate, ReportPhpError, Crash, WorkerStep, SendParent

(* Taking a message off makes no two of one kind.                          *)
LEMMA OneFinishedLess ==
  ASSUME TypeOK, NEW w \in Worker, w = reading, toParent[w] # <<>>, TakeMessage,
         OneFinished(w)
  PROVE  /\ OneFinished(w)'
         /\ Head(toParent[w]).type = "tests_finished"
              => ~Sent(w, "tests_finished")'
<1>1. /\ DOMAIN toParent'[w] = 1 .. Len(toParent[w]) - 1
      /\ DOMAIN toParent[w] = 1 .. Len(toParent[w])
      /\ Len(toParent[w]) \in Nat \ {0}
      /\ \A n \in 1 .. Len(toParent[w]) - 1 :
           toParent'[w][n] = toParent[w][n + 1]
      /\ Head(toParent[w]) = toParent[w][1]
  BY SentTail
<1>2. ASSUME NEW n \in DOMAIN toParent'[w]
      PROVE  /\ n + 1 \in DOMAIN toParent[w] /\ n + 1 # 1 /\ n \in Int
             /\ 1 \in DOMAIN toParent[w]
             /\ toParent'[w][n] = toParent[w][n + 1]
  BY <1>1
<1>3. \A m, n \in DOMAIN toParent'[w] :
        /\ toParent'[w][m].type = "tests_finished"
        /\ toParent'[w][n].type = "tests_finished"
        => m = n
  <2>1. ASSUME NEW m \in DOMAIN toParent'[w], NEW n \in DOMAIN toParent'[w],
               toParent'[w][m].type = "tests_finished",
               toParent'[w][n].type = "tests_finished"
        PROVE  m = n
    <3>1. m + 1 = n + 1
      BY <1>2, <2>1 DEF OneFinished
    <3> QED
      BY <1>2, <3>1
  <2> QED
    BY <2>1
<1>4. ASSUME Head(toParent[w]).type = "tests_finished",
             NEW n \in DOMAIN toParent'[w]
      PROVE  toParent'[w][n].type # "tests_finished"
  BY <1>1, <1>2, <1>4 DEF OneFinished
<1> QED
  BY <1>3, <1>4 DEF OneFinished, Sent


(* A worker that takes an order off its connection leaves no other.        *)
LEMMA OneOrderLess ==
  ASSUME TypeOK, NEW w \in Worker, toWorker[w] # <<>>,
         toWorker' = [toWorker EXCEPT ![w] = Tail(@)], OneOrder(w)
  PROVE  /\ OneOrder(w)'
         /\ Head(toWorker[w]).type = "run_tests" => ~Ordered(w)'
<1>1. toWorker[w] \in Seq(ToWorkerMsg) /\ toWorker'[w] = Tail(toWorker[w])
  BY DEF TypeOK
<1>2. /\ Tail(toWorker[w]) \in Seq(ToWorkerMsg)
      /\ Len(Tail(toWorker[w])) = Len(toWorker[w]) - 1
      /\ Head(toWorker[w]) = toWorker[w][1]
      /\ \A n \in 1 .. Len(toWorker[w]) - 1 : Tail(toWorker[w])[n] = toWorker[w][n + 1]
  BY <1>1, HeadType
<1>3. /\ DOMAIN toWorker[w] = 1 .. Len(toWorker[w])
      /\ Len(toWorker[w]) \in Nat \ {0}
      /\ DOMAIN toWorker'[w] = 1 .. Len(toWorker[w]) - 1
      /\ \A n \in 1 .. Len(toWorker[w]) - 1 : toWorker'[w][n] = toWorker[w][n + 1]
  <2>1. Len(toWorker[w]) \in Nat \ {0} /\ DOMAIN toWorker[w] = 1 .. Len(toWorker[w])
    BY <1>1, EmptySeq
  <2>2. DOMAIN Tail(toWorker[w]) = 1 .. Len(toWorker[w]) - 1
    BY <1>2, <2>1
  <2> QED
    BY <1>1, <1>2, <2>1, <2>2
<1>4. ASSUME NEW n \in DOMAIN toWorker'[w]
      PROVE  /\ n + 1 \in DOMAIN toWorker[w] /\ n + 1 # 1 /\ n \in Int
             /\ 1 \in DOMAIN toWorker[w]
             /\ toWorker'[w][n] = toWorker[w][n + 1]
  BY <1>2, <1>3
<1>5. ASSUME NEW m \in DOMAIN toWorker'[w], NEW n \in DOMAIN toWorker'[w],
             toWorker'[w][m].type = "run_tests", toWorker'[w][n].type = "run_tests"
      PROVE  m = n
  <2>1. m + 1 = n + 1
    BY <1>4, <1>5 DEF OneOrder
  <2> QED
    BY <1>4, <2>1
<1>6. ASSUME Head(toWorker[w]).type = "run_tests", NEW n \in DOMAIN toWorker'[w]
      PROVE  toWorker'[w][n].type # "run_tests"
  BY <1>2, <1>4, <1>6 DEF OneOrder
<1> QED
  BY <1>5, <1>6 DEF OneOrder, Ordered

(* The parent spawns a process that was not there.                         *)
LEMMA SpawnUnborn ==
  ASSUME IndInv, Spawn
  PROVE  \E v \in Worker : /\ wpc[v] = "unborn" /\ v \notin workerProcs
                           /\ wpc' = [wpc EXCEPT ![v] = "connecting"]
                           /\ workerProcs' = workerProcs \cup {v}
                           /\ UNCHANGED todo
<1> USE DEF IndInv, ProtocolInv
<1>1. PICK m \in 0 .. workers - 1 : workerProcs = 1 .. m
  BY DEF Spawn, Spawning
<1>2. Cardinality(workerProcs) = m
  BY <1>1, WorkersBound, FS_Interval
<1>3. m + 1 \in Worker /\ m + 1 \notin 1 .. m
  BY WorkersBound, OptionsAssumption DEF Worker
<1>4. wpc[m + 1] = "unborn"
  BY <1>1, <1>3 DEF Spawn, Started
<1> QED
  BY <1>1, <1>2, <1>3, <1>4 DEF Spawn

(* What a step of the parent does with a worker's batch, the sending of it *)
(* and the message that ends it aside.                                     *)
LEMMA ParentKeepsPlace ==
  ASSUME RunInv, Parent, ~Dispatch, ~ReadFinished, NEW w \in Worker
  PROVE  InOnePlace(w)'
<1> USE DEF RunInv, IndInv
<1>1. InOnePlace(w)
  BY DEF WorkInv, BatchInOnePlace
<1>2. leased'[w] = leased[w]
  BY LeaseFrame
<1>3. /\ Sent(w, "tests_finished")' => Sent(w, "tests_finished")
      /\ Ordered(w)' => Ordered(w)
  BY ParentSentLess, ParentOrders
<1>4. OneFinished(w)'
  <2>1. CASE toParent'[w] = toParent[w]
    BY <1>1, <2>1 DEF InOnePlace, OneFinished
  <2>2. CASE w = reading /\ toParent[w] # <<>> /\ TakeMessage
    BY <1>1, <2>2, OneFinishedLess DEF InOnePlace
  <2> QED
    BY <2>1, <2>2, ParentReads, SentTail
<1>5. OneOrder(w)'
  <2>1. CASE \E v \in Worker : Accept(v)
    <3>1. PICK v \in Worker : SendTo(v, [type |-> "hello"])
      BY <2>1 DEF Accept
    <3>2. toWorker[v] \in Seq(ToWorkerMsg) /\ [type |-> "hello"] \in ToWorkerMsg
      BY DEF ToWorkerMsg, TypeOK
    <3>3. /\ toWorker'[v] = Append(toWorker[v], [type |-> "hello"])
          /\ w # v => toWorker'[w] = toWorker[w]
      BY <3>1 DEF SendTo, TypeOK
    <3>4. \A n \in DOMAIN toWorker'[v] :
            toWorker'[v][n].type = "run_tests" => /\ n \in DOMAIN toWorker[v]
                                                  /\ toWorker'[v][n] = toWorker[v][n]
      BY <3>2, <3>3
    <3> QED
      BY <1>1, <3>3, <3>4 DEF InOnePlace, OneOrder
  <2>2. CASE ~(\E v \in Worker : Accept(v))
    <3>1. UNCHANGED toWorker
      BY <2>2 DEF Parent, ReadConflicts, OrderTests, Spawn, SpawnFails, AcceptFails,
         ReadReply, ReplyFails, Select, TakeSocket, Drained, ReadResult, ReadPhpError, Release,
         ReadReady, FallThrough, StartBatch, PopFree, PopBlocked, Retire, Finish, Abort
    <3> QED
      BY <1>1, <3>1 DEF InOnePlace, OneOrder
  <2> QED
    BY <2>1, <2>2
<1>6. CASE Spawn
  <2>1. todo'[w] = todo[w] /\ (wpc'[w] = wpc[w] \/ (wpc[w] = "unborn" /\ wpc'[w] = "connecting"))
    BY <1>6, SpawnUnborn DEF TypeOK
  <2> QED
    BY <1>1, <1>2, <1>3, <1>4, <1>5, <2>1 DEF InOnePlace, InHand
<1>7. CASE ~Spawn
  <2>1. UNCHANGED <<wpc, todo>>
    BY <1>7, ParentFrame
  <2> QED
    BY <1>1, <1>2, <1>3, <1>4, <1>5, <2>1 DEF InOnePlace, InHand
<1> QED
  BY <1>6, <1>7

(* Dispatch finds the worker without a batch and sends it one.             *)
LEMMA DispatchPlace ==
  ASSUME RunInv, Dispatch, NEW w \in Worker
  PROVE  InOnePlace(w)'
<1> USE DEF RunInv, IndInv
<1>1. InOnePlace(w)
  BY DEF WorkInv, BatchInOnePlace
<1>2. UNCHANGED <<wpc, todo, toParent>>
  BY DEF Dispatch
<1>3. CASE w # reading
  BY <1>1, <1>2, <1>3, DispatchFrame DEF InOnePlace, InHand, Sent, Ordered, OneOrder, OneFinished
<1>4. CASE w = reading
  <2>1. leased[w] = {}
    BY <1>4 DEF Dispatch, ProtocolInv, ReadingHoldsNone
  <2>2. leased'[w] # {}
    <3>1. leased'[w] = Range(files)
      BY <1>4 DEF Dispatch, TypeOK
    <3>2. 1 \in DOMAIN files
      <4>1. files \in Seq(Test) /\ files # <<>>
        BY DEF Dispatch, TypeOK
      <4> QED
        BY <4>1, EmptySeq
    <3> QED
      BY <3>1, <3>2 DEF Range
  <2>3. OneOrder(w)'
    <3> DEFINE msg == [type |-> "run_tests", test_files |-> files]
    <3>1. toWorker[w] \in Seq(ToWorkerMsg)
      BY DEF TypeOK
    <3>2. toWorker'[w] = Append(toWorker[w], msg)
      BY <1>4 DEF Dispatch, SendTo, TypeOK
    <3>3. \A n \in DOMAIN toWorker[w] : toWorker[w][n].type # "run_tests"
      BY <1>1, <2>1 DEF InOnePlace, Ordered
    <3>4. \A n \in DOMAIN toWorker'[w] :
            toWorker'[w][n].type = "run_tests" => n = Len(toWorker[w]) + 1
      <4> HIDE DEF msg
      <4> QED
        BY <3>1, <3>2, <3>3
    <3> QED
      BY <3>4 DEF OneOrder
  <2> QED
    BY <1>1, <1>2, <2>1, <2>2, <2>3 DEF InOnePlace, InHand, Sent, OneFinished
<1> QED
  BY <1>3, <1>4

(* The message that ends a batch is read when the worker has nothing more. *)
LEMMA ReadFinishedPlace ==
  ASSUME RunInv, ReadFinished, NEW w \in Worker
  PROVE  InOnePlace(w)'
<1> USE DEF RunInv, IndInv
<1>1. InOnePlace(w)
  BY DEF WorkInv, BatchInOnePlace
<1>2. UNCHANGED <<wpc, todo, toWorker>>
  BY DEF ReadFinished
<1>3. /\ reading \in Worker /\ toParent[reading] # <<>> /\ TakeMessage
      /\ Head(toParent[reading]).type = "tests_finished"
      /\ leased' = [leased EXCEPT ![reading] = {}]
  BY DEF ReadFinished, Reading, TypeOK
<1>4. CASE w # reading
  BY <1>1, <1>2, <1>3, <1>4, SentTail
     DEF InOnePlace, InHand, Sent, Ordered, OneOrder, OneFinished, TypeOK
<1>5. CASE w = reading
  <2>1. OneFinished(w)' /\ ~Sent(w, "tests_finished")'
    BY <1>1, <1>3, <1>5, OneFinishedLess DEF InOnePlace
  <2>2. Sent(w, "tests_finished")
    BY <1>3, <1>5, SentTail DEF Sent
  <2>3. ~Ordered(w) /\ ~InHand(w)
    BY <1>1, <2>2 DEF InOnePlace
  <2> QED
    BY <1>1, <1>2, <2>1, <2>3 DEF InOnePlace, InHand, Ordered, OneOrder
<1> QED
  BY <1>4, <1>5


(* One more message of a worker, counted if it ends a batch.               *)
LEMMA FinishedAppend ==
  ASSUME TypeOK, NEW w \in Worker, NEW msg \in ToParentMsg, SendParent(w, msg),
         OneFinished(w), msg.type = "tests_finished" => ~Sent(w, "tests_finished")
  PROVE  /\ OneFinished(w)'
         /\ msg.type # "tests_finished" /\ Sent(w, "tests_finished")' => Sent(w, "tests_finished")
<1>1. /\ DOMAIN toParent'[w] = 1 .. Len(toParent[w]) + 1
      /\ DOMAIN toParent[w] = 1 .. Len(toParent[w])
      /\ Len(toParent[w]) \in Nat
      /\ \A n \in 1 .. Len(toParent[w]) : toParent'[w][n] = toParent[w][n]
      /\ toParent'[w][Len(toParent[w]) + 1] = msg
  BY SentAppend
<1>2. ASSUME NEW n \in DOMAIN toParent'[w]
      PROVE  \/ n \in DOMAIN toParent[w] /\ toParent'[w][n] = toParent[w][n]
             \/ n = Len(toParent[w]) + 1 /\ toParent'[w][n] = msg
  BY <1>1
<1>3. CASE msg.type # "tests_finished"
  BY <1>2, <1>3 DEF OneFinished, Sent
<1>4. CASE msg.type = "tests_finished"
  <2>1. \A n \in DOMAIN toParent[w] : toParent[w][n].type # "tests_finished"
    BY <1>4 DEF Sent
  <2> QED
    BY <1>2, <1>4, <2>1 DEF OneFinished
<1> QED
  BY <1>3, <1>4

(* What a step of a worker does with its own batch.                        *)
LEMMA WorkerKeepsPlace ==
  ASSUME RunInv, NEW w \in Worker, Work(w) \/ ReportPhpError(w) \/ Crash(w),
         leased' = leased
  PROVE  InOnePlace(w)'
<1> USE DEF RunInv, IndInv
<1>1. InOnePlace(w)
  BY DEF WorkInv, BatchInOnePlace
<1>2. CASE Connect(w) \/ HangUp(w) \/ Terminate(w) \/ Crash(w)
  <2>1. /\ UNCHANGED <<todo, toWorker, toParent>>
        /\ wpc'[w] # "running"
        /\ \/ wpc'[w] \in {"crashed", "exited"}
           \/ wpc[w] = "connecting"
    BY <1>2 DEF Connect, HangUp, Terminate, Crash, WorkerStep, TypeOK
  <2> QED
    BY <1>1, <2>1 DEF InOnePlace, InHand, Ordered, Sent, OneOrder, OneFinished
<1>3. CASE ReadGreeting(w)
  <2>1. /\ toWorker[w] # <<>> /\ toWorker' = [toWorker EXCEPT ![w] = Tail(@)]
        /\ UNCHANGED <<todo, toParent>>
        /\ wpc[w] = "waiting" /\ wpc'[w] = "greeted"
    BY <1>3 DEF ReadGreeting, WorkerStep, TypeOK
  <2>2. OneOrder(w)'
    BY <1>1, <2>1, OneOrderLess DEF InOnePlace
  <2>3. Ordered(w)' => Ordered(w)
    BY <2>1, OrderedLess
  <2> QED
    BY <1>1, <2>1, <2>2, <2>3 DEF InOnePlace, InHand, Sent, OneFinished
<1>4. CASE Greet(w)
  <2>1. /\ UNCHANGED <<todo, toWorker>>
        /\ wpc[w] = "greeted" /\ wpc'[w] = "idle"
        /\ toParent[w] \in Seq(ToParentMsg)
        /\ toParent'[w] = toParent[w] \o <<[type |-> "hello_reply"], [type |-> "ready"]>>
    BY <1>4 DEF Greet, WorkerStep, TypeOK
  <2>2. ~Ordered(w) /\ ~Sent(w, "tests_finished") /\ todo[w] = <<>>
    BY <1>1, <2>1 DEF InOnePlace, ProtocolInv, EarlyQuiet, Early
  <2>3. \A n \in DOMAIN toParent[w] : toParent[w][n].type # "tests_finished"
    BY <2>2 DEF Sent
  <2>4. \A n \in DOMAIN toParent'[w] : toParent'[w][n].type # "tests_finished"
    <3>1. /\ DOMAIN toParent[w] = 1 .. Len(toParent[w])
          /\ Len(toParent[w]) \in Nat
          /\ DOMAIN toParent'[w] = 1 .. Len(toParent[w]) + 2
          /\ \A m \in 1 .. Len(toParent[w]) : toParent'[w][m] = toParent[w][m]
          /\ toParent'[w][Len(toParent[w]) + 1] = [type |-> "hello_reply"]
          /\ toParent'[w][Len(toParent[w]) + 2] = [type |-> "ready"]
      BY <2>1
    <3>2. \A n \in DOMAIN toParent'[w] :
            \/ n \in DOMAIN toParent[w]
            \/ n = Len(toParent[w]) + 1 \/ n = Len(toParent[w]) + 2
      BY <3>1
    <3> QED
      BY <2>3, <3>1, <3>2
  <2> QED
    BY <1>1, <2>1, <2>2, <2>4 DEF InOnePlace, InHand, Ordered, OneOrder, Sent, OneFinished
<1>5. CASE TakeBatch(w)
  <2>1. /\ toWorker[w] # <<>> /\ toWorker' = [toWorker EXCEPT ![w] = Tail(@)]
        /\ Head(toWorker[w]).type = "run_tests"
        /\ UNCHANGED toParent
        /\ wpc'[w] = "running"
    BY <1>5 DEF TakeBatch, WorkerStep, TypeOK
  <2>2. Ordered(w)
    <3>1. toWorker[w] \in Seq(ToWorkerMsg)
      BY DEF TypeOK
    <3>2. 1 \in DOMAIN toWorker[w] /\ Head(toWorker[w]) = toWorker[w][1]
      BY <2>1, <3>1, EmptySeq, HeadType
    <3> QED
      BY <2>1, <3>2 DEF Ordered
  <2>3. OneOrder(w)' /\ ~Ordered(w)'
    BY <1>1, <2>1, OneOrderLess DEF InOnePlace
  <2> QED
    BY <1>1, <2>1, <2>2, <2>3 DEF InOnePlace, InHand, Sent, OneFinished
<1>6. CASE RunTest(w)
  <2>1. Head(todo[w]) \in Test
    BY <1>6, HeadType DEF RunTest, TypeOK
  <2> DEFINE msg == [type |-> "test_result", name |-> Head(todo[w])]
  <2>2. /\ msg \in ToParentMsg /\ msg.type # "tests_finished" /\ SendParent(w, msg)
        /\ UNCHANGED <<toWorker, wpc>> /\ wpc[w] = "running"
    BY <1>6, <2>1 DEF RunTest, ToParentMsg
  <2> HIDE DEF msg
  <2>3. OneFinished(w)' /\ (Sent(w, "tests_finished")' => Sent(w, "tests_finished"))
    BY <1>1, <2>2, FinishedAppend DEF InOnePlace
  <2> QED
    BY <1>1, <2>2, <2>3 DEF InOnePlace, InHand, Ordered, OneOrder
<1>7. CASE Redirect(w)
  BY <1>1, <1>7 DEF Redirect, InOnePlace, InHand, Ordered, Sent, OneOrder, OneFinished
<1>8. CASE FinishBatch(w)
  <2>1. /\ [type |-> "tests_finished"] \in ToParentMsg
        /\ SendParent(w, [type |-> "tests_finished"])
        /\ UNCHANGED <<toWorker, todo>>
        /\ wpc[w] = "running" /\ wpc'[w] = "idle" /\ todo[w] = <<>>
    BY <1>8 DEF FinishBatch, WorkerStep, ToParentMsg, TypeOK
  <2>2. leased[w] # {} /\ ~Ordered(w) /\ ~Sent(w, "tests_finished")
    BY <1>1, <2>1 DEF InOnePlace, InHand
  <2>3. OneFinished(w)'
    BY <1>1, <2>1, <2>2, FinishedAppend DEF InOnePlace
  <2> QED
    BY <1>1, <2>1, <2>2, <2>3 DEF InOnePlace, InHand, Ordered, OneOrder
<1>9. CASE ReportPhpError(w)
  <2>1. /\ [type |-> "php_error"] \in ToParentMsg
        /\ SendParent(w, [type |-> "php_error"])
        /\ UNCHANGED <<toWorker, todo, wpc>>
    BY <1>9 DEF ReportPhpError, ToParentMsg
  <2>2. OneFinished(w)' /\ (Sent(w, "tests_finished")' => Sent(w, "tests_finished"))
    BY <1>1, <2>1, FinishedAppend DEF InOnePlace
  <2> QED
    BY <1>1, <2>1, <2>2 DEF InOnePlace, InHand, Ordered, OneOrder
<1> QED
  BY <1>2, <1>3, <1>4, <1>5, <1>6, <1>7, <1>8, <1>9 DEF Work

(* A batch is never in two places.                                         *)
LEMMA BatchInOnePlaceStep == RunInv /\ [Next]_vars => BatchInOnePlace'
<1> SUFFICES ASSUME RunInv, [Next]_vars, NEW w \in Worker PROVE InOnePlace(w)'
  BY DEF BatchInOnePlace
<1>1. InOnePlace(w)
  BY DEF RunInv, WorkInv, BatchInOnePlace
<1>2. CASE Parent
  BY <1>2, ParentKeepsPlace, DispatchPlace, ReadFinishedPlace
<1>3. CASE ~Parent
  <2>1. leased' = leased
    BY <1>3, WorkerFrame
  <2>2. CASE UNCHANGED vars
    BY <1>1, <2>2 DEF vars, InOnePlace, InHand, Ordered, Sent, OneOrder, OneFinished
  <2>3. ASSUME NEW v \in Worker, Work(v) \/ ReportPhpError(v) \/ Crash(v)
        PROVE  InOnePlace(w)'
    <3>1. CASE v = w
      BY <2>1, <2>3, <3>1, WorkerKeepsPlace
    <3>2. CASE v # w
      BY <1>1, <2>1, <2>3, <3>2, OtherWorker
         DEF RunInv, IndInv, InOnePlace, InHand, Ordered, Sent, OneOrder, OneFinished
    <3> QED
      BY <3>1, <3>2
  <2> QED
    BY <1>3, <2>2, <2>3, WorkerFrame
<1> QED
  BY <1>2, <1>3

(* Each batch out is counted once: the count goes up with a lease and down *)
(* with the end of one.                                                    *)
LEMMA InProgressCountsStep == RunInv /\ [Next]_vars => InProgressCounts'
<1> SUFFICES ASSUME RunInv, [Next]_vars PROVE InProgressCounts'
  OBVIOUS
<1> USE DEF RunInv, IndInv
<1> DEFINE Busy == {w \in Worker : leased[w] # {}}
<1>1. testsInProgress = Cardinality(Busy)
  BY DEF WorkInv, InProgressCounts
<1>2. IsFiniteSet(Busy)
  <2>1. 1 \in Int /\ NWorkers \in Int
    BY OptionsAssumption
  <2>2. IsFiniteSet(Worker)
    BY <2>1, FS_Interval DEF Worker
  <2> QED
    BY <2>2, FS_Subset
<1>3. CASE Dispatch
  <2>1. reading \in Worker /\ reading \notin Busy /\ testsInProgress' = testsInProgress + 1
    BY <1>3 DEF Dispatch, TypeOK, ProtocolInv, ReadingHoldsNone
  <2>2. leased' = [leased EXCEPT ![reading] = Range(files)] /\ Range(files) # {}
    <3>1. 1 \in DOMAIN files
      <4>1. files \in Seq(Test) /\ files # <<>>
        BY <1>3 DEF Dispatch, TypeOK
      <4> QED
        BY <4>1, EmptySeq
    <3> QED
      BY <1>3, <3>1 DEF Dispatch, Range
  <2>3. {w \in Worker : leased'[w] # {}} = Busy \cup {reading}
    BY <2>1, <2>2 DEF TypeOK
  <2>4. Cardinality(Busy \cup {reading}) = Cardinality(Busy) + 1
    BY <1>2, <2>1, FS_AddElement
  <2> QED
    BY <1>1, <2>1, <2>3, <2>4 DEF InProgressCounts
<1>4. CASE ReadFinished
  <2>1. /\ reading \in Worker
        /\ testsInProgress' = testsInProgress - 1
        /\ leased' = [leased EXCEPT ![reading] = {}]
    BY <1>4 DEF ReadFinished, Reading, TypeOK
  <2>2. leased[reading] # {}
    <3>1. Sent(reading, "tests_finished")
      <4>1. toParent[reading] \in Seq(ToParentMsg) /\ toParent[reading] # <<>>
        BY <1>4 DEF ReadFinished, Reading, TypeOK
      <4>2. 1 \in DOMAIN toParent[reading] /\ Head(toParent[reading]) = toParent[reading][1]
        BY <4>1, EmptySeq, HeadType
      <4> QED
        BY <1>4, <4>2 DEF ReadFinished, Reading, Sent
    <3> QED
      BY <2>1, <3>1 DEF WorkInv, BatchInOnePlace, InOnePlace
  <2>3. {w \in Worker : leased'[w] # {}} = Busy \ {reading} /\ reading \in Busy
    BY <2>1, <2>2 DEF TypeOK
  <2>4. Cardinality(Busy \ {reading}) = Cardinality(Busy) - 1
    BY <1>2, <2>3, FS_RemoveElement
  <2> QED
    BY <1>1, <2>1, <2>3, <2>4 DEF InProgressCounts
<1>5. CASE Parent /\ ~Dispatch /\ ~ReadFinished
  <2>1. UNCHANGED <<testsInProgress, leased>>
    BY <1>5 DEF Parent, ReadConflicts, OrderTests, Spawn, SpawnFails, Accept, AcceptFails,
       ReadReply, ReplyFails, Select, TakeSocket, Drained, ReadResult, ReadPhpError, Release,
       ReadReady, FallThrough, StartBatch, PopFree, PopBlocked, Retire, Finish, Abort
  <2> QED
    BY <1>1, <2>1 DEF InProgressCounts
<1>6. CASE ~Parent
  BY <1>1, <1>6, WorkerFrame DEF InProgressCounts
<1> QED
  BY <1>3, <1>4, <1>5, <1>6


-------------------------------------------------------------------------------
(* The workers left, and the end of the loop.                              *)

(* The loop begins when as many have been greeted as were started.         *)
LEMMA AllGreetedStep == RunInv /\ [Next]_vars => AllGreeted'
<1> SUFFICES ASSUME RunInv, [Next]_vars PROVE AllGreeted'
  OBVIOUS
<1> USE DEF RunInv, IndInv
<1>0. AllGreeted
  BY DEF WorkInv
<1>1. CASE Spawn
  <2>1. PICK m \in 0 .. workers - 1 : workerProcs = 1 .. m
    BY <1>1 DEF ProtocolInv, Spawning, Spawn
  <2>2. Cardinality(workerProcs) = m
    BY <2>1, WorkersBound, FS_Interval
  <2>3. workerProcs' = 1 .. m \cup {m + 1} /\ pc' \in {"accept", "spawn"}
        /\ (pc' = "accept" => m + 1 = workers)
    BY <1>1, <2>1, <2>2 DEF Spawn
  <2>4. 1 .. m \cup {m + 1} = 1 .. m + 1
    BY <2>1, WorkersBound
  <2> QED
    BY <2>3, <2>4 DEF AllGreeted
<1>2. CASE ReadReply
  <2>1. /\ workerProcs = 1 .. workers /\ workerProcs' = workerProcs
        /\ workerSocks' = workerSocks \cup {reading}
        /\ pc' = IF Cardinality(workerSocks') = workers THEN "loop" ELSE "accept"
    BY <1>0, <1>2 DEF ReadReply, AllGreeted
  <2>2. workerSocks' \subseteq workerProcs
    BY <1>2, <2>1 DEF ReadReply, ProtocolInv, Listening, Started
  <2>3. IsFiniteSet(workerProcs) /\ Cardinality(workerProcs) = workers
    BY <2>1, WorkersBound, FS_Interval
  <2>4. Cardinality(workerSocks') = workers => workerSocks' = workerProcs
    BY <2>2, <2>3, FS_Subset
  <2> QED
    BY <2>1, <2>4 DEF AllGreeted
<1>3. CASE Retire
  BY <1>0, <1>3 DEF Retire, Unset, AllGreeted
<1>4. CASE Parent /\ ~Spawn /\ ~ReadReply /\ ~Retire
  BY <1>0, <1>4 DEF Parent, ReadConflicts, OrderTests, SpawnFails, Accept, AcceptFails,
     ReplyFails, Select, TakeSocket, Drained, ReadResult, ReadPhpError, ReadFinished, Release,
     ReadReady, FallThrough, StartBatch, PopFree, PopBlocked, Dispatch, Finish, Abort, Reading,
     AllGreeted
<1>5. CASE ~Parent
  BY <1>0, <1>5, WorkerFrame DEF AllGreeted
<1> QED
  BY <1>1, <1>2, <1>3, <1>4, <1>5

(* The list is read to its end before a worker is started, and the         *)
(* sequential tests join the last worker's batch.                          *)
LEMMA QueuesDrainedStep == RunInv /\ [Next]_vars => QueuesDrained'
<1> SUFFICES ASSUME RunInv, [Next]_vars PROVE QueuesDrained'
  OBVIOUS
<1>0. QueuesDrained
  BY DEF RunInv, WorkInv
<1>1. CASE ReadReady \/ FallThrough
  BY <1>0, <1>1 DEF ReadReady, FallThrough, StartBatch, Reading, OneWorkerLeft, QueuesDrained
<1>2. CASE Parent /\ ~ReadReady /\ ~FallThrough
  BY <1>0, <1>2 DEF Parent, ReadConflicts, OrderTests, Spawn, SpawnFails, Accept, AcceptFails,
     ReadReply, ReplyFails, Select, TakeSocket, Drained, ReadResult, ReadPhpError, ReadFinished,
     Release, PopFree, PopBlocked, Dispatch, Retire, Finish, Abort, Reading, OneWorkerLeft,
     QueuesDrained
<1>3. CASE ~Parent
  BY <1>0, <1>3, WorkerFrame DEF QueuesDrained, OneWorkerLeft
<1> QED
  BY <1>1, <1>2, <1>3

(* A worker that is terminated is forgotten in the same step.              *)
LEMMA GivenUpStep == RunInv /\ [Next]_vars => GivenUp'
<1> SUFFICES ASSUME RunInv, [Next]_vars PROVE GivenUp'
  OBVIOUS
<1> USE DEF RunInv, IndInv
<1>0. GivenUp
  BY DEF WorkInv
<1>1. CASE Parent
  <2>1. pc' \in {"read", "drain", "release", "batch"} => toRead' \subseteq workerSocks'
    BY <1>0, <1>1 DEF Parent, ReadConflicts, OrderTests, Spawn, SpawnFails, Accept,
       AcceptFails, ReadReply, ReplyFails, Select, TakeSocket, Drained, ReadResult,
       ReadPhpError, ReadFinished, Release, ReadReady, FallThrough, StartBatch, PopFree,
       PopBlocked, Dispatch, Retire, Finish, Abort, Reading, GivenUp
  <2>2. pc' \in {"classify", "spawn", "accept", "greet"} => signalled' = {}
    BY <1>0, <1>1 DEF Parent, ReadConflicts, OrderTests, Spawn, SpawnFails, Accept,
       AcceptFails, ReadReply, ReplyFails, Select, TakeSocket, Drained, ReadResult,
       ReadPhpError, ReadFinished, Release, ReadReady, FallThrough, StartBatch, PopFree,
       PopBlocked, Dispatch, Retire, Finish, Abort, Reading, GivenUp
  <2>3. ASSUME ~ParentOver'
        PROVE  /\ signalled' \cap workerProcs' = {}
               /\ signalled \subseteq signalled'
               /\ failure' = "none"
    BY <1>0, <1>1, <2>3 DEF Parent, ReadConflicts, OrderTests, Spawn, SpawnFails, Accept,
       AcceptFails, ReadReply, ReplyFails, Select, TakeSocket, Drained, ReadResult,
       ReadPhpError, ReadFinished, Release, ReadReady, FallThrough, StartBatch, PopFree,
       PopBlocked, Dispatch, Retire, Unset, Finish, Abort, Reading, GivenUp, ParentOver
  <2>4. ~ParentOver
    BY <1>1 DEF Parent, ReadConflicts, OrderTests, Spawn, SpawnFails, Accept, AcceptFails,
       ReadReply, ReplyFails, Select, TakeSocket, Drained, ReadResult, ReadPhpError,
       ReadFinished, Release, ReadReady, FallThrough, StartBatch, PopFree, PopBlocked,
       Dispatch, Retire, Finish, Reading, ParentOver
  <2>5. \A w \in Worker : wpc'[w] = "exited" => wpc[w] = "exited"
    <3>1. CASE Spawn
      BY <3>1, SpawnUnborn DEF TypeOK
    <3> QED
      BY <1>1, <3>1, ParentFrame
  <2> QED
    BY <1>0, <2>1, <2>2, <2>3, <2>4, <2>5 DEF GivenUp
<1>2. CASE ~Parent
  <2>1. UNCHANGED parentVars
    BY <1>2, WorkerFrame
  <2>2. signalled' = signalled
        /\ (~ParentOver => \A w \in Worker : wpc'[w] = "exited" => w \in signalled)
    <3>1. CASE UNCHANGED vars
      BY <1>0, <3>1 DEF vars, GivenUp
    <3>2. ASSUME NEW v \in Worker, Work(v) \/ ReportPhpError(v) \/ Crash(v)
          PROVE  <2>2
      <4>1. signalled' = signalled /\ (~ParentOver => (wpc'[v] # "exited" \/ v \in signalled))
        <5>1. CASE RunTest(v) \/ Redirect(v) \/ ReportPhpError(v)
          BY <1>0, <5>1 DEF RunTest, Redirect, ReportPhpError, GivenUp
        <5>2. CASE HangUp(v)
          BY <5>2 DEF HangUp
        <5>3. CASE Terminate(v)
          BY <5>3 DEF Terminate
        <5>4. CASE Connect(v) \/ ReadGreeting(v) \/ Greet(v) \/ TakeBatch(v) \/ FinishBatch(v)
          BY <5>4 DEF Connect, ReadGreeting, Greet, TakeBatch, FinishBatch, WorkerStep, TypeOK
        <5>5. CASE Crash(v)
          BY <5>5 DEF Crash, TypeOK
        <5> QED
          BY <3>2, <5>1, <5>2, <5>3, <5>4, <5>5 DEF Work
      <4>2. \A w \in Worker : w # v => wpc'[w] = wpc[w]
        BY <3>2, OtherWorker
      <4> QED
        BY <1>0, <4>1, <4>2 DEF GivenUp
    <3> QED
      BY <1>2, <3>1, <3>2, WorkerFrame
  <2> QED
    BY <1>0, <2>1, <2>2 DEF GivenUp, ParentOver
<1> QED
  BY <1>1, <1>2

(* The parent fails for a worker only if one crashed, and counts no batch  *)
(* that is not out.                                                        *)
LEMMA NoFalseAlarmStep == RunInv /\ [Next]_vars => NoFalseAlarm'
<1> SUFFICES ASSUME RunInv, [Next]_vars PROVE NoFalseAlarm'
  OBVIOUS
<1> USE DEF RunInv, IndInv
<1>0. NoFalseAlarm /\ GivenUp
  BY DEF WorkInv
<1>1. CASE \E w \in Worker : TakeSocket(w)
  <2>1. PICK w \in Worker : TakeSocket(w)
    BY <1>1
  <2>2. /\ w \in workerSocks /\ wpc'[w] = wpc[w]
        /\ failure' \in {failure, "worker_died"}
        /\ failure' = "worker_died" => failure = "worker_died" \/ Closed(w)
    BY <1>0, <2>1 DEF TakeSocket, Abort, GivenUp
  <2>3. wpc[w] # "exited"
    BY <1>0, <2>1, <2>2 DEF TakeSocket, GivenUp, ParentOver, ProtocolInv, Listening
  <2>4. wpc' = wpc
    BY <2>1 DEF TakeSocket, Abort
  <2> QED
    BY <1>0, <2>2, <2>3, <2>4 DEF NoFalseAlarm, Closed
<1>2. CASE Finish
  <2>1. testsInProgress \in Nat
    <3>1. 1 \in Int /\ NWorkers \in Int
      BY OptionsAssumption
    <3>2. IsFiniteSet(Worker)
      BY <3>1, FS_Interval DEF Worker
    <3>3. IsFiniteSet({w \in Worker : leased[w] # {}})
      BY <3>2, FS_Subset
    <3> QED
      BY <3>3, FS_CardinalityType DEF WorkInv, InProgressCounts
  <2>2. ~(testsInProgress < 0)
    BY <2>1
  <2> QED
    BY <1>0, <1>2, <2>2 DEF Finish, NoFalseAlarm
<1>3. CASE Parent /\ ~(\E w \in Worker : TakeSocket(w)) /\ ~Finish
  <2>1. failure' \in {failure, "spawn", "accept", "greeting", "php_error"}
    BY <1>3 DEF Parent, ReadConflicts, OrderTests, Spawn, SpawnFails, Accept, AcceptFails,
       ReadReply, ReplyFails, Select, Drained, ReadResult, ReadPhpError, ReadFinished, Release,
       ReadReady, FallThrough, StartBatch, PopFree, PopBlocked, Dispatch, Retire, Abort
  <2>2. \A w \in Worker : wpc[w] = "crashed" => wpc'[w] = "crashed"
    <3>1. CASE Spawn
      BY <3>1, SpawnUnborn DEF TypeOK
    <3> QED
      BY <1>3, <3>1, ParentFrame
  <2> QED
    BY <1>0, <2>1, <2>2 DEF NoFalseAlarm
<1>4. CASE ~Parent
  <2>1. \A w \in Worker : wpc[w] = "crashed" => wpc'[w] = "crashed"
    <3>1. CASE UNCHANGED vars
      BY <3>1 DEF vars
    <3>2. ASSUME NEW v \in Worker, Work(v) \/ ReportPhpError(v) \/ Crash(v)
          PROVE  \A w \in Worker : wpc[w] = "crashed" => wpc'[w] = "crashed"
      <4>1. wpc[v] = "crashed" => wpc'[v] = "crashed"
        BY <3>2 DEF Work, Connect, ReadGreeting, Greet, TakeBatch, RunTest, Redirect,
           FinishBatch, HangUp, Terminate, ReportPhpError, Crash, WorkerStep, Alive, TypeOK
      <4> QED
        BY <3>2, <4>1, OtherWorker
    <3> QED
      BY <1>4, <3>1, <3>2, WorkerFrame
  <2> QED
    BY <1>0, <1>4, <2>1, WorkerFrame DEF NoFalseAlarm
<1> QED
  BY <1>1, <1>2, <1>3, <1>4


(* The batches out are none exactly if no worker holds any.                *)
LEMMA NoneInProgress ==
  ASSUME RunInv
  PROVE  testsInProgress <= 0 <=> \A w \in Worker : leased[w] = {}
<1> DEFINE Busy == {w \in Worker : leased[w] # {}}
<1>1. testsInProgress = Cardinality(Busy)
  BY DEF RunInv, WorkInv, InProgressCounts
<1>2. IsFiniteSet(Busy)
  <2>1. 1 \in Int /\ NWorkers \in Int
    BY OptionsAssumption
  <2>2. IsFiniteSet(Worker)
    BY <2>1, FS_Interval DEF Worker
  <2> QED
    BY <2>2, FS_Subset
<1>3. Cardinality(Busy) \in Nat /\ (Cardinality(Busy) = 0 <=> Busy = {})
  BY <1>2, FS_CardinalityType, FS_EmptySet
<1> QED
  BY <1>1, <1>3

(* With no batch out no test waits.                                        *)
LEMMA NoLeaseNoWait ==
  ASSUME RunInv, pc # "release", \A w \in Worker : leased[w] = {}
  PROVE  \A k \in Key : waitingTests[k] = <<>>
<1> USE DEF RunInv, WorkInv
<1>1. DOMAIN activeConflicts = {}
  <2>1. ASSUME NEW k \in DOMAIN activeConflicts PROVE FALSE
    <3>1. activeConflicts[k] \in Worker
      BY DEF IndInv, TypeOK
    <3> QED
      BY <3>1 DEF KeysUsed
  <2> QED
    BY <2>1
<1> QED
  BY <1>1 DEF WaitingForUsed

(* A batch can hold a test.                                                *)
LEMMA BatchSizePositive ==
  ASSUME RunInv, workerProcs # {}
  PROVE  0 <= batchSize
<1>1. Cardinality(workerProcs) \in Nat \ {0}
  <2>1. 1 \in Int /\ NWorkers \in Int
    BY OptionsAssumption
  <2>2. IsFiniteSet(Worker) /\ workerProcs \subseteq Worker
    BY <2>1, FS_Interval DEF Worker, RunInv, IndInv, TypeOK
  <2>3. IsFiniteSet(workerProcs)
    BY <2>2, FS_Subset
  <2> QED
    BY <2>3, FS_CardinalityType, FS_EmptySet
<1>2. totalFileCount \in Nat
  <2>1. DOMAIN TestList = 1 .. Len(TestList) /\ Len(TestList) \in Nat
    BY TestsAssumption
  <2>2. IsFiniteSet(1 .. Len(TestList))
    BY <2>1, FS_Interval
  <2>3. IsFiniteSet({n \in DOMAIN TestList : ~Sequential(TestList[n])})
    BY <2>1, <2>2, FS_Subset
  <2> QED
    BY <2>3, FS_CardinalityType DEF totalFileCount
<1>3. averageFilesPerWorker \in Int /\ averageFilesPerWorker >= 1
  <2>1. \A n \in Nat \ {0} : \A c \in Nat : (c + n - 1) \div n \in Int
    OBVIOUS
  <2>2. (totalFileCount + Cardinality(workerProcs) - 1) \div Cardinality(workerProcs) \in Int
    BY <1>1, <1>2, <2>1
  <2> QED
    BY <2>2 DEF averageFilesPerWorker
<1> QED
  BY <1>3, OptionsAssumption DEF batchSize

(* When the last worker is terminated nothing is left to do.               *)
LEMMA LastRetire ==
  ASSUME RunInv, Retire, workerProcs \subseteq {reading}
  PROVE  /\ test_files = <<>> /\ sequentialTests = <<>> /\ testsInProgress <= 0
         /\ unread = <<>>
         /\ \A k \in Key : waitingTests[k] = <<>>
<1> USE DEF RunInv, IndInv
<1>1. pc = "batch" /\ files = <<>> /\ reading \in workerProcs /\ leased[reading] = {}
  BY DEF Retire, ProtocolInv, Listening, ReadingHoldsNone
<1>2. workerProcs = {reading}
  BY <1>1
<1>3. test_files = <<>>
  <2>1. 0 <= batchSize
    BY <1>1, BatchSizePositive
  <2>2. Len(files) = 0
    BY <1>1
  <2> QED
    BY <2>1, <2>2 DEF Retire, MorePops
<1>4. sequentialTests = <<>> /\ unread = <<>>
  <2>1. OneWorkerLeft
    BY <1>2, FS_Singleton DEF OneWorkerLeft
  <2> QED
    BY <1>1, <2>1 DEF WorkInv, QueuesDrained
<1>5. \A w \in Worker : leased[w] = {}
  BY <1>1, <1>2 DEF LeaseInv, HoldersLive
<1> QED
  BY <1>1, <1>3, <1>4, <1>5, NoneInProgress, NoLeaseNoWait

(* The parent keeps a worker as long as anything is left.                  *)
LEMMA NeverStrandedStep == RunInv /\ [Next]_vars => NeverStranded'
<1> SUFFICES ASSUME RunInv, [Next]_vars, pc' = "loop", workerSocks' = {}
             PROVE  ~MoreToDo' /\ Pending' = {}
  BY DEF NeverStranded
<1> USE DEF RunInv, IndInv
<1>1. CASE Retire
  <2>1. workerProcs \subseteq {reading}
    BY <1>1 DEF Retire, Unset, WorkInv, AllGreeted
  <2>2. /\ test_files' = <<>> /\ sequentialTests' = <<>> /\ testsInProgress' <= 0
        /\ unread' = <<>>
        /\ \A k \in Key : waitingTests'[k] = <<>>
    BY <1>1, <2>1, LastRetire DEF Retire
  <2>3. Pending' = {}
    <3>1. Range(<<>>) = {}
      BY DEF Range
    <3> QED
      BY <2>2, <3>1 DEF Pending
  <2>4. testsInProgress' \in Int
    BY <1>1 DEF Retire, TypeOK
  <2> QED
    BY <2>2, <2>3, <2>4 DEF MoreToDo
<1>2. CASE Drained
  BY <1>2 DEF Drained, ProtocolInv, Listening
<1>3. CASE ReadReply
  BY <1>3 DEF ReadReply
<1>4. CASE Parent /\ ~Retire /\ ~Drained /\ ~ReadReply
  BY <1>4 DEF Parent, ReadConflicts, OrderTests, Spawn, SpawnFails, Accept, AcceptFails,
     ReplyFails, Select, TakeSocket, ReadResult, ReadPhpError, ReadFinished, Release,
     ReadReady, FallThrough, StartBatch, PopFree, PopBlocked, Dispatch, Finish, Abort, Reading
<1>5. CASE ~Parent
  <2>1. UNCHANGED parentVars
    BY <1>5, WorkerFrame
  <2>2. MoreToDo' = MoreToDo /\ Pending' = Pending
    BY <2>1 DEF MoreToDo, Pending
  <2> QED
    BY <2>1, <2>2 DEF WorkInv, NeverStranded
<1> QED
  BY <1>1, <1>2, <1>3, <1>4, <1>5

(* The loop ends with every queue empty and no batch out.                  *)
LEMMA DoneStep == RunInv /\ [Next]_vars => (pc = "done" => NothingLeft)'
<1> SUFFICES ASSUME RunInv, [Next]_vars, pc' = "done" PROVE NothingLeft'
  OBVIOUS
<1> USE DEF RunInv, IndInv
<1>1. CASE Finish
  <2>1. /\ test_files = <<>> /\ sequentialTests = <<>> /\ ~(testsInProgress > 0)
        /\ pc = "loop"
        /\ UNCHANGED <<unread, test_files, sequentialTests, waitingTests, leased>>
    BY <1>1 DEF Finish, MoreToDo, Abort
  <2>2. unread = <<>>
    BY <2>1 DEF WorkInv, QueuesDrained
  <2>3. testsInProgress <= 0
    BY <2>1 DEF TypeOK
  <2>4. \A w \in Worker : leased[w] = {}
    BY <2>3, NoneInProgress
  <2>5. \A k \in Key : waitingTests[k] = <<>>
    BY <2>1, <2>4, NoLeaseNoWait
  <2>6. Pending' = {}
    <3>1. Range(<<>>) = {}
      BY DEF Range
    <3> QED
      BY <2>1, <2>2, <2>5, <3>1 DEF Pending
  <2> QED
    BY <2>1, <2>4, <2>6 DEF NothingLeft
<1>2. CASE Parent /\ ~Finish
  BY <1>2 DEF Parent, ReadConflicts, OrderTests, Spawn, SpawnFails, Accept, AcceptFails,
     ReadReply, ReplyFails, Select, TakeSocket, Drained, ReadResult, ReadPhpError, ReadFinished,
     Release, ReadReady, FallThrough, StartBatch, PopFree, PopBlocked, Dispatch, Retire, Abort,
     Reading
<1>3. CASE ~Parent
  <2>1. UNCHANGED parentVars
    BY <1>3, WorkerFrame
  <2>2. Pending' = Pending /\ leased' = leased
    BY <2>1 DEF Pending
  <2> QED
    BY <2>1, <2>2 DEF WorkInv, NothingLeft
<1> QED
  BY <1>1, <1>2, <1>3

-------------------------------------------------------------------------------
(* The tests of a list.                                                    *)

(* Appending a test adds it.                                               *)
LEMMA RangeAppend ==
  ASSUME NEW S, NEW s \in Seq(S), NEW x \in S
  PROVE  Range(Append(s, x)) = Range(s) \cup {x}
<1>1. /\ DOMAIN s = 1 .. Len(s) /\ Len(s) \in Nat
      /\ DOMAIN Append(s, x) = 1 .. Len(s) + 1
      /\ \A n \in 1 .. Len(s) : Append(s, x)[n] = s[n]
      /\ Append(s, x)[Len(s) + 1] = x
  OBVIOUS
<1>2. \A n \in 1 .. Len(s) + 1 : n \in 1 .. Len(s) \/ n = Len(s) + 1
  BY <1>1
<1>3. \A n \in 1 .. Len(s) : n \in 1 .. Len(s) + 1
  BY <1>1
<1>4. Len(s) + 1 \in 1 .. Len(s) + 1
  BY <1>1
<1> QED
  BY <1>1, <1>2, <1>3, <1>4, Zenon DEF Range

(* A concatenation has the tests of both lists.                            *)
LEMMA RangeConcat ==
  ASSUME NEW S, NEW s \in Seq(S), NEW r \in Seq(S)
  PROVE  Range(s \o r) = Range(s) \cup Range(r)
<1>1. /\ DOMAIN s = 1 .. Len(s) /\ DOMAIN r = 1 .. Len(r)
      /\ Len(s) \in Nat /\ Len(r) \in Nat
      /\ DOMAIN (s \o r) = 1 .. Len(s) + Len(r)
  OBVIOUS
<1>2. \A n \in 1 .. Len(s) + Len(r) :
        \/ n \in DOMAIN s /\ (s \o r)[n] = s[n]
        \/ n - Len(s) \in DOMAIN r /\ (s \o r)[n] = r[n - Len(s)]
  BY <1>1
<1>3. \A n \in DOMAIN s : n \in DOMAIN (s \o r) /\ (s \o r)[n] = s[n]
  BY <1>1
<1>4. \A n \in DOMAIN r : Len(s) + n \in DOMAIN (s \o r) /\ (s \o r)[Len(s) + n] = r[n]
  BY <1>1
<1> QED
  BY <1>1, <1>2, <1>3, <1>4, ZenonT(30) DEF Range

(* array_reverse keeps the tests.                                          *)
LEMMA RangeReverse ==
  ASSUME NEW S, NEW s \in Seq(S)
  PROVE  Range(Reverse(s)) = Range(s)
<1>1. /\ DOMAIN s = 1 .. Len(s) /\ Len(s) \in Nat
      /\ DOMAIN Reverse(s) = 1 .. Len(s)
  BY DEF Reverse
<1>2. \A n \in 1 .. Len(s) :
        /\ Len(s) - n + 1 \in 1 .. Len(s)
        /\ Reverse(s)[n] = s[Len(s) - n + 1]
        /\ Reverse(s)[Len(s) - n + 1] = s[n]
  BY <1>1 DEF Reverse
<1>3. \A n \in 1 .. Len(s) : Reverse(s)[n] \in Range(s) /\ s[n] \in Range(Reverse(s))
  BY <1>1, <1>2 DEF Range
<1> QED
  BY <1>1, <1>3, Zenon DEF Range

(* array_pop splits the last test from the others.                         *)
LEMMA RangeFrontLast ==
  ASSUME NEW S, NEW s \in Seq(S), s # <<>>
  PROVE  Range(s) = Range(Front(s)) \cup {Last(s)}
<1>1. /\ Front(s) \in Seq(S)
      /\ Len(Front(s)) = Len(s) - 1
      /\ \A n \in 1 .. Len(s) - 1 : Front(s)[n] = s[n]
      /\ Last(s) = s[Len(s)]
  BY FrontLastType
<1>2. DOMAIN s = 1 .. Len(s) /\ Len(s) \in Nat \ {0}
  BY EmptySeq
<1>3. DOMAIN Front(s) = 1 .. Len(s) - 1
  <2>1. DOMAIN Front(s) = 1 .. Len(Front(s))
    BY <1>1
  <2> QED
    BY <1>1, <2>1
<1>4. /\ \A n \in 1 .. Len(s) : n \in 1 .. Len(s) - 1 \/ n = Len(s)
      /\ \A n \in 1 .. Len(s) - 1 : n \in 1 .. Len(s)
      /\ Len(s) \in 1 .. Len(s)
  <2> DEFINE L == Len(s)
  <2>1. L \in Nat \ {0}
    BY <1>2
  <2> HIDE DEF L
  <2>2. /\ \A n \in 1 .. L : n \in 1 .. L - 1 \/ n = L
        /\ \A n \in 1 .. L - 1 : n \in 1 .. L
        /\ L \in 1 .. L
    BY <2>1
  <2> QED
    BY <2>2 DEF L
<1>5. ASSUME NEW n \in DOMAIN s
      PROVE  s[n] \in Range(Front(s)) \/ s[n] = Last(s)
  <2>1. n = Len(s) \/ (n \in DOMAIN Front(s) /\ Front(s)[n] = s[n])
    BY <1>1, <1>2, <1>3, <1>4
  <2> QED
    BY <1>1, <2>1 DEF Range
<1>6. ASSUME NEW n \in DOMAIN Front(s)
      PROVE  Front(s)[n] \in Range(s)
  BY <1>1, <1>2, <1>3, <1>4 DEF Range
<1>7. Last(s) \in Range(s)
  BY <1>1, <1>2, <1>4 DEF Range
<1> QED
  BY <1>5, <1>6, <1>7, Zenon DEF Range

(* Taking the first test splits it from the others.                        *)
LEMMA RangeHeadTail ==
  ASSUME NEW S, NEW s \in Seq(S), s # <<>>
  PROVE  Range(s) = {Head(s)} \cup Range(Tail(s))
<1>1. /\ Tail(s) \in Seq(S)
      /\ Len(Tail(s)) = Len(s) - 1
      /\ \A n \in 1 .. Len(s) - 1 : Tail(s)[n] = s[n + 1]
      /\ Head(s) = s[1]
  BY HeadType
<1>2. DOMAIN s = 1 .. Len(s) /\ Len(s) \in Nat \ {0}
  BY EmptySeq
<1>3. DOMAIN Tail(s) = 1 .. Len(s) - 1
  <2>1. DOMAIN Tail(s) = 1 .. Len(Tail(s))
    BY <1>1
  <2> QED
    BY <1>1, <2>1
<1>4. /\ \A n \in 1 .. Len(s) : n = 1 \/ (n - 1 \in 1 .. Len(s) - 1 /\ (n - 1) + 1 = n)
      /\ \A n \in 1 .. Len(s) - 1 : n + 1 \in 1 .. Len(s)
      /\ 1 \in 1 .. Len(s)
  BY <1>2
<1>5. \A n \in 1 .. Len(s) : n = 1 \/ (n - 1 \in 1 .. Len(s) - 1 /\ Tail(s)[n - 1] = s[n])
  BY <1>1, <1>2, <1>4
<1>6. ASSUME NEW n \in DOMAIN s
      PROVE  s[n] \in Range(Tail(s)) \/ s[n] = Head(s)
  BY <1>1, <1>2, <1>3, <1>5 DEF Range
<1>7. ASSUME NEW n \in DOMAIN Tail(s)
      PROVE  Tail(s)[n] \in Range(s)
  BY <1>1, <1>2, <1>3, <1>4 DEF Range
<1>8. Head(s) \in Range(s)
  BY <1>1, <1>2, <1>4 DEF Range
<1> QED
  BY <1>6, <1>7, <1>8, Zenon DEF Range

(* shuffle keeps the tests.                                                *)
LEMMA RangePermuted ==
  ASSUME NEW S, NEW s \in Seq(S), NEW p \in [DOMAIN s -> DOMAIN s],
         \A m, n \in DOMAIN s : p[m] = p[n] => m = n
  PROVE  Range([n \in DOMAIN s |-> s[p[n]]]) = Range(s)
<1>1. DOMAIN s = 1 .. Len(s) /\ Len(s) \in Nat
  OBVIOUS
<1>2. IsFiniteSet(DOMAIN s)
  BY <1>1, FS_Interval
<1>3. p \in Injection(DOMAIN s, DOMAIN s)
  BY DEF Injection, IsInjective
<1>4. p \in Surjection(DOMAIN s, DOMAIN s)
  BY <1>2, <1>3, FS_Injection
<1>5. \A m \in DOMAIN s : \E n \in DOMAIN s : p[n] = m
  BY <1>4 DEF Surjection
<1> QED
  BY <1>5 DEF Range


-------------------------------------------------------------------------------
(* The results on their way.                                               *)

(* A list reports what its first test and the others report.               *)
LEMMA ReportHead ==
  ASSUME NEW s \in Seq(Test), s # <<>>, NEW name \in ToReport(s)
  PROVE  name \in Reports(Head(s)) \/ name \in ToReport(Tail(s))
<1>1. PICK n \in DOMAIN s : name \in Reports(s[n])
  BY DEF ToReport
<1>2. s[n] \in {Head(s)} \cup Range(Tail(s))
  BY <1>1, RangeHeadTail DEF Range
<1> QED
  BY <1>1, <1>2 DEF ToReport, Range

(* Two lists in one report what either does.                               *)
LEMMA ReportConcat ==
  ASSUME NEW r \in Seq(Test), NEW s \in Seq(Test), NEW name,
         name \in ToReport(r) \/ name \in ToReport(s)
  PROVE  name \in ToReport(r \o s)
<1>1. PICK t \in Range(r) \cup Range(s) : name \in Reports(t)
  BY DEF ToReport, Range
<1>2. t \in Range(r \o s)
  BY <1>1, RangeConcat
<1> QED
  BY <1>1, <1>2 DEF ToReport, Range

(* A message behind it leaves a result on its way.                         *)
LEMMA ResultKept ==
  ASSUME TypeOK, NEW w \in Worker, NEW msg \in ToParentMsg, SendParent(w, msg),
         NEW name, ResultSent(w, name)
  PROVE  ResultSent(w, name)'
<1>1. /\ DOMAIN toParent'[w] = 1 .. Len(toParent[w]) + 1
      /\ DOMAIN toParent[w] = 1 .. Len(toParent[w])
      /\ Len(toParent[w]) \in Nat
      /\ \A n \in 1 .. Len(toParent[w]) : toParent'[w][n] = toParent[w][n]
  BY SentAppend
<1>2. PICK n \in DOMAIN toParent[w] :
        /\ toParent[w][n] = [type |-> "test_result", name |-> name]
        /\ \A m \in DOMAIN toParent[w] : toParent[w][m].type = "tests_finished" => n < m
  BY DEF ResultSent
<1>3. n \in DOMAIN toParent'[w] /\ toParent'[w][n] = [type |-> "test_result", name |-> name]
  BY <1>1, <1>2
<1>4. ASSUME NEW m \in DOMAIN toParent'[w], toParent'[w][m].type = "tests_finished"
      PROVE  n < m
  <2>1. m \in DOMAIN toParent[w] \/ m = Len(toParent[w]) + 1
    BY <1>1
  <2>2. n < Len(toParent[w]) + 1
    BY <1>1, <1>2
  <2> QED
    BY <1>1, <1>2, <1>4, <2>1, <2>2
<1> QED
  BY <1>3, <1>4 DEF ResultSent

(* A new result is on its way when no batch has been ended.                *)
LEMMA ResultAppended ==
  ASSUME TypeOK, NEW w \in Worker, NEW name \in Test, ~Sent(w, "tests_finished"),
         SendParent(w, [type |-> "test_result", name |-> name])
  PROVE  ResultSent(w, name)'
<1> DEFINE msg == [type |-> "test_result", name |-> name]
<1>1. msg \in ToParentMsg /\ msg.type # "tests_finished"
  BY DEF ToParentMsg
<1>2. SendParent(w, msg)
  OBVIOUS
<1> HIDE DEF msg
<1>3. /\ DOMAIN toParent'[w] = 1 .. Len(toParent[w]) + 1
      /\ DOMAIN toParent[w] = 1 .. Len(toParent[w])
      /\ Len(toParent[w]) \in Nat
      /\ \A n \in 1 .. Len(toParent[w]) : toParent'[w][n] = toParent[w][n]
      /\ toParent'[w][Len(toParent[w]) + 1] = msg
  BY <1>1, <1>2, SentAppend
<1>4. \A m \in DOMAIN toParent'[w] : toParent'[w][m].type # "tests_finished"
  <2>1. ASSUME NEW m \in DOMAIN toParent'[w] PROVE m \in DOMAIN toParent[w] \/ m = Len(toParent[w]) + 1
    BY <1>3
  <2> QED
    BY <1>1, <1>3, <2>1 DEF Sent
<1>5. Len(toParent[w]) + 1 \in DOMAIN toParent'[w]
  BY <1>3
<1> QED
  BY <1>3, <1>4, <1>5 DEF ResultSent, msg

(* A result that is not the message taken is still on its way.             *)
LEMMA ResultTaken ==
  ASSUME TypeOK, NEW w \in Worker, w = reading, toParent[w] # <<>>, TakeMessage,
         NEW name, ResultSent(w, name)
  PROVE  \/ Head(toParent[w]) = [type |-> "test_result", name |-> name]
         \/ ResultSent(w, name)'
<1>1. /\ DOMAIN toParent'[w] = 1 .. Len(toParent[w]) - 1
      /\ DOMAIN toParent[w] = 1 .. Len(toParent[w])
      /\ Len(toParent[w]) \in Nat \ {0}
      /\ \A n \in 1 .. Len(toParent[w]) - 1 : toParent'[w][n] = toParent[w][n + 1]
      /\ Head(toParent[w]) = toParent[w][1]
  BY SentTail
<1>2. PICK n \in DOMAIN toParent[w] :
        /\ toParent[w][n] = [type |-> "test_result", name |-> name]
        /\ \A m \in DOMAIN toParent[w] : toParent[w][m].type = "tests_finished" => n < m
  BY DEF ResultSent
<1>3. CASE n = 1
  BY <1>1, <1>2, <1>3
<1>4. CASE n # 1
  <2>1. n - 1 \in DOMAIN toParent'[w] /\ toParent'[w][n - 1] = toParent[w][n]
    <3>1. n - 1 \in 1 .. Len(toParent[w]) - 1 /\ (n - 1) + 1 = n
      BY <1>1, <1>4
    <3> QED
      BY <1>1, <3>1
  <2>2. ASSUME NEW m \in DOMAIN toParent'[w], toParent'[w][m].type = "tests_finished"
        PROVE  n - 1 < m
    <3>1. m + 1 \in DOMAIN toParent[w] /\ toParent[w][m + 1].type = "tests_finished"
      BY <1>1, <2>2
    <3>2. n < m + 1
      BY <1>2, <3>1
    <3> QED
      BY <1>1, <3>2
  <2> QED
    BY <1>2, <2>1, <2>2 DEF ResultSent
<1> QED
  BY <1>3, <1>4

(* An order that is not the message a worker takes is still on its way.    *)
LEMMA OrderTaken ==
  ASSUME TypeOK, NEW w \in Worker, toWorker[w] # <<>>,
         toWorker' = [toWorker EXCEPT ![w] = Tail(@)], NEW name, OrderedTo(w, name)
  PROVE  \/ /\ Head(toWorker[w]).type = "run_tests"
            /\ name \in ToReport(Head(toWorker[w]).test_files)
         \/ OrderedTo(w, name)'
<1>1. toWorker[w] \in Seq(ToWorkerMsg) /\ toWorker'[w] = Tail(toWorker[w])
  BY DEF TypeOK
<1>2. PICK n \in DOMAIN toWorker[w] :
        /\ toWorker[w][n].type = "run_tests"
        /\ name \in ToReport(toWorker[w][n].test_files)
  BY DEF OrderedTo
<1>3. toWorker[w][n] \in {Head(toWorker[w])} \cup Range(Tail(toWorker[w]))
  BY <1>1, RangeHeadTail, ZenonT(30) DEF Range
<1>4. CASE toWorker[w][n] \in Range(toWorker'[w])
  <2>1. PICK m \in DOMAIN toWorker'[w] : toWorker'[w][m] = toWorker[w][n]
    BY <1>4 DEF Range
  <2> QED
    BY <1>2, <2>1 DEF OrderedTo, ToReport
<1> QED
  BY <1>1, <1>2, <1>3, <1>4

(* A message behind it leaves an order on its way.                         *)
LEMMA OrderKept ==
  ASSUME TypeOK, NEW v \in Worker, NEW msg \in ToWorkerMsg, SendTo(v, msg),
         NEW w \in Worker, NEW name, OrderedTo(w, name)
  PROVE  OrderedTo(w, name)'
<1>1. CASE w = v
  <2>1. toWorker[v] \in Seq(ToWorkerMsg) /\ toWorker'[v] = Append(toWorker[v], msg)
    BY DEF TypeOK, SendTo
  <2>2. PICK n \in DOMAIN toWorker[w] :
          /\ toWorker[w][n].type = "run_tests"
          /\ name \in ToReport(toWorker[w][n].test_files)
    BY DEF OrderedTo
  <2>3. n \in DOMAIN toWorker'[w] /\ toWorker'[w][n] = toWorker[w][n]
    BY <1>1, <2>1, <2>2
  <2> QED
    BY <2>2, <2>3 DEF OrderedTo, ToReport
<1>2. CASE w # v
  BY <1>2 DEF TypeOK, SendTo, OrderedTo, ToReport, Reports
<1> QED
  BY <1>1, <1>2


(* A step of a worker keeps what its batch has still to report.            *)
LEMMA WorkerKeepsDue ==
  ASSUME RunInv, NEW w \in Worker, Work(w) \/ ReportPhpError(w) \/ Crash(w),
         UNCHANGED <<leased, test_results>>, leased[w] # {}, NEW name, Due(w, name)
  PROVE  Due(w, name)'
<1> USE DEF RunInv, IndInv
<1>1. InOnePlace(w)
  BY DEF WorkInv, BatchInOnePlace
<1>2. CASE Connect(w) \/ HangUp(w) \/ Terminate(w) \/ Crash(w)
  <2>1. UNCHANGED <<todo, toWorker, toParent, test_results>>
    BY <1>2 DEF Connect, HangUp, Terminate, Crash
  <2> QED
    BY <2>1 DEF Due, ResultSent, OrderedTo, ToReport
<1>3. CASE ReadGreeting(w)
  <2>1. /\ toWorker[w] # <<>> /\ toWorker' = [toWorker EXCEPT ![w] = Tail(@)]
        /\ Head(toWorker[w]).type # "run_tests"
        /\ UNCHANGED <<todo, toParent, test_results>>
    BY <1>3 DEF ReadGreeting
  <2>2. OrderedTo(w, name) => OrderedTo(w, name)'
    BY <2>1, OrderTaken
  <2> QED
    BY <2>1, <2>2 DEF Due, ResultSent, ToReport
<1>4. CASE Greet(w)
  BY <1>4 DEF Greet, WorkerStep, ProtocolInv, EarlyQuiet, Early
<1>5. CASE TakeBatch(w)
  <2>1. /\ toWorker[w] # <<>> /\ toWorker' = [toWorker EXCEPT ![w] = Tail(@)]
        /\ todo'[w] = Head(toWorker[w]).test_files
        /\ wpc[w] = "idle"
        /\ UNCHANGED <<toParent, test_results>>
    BY <1>5 DEF TakeBatch, WorkerStep, TypeOK
  <2>2. ToReport(todo[w]) = {}
    <3>1. todo[w] = <<>>
      BY <1>1, <2>1 DEF InOnePlace
    <3> QED
      BY <3>1 DEF ToReport
  <2>3. OrderedTo(w, name) => name \in ToReport(todo[w])' \/ OrderedTo(w, name)'
    BY <2>1, OrderTaken DEF ToReport, Reports
  <2> QED
    BY <2>1, <2>2, <2>3 DEF Due, ResultSent
<1>6. CASE RunTest(w)
  <2> DEFINE test == Head(todo[w])
  <2>1. /\ todo[w] \in Seq(Test) /\ todo[w] # <<>> /\ test \in Test
        /\ Redirected[test] = <<>>
        /\ todo'[w] = Tail(todo[w])
        /\ SendParent(w, [type |-> "test_result", name |-> test])
        /\ [type |-> "test_result", name |-> test] \in ToParentMsg
        /\ wpc[w] = "running"
        /\ UNCHANGED <<toWorker, test_results>>
    BY <1>6, HeadType DEF RunTest, TypeOK, ToParentMsg
  <2>2. CASE name = test
    <3>1. ~Sent(w, "tests_finished")
      BY <1>1, <2>1 DEF InOnePlace, InHand
    <3>2. ResultSent(w, name)'
      BY <2>1, <2>2, <3>1, ResultAppended
    <3> QED
      BY <3>2 DEF Due
  <2>3. CASE name # test
    <3>1. name \in ToReport(todo[w]) => name \in ToReport(todo[w])'
      <4>1. Reports(test) = {test}
        BY <2>1 DEF Reports
      <4>2. name \in ToReport(todo[w]) => name \in ToReport(Tail(todo[w]))
        BY <2>1, <2>3, <4>1, ReportHead
      <4> QED
        BY <2>1, <4>2 DEF ToReport, Reports
    <3>2. ResultSent(w, name) => ResultSent(w, name)'
      BY <2>1, ResultKept
    <3> QED
      BY <2>1, <3>1, <3>2 DEF Due, OrderedTo, ToReport, Reports
  <2> QED
    BY <2>2, <2>3
<1>7. CASE Redirect(w)
  <2> DEFINE test == Head(todo[w])
  <2>1. /\ todo[w] \in Seq(Test) /\ todo[w] # <<>> /\ test \in Test
        /\ Redirected[test] # <<>> /\ Redirected[test] \in Seq(Test)
        /\ Tail(todo[w]) \in Seq(Test)
        /\ todo'[w] = Redirected[test] \o Tail(todo[w])
        /\ UNCHANGED <<toWorker, toParent, test_results>>
    BY <1>7, HeadType, TestsAssumption DEF Redirect, TypeOK
  <2>2. name \in Reports(test) => name \in ToReport(Redirected[test])
    <3>1. ASSUME name \in Reports(test) PROVE name \in ToReport(Redirected[test])
      <4>1. PICK n \in DOMAIN Redirected[test] : name = Redirected[test][n]
        BY <2>1, <3>1 DEF Reports, Range
      <4>2. Reports(name) = {name}
        BY <2>1, <4>1, RedirectAssumption DEF Reports
      <4> QED
        BY <4>1, <4>2 DEF ToReport
    <3> QED
      BY <3>1
  <2>3. name \in ToReport(todo[w]) => name \in ToReport(todo[w])'
    <3>1. name \in ToReport(todo[w]) => name \in ToReport(Redirected[test] \o Tail(todo[w]))
      BY <2>1, <2>2, ReportHead, ReportConcat
    <3> QED
      BY <2>1, <3>1 DEF ToReport, Reports
  <2> QED
    BY <2>1, <2>3, ZenonT(30) DEF Due, ResultSent, OrderedTo, ToReport, Reports
<1>8. CASE FinishBatch(w) \/ ReportPhpError(w)
  <2>1. PICK type \in {"tests_finished", "php_error"} : SendParent(w, [type |-> type])
    BY <1>8 DEF FinishBatch, ReportPhpError
  <2>2. [type |-> type] \in ToParentMsg
    BY <2>1 DEF ToParentMsg
  <2>3. ResultSent(w, name) => ResultSent(w, name)'
    BY <2>1, <2>2, ResultKept
  <2>4. UNCHANGED <<todo, toWorker, test_results>>
    BY <1>8 DEF FinishBatch, ReportPhpError
  <2> QED
    BY <2>3, <2>4 DEF Due, OrderedTo, ToReport
<1> QED
  BY <1>2, <1>3, <1>4, <1>5, <1>6, <1>7, <1>8 DEF Work

(* So does a step of the parent, which counts the results it takes.        *)
LEMMA ParentKeepsDue ==
  ASSUME RunInv, Parent, NEW w \in Worker, NEW name, Due(w, name)
  PROVE  Due(w, name)'
<1> USE DEF RunInv, IndInv
<1>1. test_results \subseteq test_results'
  BY DEF Parent, ReadConflicts, OrderTests, Spawn, SpawnFails, Accept, AcceptFails, ReadReply,
     ReplyFails, Select, TakeSocket, Drained, ReadResult, ReadPhpError, ReadFinished, Release,
     ReadReady, FallThrough, StartBatch, PopFree, PopBlocked, Dispatch, Retire, Finish, Abort
<1>2. UNCHANGED todo
  BY ParentFrame DEF Spawn
<1>3. OrderedTo(w, name) => OrderedTo(w, name)'
  <2>1. CASE \E v \in Worker : Accept(v)
    <3>1. [type |-> "hello"] \in ToWorkerMsg
      BY DEF ToWorkerMsg
    <3> QED
      BY <2>1, <3>1, OrderKept DEF Accept
  <2>2. CASE Dispatch
    <3>1. [type |-> "run_tests", test_files |-> files] \in ToWorkerMsg /\ reading \in Worker
      BY <2>2 DEF Dispatch, TypeOK, ToWorkerMsg
    <3> QED
      BY <2>2, <3>1, OrderKept DEF Dispatch
  <2>3. CASE ~Dispatch /\ ~(\E v \in Worker : Accept(v))
    <3>1. UNCHANGED toWorker
      BY <2>3 DEF Parent, ReadConflicts, OrderTests, Spawn, SpawnFails, AcceptFails, ReadReply,
         ReplyFails, Select, TakeSocket, Drained, ReadResult, ReadPhpError, ReadFinished,
         Release, ReadReady, FallThrough, StartBatch, PopFree, PopBlocked, Retire, Finish, Abort
    <3> QED
      BY <3>1 DEF OrderedTo, ToReport
  <2> QED
    BY <2>1, <2>2, <2>3
<1>4. ResultSent(w, name) => ResultSent(w, name)' \/ name \in test_results'
  <2>1. CASE UNCHANGED toParent
    BY <2>1 DEF ResultSent
  <2>2. CASE w # reading /\ reading \in Worker /\ toParent[reading] # <<>> /\ TakeMessage
    BY <2>2, SentTail DEF ResultSent
  <2>3. CASE w = reading /\ toParent[w] # <<>> /\ TakeMessage /\ ~UNCHANGED toParent
    <3>1. ReadReply \/ ReadResult \/ ReadFinished \/ ReadReady
      BY <2>3 DEF Parent, ReadConflicts, OrderTests, Spawn, SpawnFails, Accept, AcceptFails,
         ReplyFails, Select, TakeSocket, Drained, ReadPhpError, Release, FallThrough, PopFree,
         PopBlocked, Dispatch, Retire, Finish, Abort
    <3>2. Head(toParent[w]) = [type |-> "test_result", name |-> name] => name \in test_results'
      BY <2>3, <3>1 DEF ReadReply, ReadResult, ReadFinished, ReadReady, Reading
    <3> QED
      BY <2>3, <3>2, ResultTaken
  <2> QED
    BY <2>1, <2>2, <2>3, ParentReads
<1> QED
  BY <1>1, <1>2, <1>3, <1>4 DEF Due, ToReport

(* Every result of a test on lease is counted, on its way or to come.      *)
LEMMA ResultsDueStep == RunInv /\ [Next]_vars => ResultsDue'
<1> SUFFICES ASSUME RunInv, [Next]_vars, NEW w \in Worker, NEW t \in leased'[w],
                    NEW name \in Reports(t)
             PROVE  Due(w, name)'
  BY DEF ResultsDue, Reports
<1> USE DEF RunInv, IndInv
<1>1. CASE t \in leased[w]
  <2>1. Due(w, name)
    BY <1>1 DEF WorkInv, ResultsDue
  <2>2. CASE Parent
    BY <2>1, <2>2, ParentKeepsDue
  <2>3. CASE ~Parent
    <3>1. UNCHANGED <<leased, test_results>>
      BY <2>3, WorkerFrame
    <3>2. CASE UNCHANGED vars
      BY <2>1, <3>2 DEF vars, Due, ResultSent, OrderedTo, ToReport
    <3>3. ASSUME NEW v \in Worker, Work(v) \/ ReportPhpError(v) \/ Crash(v)
          PROVE  Due(w, name)'
      <4>1. CASE v = w
        BY <1>1, <2>1, <3>1, <3>3, <4>1, WorkerKeepsDue
      <4>2. CASE v # w
        BY <2>1, <3>1, <3>3, <4>2, OtherWorker DEF Due, ResultSent, OrderedTo, ToReport
      <4> QED
        BY <4>1, <4>2
    <3> QED
      BY <2>3, <3>2, <3>3, WorkerFrame
  <2> QED
    BY <2>2, <2>3
<1>2. CASE t \notin leased[w]
  <2>1. Dispatch
    <3>1. CASE Parent
      BY <1>2, <3>1, ParentOrders
    <3>2. CASE ~Parent
      BY <1>2, <3>2, WorkerFrame
    <3> QED
      BY <3>1, <3>2
  <2>2. w = reading /\ t \in Range(files) /\ files \in Seq(Test)
    BY <1>2, <2>1 DEF Dispatch, TypeOK
  <2>3. toWorker[w] \in Seq(ToWorkerMsg)
    BY DEF TypeOK
  <2> DEFINE msg == [type |-> "run_tests", test_files |-> files]
  <2>4. toWorker'[w] = Append(toWorker[w], msg)
    BY <2>1, <2>2 DEF Dispatch, SendTo, TypeOK
  <2>5. /\ Len(toWorker[w]) + 1 \in DOMAIN toWorker'[w]
        /\ toWorker'[w][Len(toWorker[w]) + 1] = msg
    <3> HIDE DEF msg
    <3> QED
      BY <2>3, <2>4
  <2>6. name \in ToReport(files)
    BY <2>2 DEF ToReport, Range
  <2>7. OrderedTo(w, name)'
    BY <2>5, <2>6 DEF OrderedTo, ToReport, Reports
  <2> QED
    BY <2>7 DEF Due
<1> QED
  BY <1>1, <1>2


-------------------------------------------------------------------------------
(* No test is lost.                                                        *)

(* When the parent reads that a batch is done it has read its results.     *)
LEMMA FinishedCounted ==
  ASSUME RunInv, ReadFinished, NEW t \in leased[reading]
  PROVE  Reports(t) \subseteq test_results
<1> USE DEF RunInv, IndInv
<1>1. /\ reading \in Worker
      /\ toParent[reading] \in Seq(ToParentMsg) /\ toParent[reading] # <<>>
      /\ Head(toParent[reading]).type = "tests_finished"
  BY DEF ReadFinished, Reading, TypeOK
<1>2. /\ DOMAIN toParent[reading] = 1 .. Len(toParent[reading])
      /\ 1 \in DOMAIN toParent[reading]
      /\ toParent[reading][1].type = "tests_finished"
  BY <1>1, EmptySeq, HeadType
<1>3. ASSUME NEW name \in Reports(t) PROVE name \in test_results
  <2>1. Due(reading, name)
    BY <1>1 DEF WorkInv, ResultsDue
  <2>2. ~ResultSent(reading, name)
    BY <1>2 DEF ResultSent
  <2>3. ~Ordered(reading) /\ todo[reading] = <<>>
    BY <1>1, <1>2 DEF WorkInv, BatchInOnePlace, InOnePlace, InHand, Sent
  <2>4. ~OrderedTo(reading, name) /\ name \notin ToReport(todo[reading])
    BY <2>3 DEF Ordered, OrderedTo, ToReport
  <2> QED
    BY <2>1, <2>2, <2>4 DEF Due
<1> QED
  BY <1>3

(* The steps that move tests from one queue to another lose none.          *)
LEMMA QueuesKeep ==
  ASSUME RunInv, NEW t \in Pending,
         \/ ReadConflicts \/ OrderTests \/ (\E k \in Key : Release(k))
         \/ ReadReady \/ FallThrough \/ PopFree \/ PopBlocked
  PROVE  t \in Pending'
<1> USE DEF RunInv, IndInv
<1>1. CASE ReadConflicts
  <2>1. unread \in Seq(Test) /\ test_files \in Seq(Test) /\ sequentialTests \in Seq(Test)
    BY DEF TypeOK
  <2>2. Range(unread) = {Head(unread)} \cup Range(Tail(unread)) /\ Head(unread) \in Test
    BY <1>1, <2>1, RangeHeadTail, HeadType DEF ReadConflicts
  <2>3. /\ Range(Append(sequentialTests, Head(unread)))
             = Range(sequentialTests) \cup {Head(unread)}
        /\ Range(Append(test_files, Head(unread))) = Range(test_files) \cup {Head(unread)}
    BY <2>1, <2>2, RangeAppend
  <2> QED
    BY <1>1, <2>2, <2>3 DEF ReadConflicts, Pending
<1>2. CASE OrderTests
  <2>1. Range(test_files') = Range(test_files)
    <3>1. test_files \in Seq(Test)
      BY DEF TypeOK
    <3>2. CASE ~Shuffle
      BY <1>2, <3>1, <3>2, RangeReverse DEF OrderTests
    <3>3. CASE Shuffle
      <4>1. PICK p \in [DOMAIN test_files -> DOMAIN test_files] :
              /\ \A m, n \in DOMAIN test_files : p[m] = p[n] => m = n
              /\ test_files' = [n \in DOMAIN test_files |-> test_files[p[n]]]
        BY <1>2, <3>3, Zenon DEF OrderTests
      <4> QED
        BY <3>1, <4>1, RangePermuted
    <3> QED
      BY <3>2, <3>3
  <2> QED
    BY <1>2, <2>1 DEF OrderTests, Pending
<1>3. CASE \E k \in Key : Release(k)
  <2>1. PICK k \in Key : Release(k)
    BY <1>3
  <2>2. /\ test_files \in Seq(Test) /\ waitingTests[k] \in Seq(Test)
        /\ Reverse(waitingTests[k]) \in Seq(Test)
    BY ReverseType DEF TypeOK
  <2>3. Range(test_files') = Range(test_files) \cup Range(waitingTests[k])
    BY <2>1, <2>2, RangeConcat, RangeReverse DEF Release, PopAll
  <2>4. \A j \in Key : j # k => waitingTests'[j] = waitingTests[j]
    BY <2>1 DEF Release, TypeOK
  <2>5. UNCHANGED <<unread, sequentialTests, files, pc>>
    BY <2>1 DEF Release
  <2> QED
    BY <2>3, <2>4, <2>5 DEF Pending
<1>4. CASE ReadReady \/ FallThrough
  <2>1. /\ StartBatch /\ pc # "batch"
        /\ test_files \in Seq(Test) /\ sequentialTests \in Seq(Test)
    BY <1>4 DEF ReadReady, FallThrough, Reading, TypeOK
  <2>2. Range(test_files) \cup Range(sequentialTests)
          \subseteq Range(test_files') \cup Range(sequentialTests')
    <3>1. CASE OneWorkerLeft
      <4>1. test_files' = test_files \o sequentialTests
        BY <2>1, <3>1 DEF StartBatch
      <4>2. Range(test_files \o sequentialTests) = Range(test_files) \cup Range(sequentialTests)
        BY <2>1, RangeConcat
      <4> QED
        BY <4>1, <4>2
    <3>2. CASE ~OneWorkerLeft
      BY <2>1, <3>2 DEF StartBatch
    <3> QED
      BY <3>1, <3>2
  <2>3. UNCHANGED <<unread, waitingTests>>
    BY <2>1 DEF StartBatch
  <2> QED
    BY <2>1, <2>2, <2>3 DEF Pending
<1>5. CASE PopFree
  <2>1. /\ test_files \in Seq(Test) /\ test_files # <<>> /\ files \in Seq(Test)
        /\ test_files' = Front(test_files) /\ files' = Append(files, Last(test_files))
        /\ pc = "batch"
        /\ UNCHANGED <<pc, unread, sequentialTests, waitingTests>>
    BY <1>5 DEF PopFree, MorePops, TypeOK
  <2>2. /\ Range(test_files) = Range(test_files') \cup {Last(test_files)}
        /\ Range(files') = Range(files) \cup {Last(test_files)}
    <3>1. Last(test_files) \in Test
      BY <2>1, FrontLastType
    <3> QED
      BY <2>1, <3>1, RangeFrontLast, RangeAppend
  <2>3. \/ t \in Range(unread) \cup Range(sequentialTests) \cup Range(test_files)
        \/ \E k \in Key : t \in Range(waitingTests[k])
        \/ t \in Range(files)
    BY DEF Pending
  <2>5. pc' = "batch"
    BY <2>1
  <2>4. ASSUME \/ t \in Range(unread') \cup Range(sequentialTests') \cup Range(test_files')
               \/ \E k \in Key : t \in Range(waitingTests'[k])
               \/ t \in Range(files')
        PROVE  t \in Pending'
    BY <2>4, <2>5 DEF Pending
  <2> QED
    BY <2>1, <2>2, <2>3, <2>4
<1>6. CASE PopBlocked
  <2>1. /\ test_files \in Seq(Test) /\ test_files # <<>>
        /\ test_files' = Front(test_files)
        /\ UNCHANGED <<pc, unread, sequentialTests, files>>
    BY <1>6 DEF PopBlocked, MorePops, TypeOK
  <2>2. /\ Range(test_files) = Range(test_files') \cup {Last(test_files)}
        /\ Last(test_files) \in Test
    BY <2>1, RangeFrontLast, FrontLastType
  <2>3. PICK k \in Key :
          waitingTests' = [waitingTests EXCEPT ![k] = Append(@, Last(test_files))]
    <3>1. PICK n \in InUse(Last(test_files)) :
            waitingTests' = [waitingTests EXCEPT ![fileConflictsWith[Last(test_files)][n]]
                               = Append(@, Last(test_files))]
      BY <1>6 DEF PopBlocked
    <3>2. fileConflictsWith[Last(test_files)][n] \in Key
      BY <2>2, TestsAssumption DEF InUse
    <3> QED
      BY <3>1, <3>2
  <2>4. /\ Range(waitingTests'[k]) = Range(waitingTests[k]) \cup {Last(test_files)}
        /\ \A j \in Key : j # k => waitingTests'[j] = waitingTests[j]
    <3>1. waitingTests[k] \in Seq(Test)
      BY DEF TypeOK
    <3> QED
      BY <2>2, <2>3, <3>1, RangeAppend DEF TypeOK
  <2> QED
    BY <2>1, <2>2, <2>4 DEF Pending
<1> QED
  BY <1>1, <1>2, <1>3, <1>4, <1>5, <1>6

(* Every test is handed out, and handed back with its results.             *)
LEMMA NoTestLostStep == RunInv /\ [Next]_vars => NoTestLost'
<1> SUFFICES ASSUME RunInv, [Next]_vars PROVE NoTestLost'
  OBVIOUS
<1> USE DEF RunInv, IndInv
<1>1. ASSUME NEW t \in Tests
      PROVE  \/ t \in Pending'
             \/ \E w \in Worker : t \in leased'[w]
             \/ Reports(t) \subseteq test_results'
  <2>1. \/ t \in Pending
        \/ \E w \in Worker : t \in leased[w]
        \/ Reports(t) \subseteq test_results
    BY DEF WorkInv, NoTestLost
  <2>2. test_results \subseteq test_results'
    <3>1. CASE Parent
      BY <3>1 DEF Parent, ReadConflicts, OrderTests, Spawn, SpawnFails, Accept, AcceptFails,
         ReadReply, ReplyFails, Select, TakeSocket, Drained, ReadResult, ReadPhpError,
         ReadFinished, Release, ReadReady, FallThrough, StartBatch, PopFree, PopBlocked,
         Dispatch, Retire, Finish, Abort
    <3>2. CASE ~Parent
      BY <3>2, WorkerFrame
    <3> QED
      BY <3>1, <3>2
  <2>3. ASSUME NEW w \in Worker, t \in leased[w]
        PROVE  t \in leased'[w] \/ Reports(t) \subseteq test_results
    <3>1. CASE Dispatch
      <4>1. w # reading
        BY <2>3, <3>1 DEF Dispatch, ProtocolInv, ReadingHoldsNone
      <4> QED
        BY <2>3, <3>1, <4>1, DispatchFrame
    <3>2. CASE ReadFinished
      <4>1. w # reading => leased'[w] = leased[w]
        BY <3>2 DEF ReadFinished, TypeOK
      <4> QED
        BY <2>3, <3>2, <4>1, FinishedCounted
    <3>3. CASE Parent /\ ~Dispatch /\ ~ReadFinished
      BY <2>3, <3>3, LeaseFrame
    <3>4. CASE ~Parent
      BY <2>3, <3>4, WorkerFrame
    <3> QED
      BY <3>1, <3>2, <3>3, <3>4
  <2>4. ASSUME t \in Pending
        PROVE  t \in Pending' \/ \E w \in Worker : t \in leased'[w]
    <3>1. CASE Dispatch
      <4>1. /\ reading \in Worker /\ leased'[reading] = Range(files)
            /\ pc = "batch" /\ pc' # "batch"
            /\ UNCHANGED <<unread, test_files, sequentialTests, waitingTests>>
        BY <3>1 DEF Dispatch, TypeOK
      <4>2. \/ t \in Range(unread) \cup Range(sequentialTests) \cup Range(test_files)
            \/ \E k \in Key : t \in Range(waitingTests[k])
            \/ t \in Range(files)
        BY <2>4 DEF Pending
      <4>3. ASSUME \/ t \in Range(unread') \cup Range(sequentialTests') \cup Range(test_files')
                   \/ \E k \in Key : t \in Range(waitingTests'[k])
            PROVE  t \in Pending'
        BY <4>3 DEF Pending
      <4> QED
        BY <4>1, <4>2, <4>3
    <3>2. CASE Retire
      <4>1. /\ pc = "batch" /\ pc' # "batch" /\ files = <<>>
            /\ UNCHANGED <<unread, test_files, sequentialTests, waitingTests>>
        BY <3>2 DEF Retire
      <4>2. Range(files) = {}
        BY <4>1 DEF Range
      <4> QED
        BY <2>4, <4>1, <4>2 DEF Pending
    <3>3. CASE \/ ReadConflicts \/ OrderTests \/ (\E k \in Key : Release(k))
               \/ ReadReady \/ FallThrough \/ PopFree \/ PopBlocked
      BY <2>4, <3>3, QueuesKeep
    <3>4. CASE /\ Parent /\ ~Dispatch /\ ~Retire /\ ~ReadConflicts /\ ~OrderTests
               /\ ~(\E k \in Key : Release(k)) /\ ~ReadReady /\ ~FallThrough
               /\ ~PopFree /\ ~PopBlocked
      <4>1. /\ UNCHANGED <<unread, test_files, sequentialTests, waitingTests>>
            /\ pc # "batch" /\ pc' # "batch"
        BY <3>4 DEF Parent, Spawn, SpawnFails, Accept, AcceptFails, ReadReply, ReplyFails,
           Select, TakeSocket, Drained, ReadResult, ReadPhpError, ReadFinished, Finish, Abort,
           Reading
      <4> QED
        BY <2>4, <4>1 DEF Pending
    <3>5. CASE ~Parent
      <4>1. UNCHANGED parentVars
        BY <3>5, WorkerFrame
      <4> QED
        BY <2>4, <4>1 DEF Pending
    <3> QED
      BY <3>1, <3>2, <3>3, <3>4, <3>5
  <2> QED
    BY <2>1, <2>2, <2>3, <2>4
<1>2. ASSUME pc' = "done", NEW t \in Tests
      PROVE  Reports(t) \subseteq test_results'
  <2>1. NothingLeft'
    BY <1>2, DoneStep
  <2> QED
    BY <1>1, <2>1 DEF NothingLeft
<1> QED
  BY <1>1, <1>2 DEF NoTestLost, Reports

-------------------------------------------------------------------------------
(* The invariant, and what follows from it.                                *)

(* The initial state satisfies the invariant.                              *)
LEMMA RunInvInit == Init => RunInv
<1> SUFFICES ASSUME Init PROVE RunInv
  OBVIOUS
<1>1. IndInv
  BY IndInvInit
<1>2. /\ KeysUsed /\ WaitingForUsed /\ AllGreeted /\ QueuesDrained /\ GivenUp
      /\ NoFalseAlarm /\ NeverStranded /\ ResultsDue
      /\ pc = "done" => NothingLeft
  BY DEF Init, KeysUsed, WaitingForUsed, AllGreeted, QueuesDrained, GivenUp, NoFalseAlarm,
     NeverStranded, ResultsDue
<1>3. BatchInOnePlace
  BY DEF Init, BatchInOnePlace, InOnePlace, InHand, Ordered, Sent, OneOrder, OneFinished
<1>4. InProgressCounts
  <2>1. {w \in Worker : leased[w] # {}} = {}
    BY DEF Init
  <2> QED
    BY <2>1, FS_EmptySet DEF Init, InProgressCounts
<1>5. NoTestLost
  BY DEF Init, NoTestLost, Pending, Tests
<1> QED
  BY <1>1, <1>2, <1>3, <1>4, <1>5 DEF RunInv, WorkInv

(* Every step keeps the queues, the batches and the results in agreement.  *)
THEOREM WorkInductive == Spec => []RunInv
<1>1. IndInv /\ [Next]_vars => IndInv'
  BY TypeStep, SpawningStep, StartedStep, ListeningStep, EarlyQuietStep, ReadyOnceStep,
     ReadingHoldsNoneStep, KeysHeldStep, BatchFreeStep, HoldersLiveStep,
     SequentialHeldBackStep
     DEF IndInv, ProtocolInv, LeaseInv
<1>2. RunInv /\ [Next]_vars => RunInv'
  <2> SUFFICES ASSUME RunInv, [Next]_vars PROVE RunInv'
    OBVIOUS
  <2>1. IndInv'
    BY <1>1 DEF RunInv
  <2>2. /\ KeysUsed' /\ WaitingForUsed' /\ BatchInOnePlace' /\ InProgressCounts'
        /\ AllGreeted' /\ QueuesDrained' /\ GivenUp' /\ NoFalseAlarm'
    BY KeysUsedStep, WaitingForUsedStep, BatchInOnePlaceStep, InProgressCountsStep,
       AllGreetedStep, QueuesDrainedStep, GivenUpStep, NoFalseAlarmStep
  <2>3. /\ NeverStranded' /\ ResultsDue' /\ NoTestLost'
        /\ (pc = "done" => NothingLeft)'
    BY NeverStrandedStep, ResultsDueStep, NoTestLostStep, DoneStep
  <2> QED
    BY <2>1, <2>2, <2>3 DEF RunInv, WorkInv
<1> QED
  BY <1>2, RunInvInit, PTL DEF Spec

(* A test that waits for a key waits for a batch that is out.              *)
THEOREM WaitersAreWaitedFor == Spec => []WaitingHasHolder
<1>1. RunInv => WaitingHasHolder
  BY DEF RunInv, WorkInv, KeysUsed, WaitingForUsed, WaitingHasHolder
<1> QED
  BY <1>1, WorkInductive, PTL

(* The count of batches is the number of workers that hold one.            *)
THEOREM BatchesCounted == Spec => []InProgressCounts
BY WorkInductive, PTL DEF RunInv, WorkInv

(* No worker is terminated while something is left that it alone can do.   *)
THEOREM WorkerIsLeft == Spec => []NeverStranded
BY WorkInductive, PTL DEF RunInv, WorkInv

(* A worker the parent has terminated never counts as one that died.       *)
THEOREM NoAlarmWithoutCrash == Spec => []NoFalseAlarm
BY WorkInductive, PTL DEF RunInv, WorkInv

(* No test is lost, and a run that ends well has the results of all.       *)
THEOREM EveryTestReported == Spec => []NoTestLost
BY WorkInductive, PTL DEF RunInv, WorkInv
===============================================================================
