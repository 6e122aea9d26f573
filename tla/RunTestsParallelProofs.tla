------------------------ MODULE RunTestsParallelProofs ------------------------
(***************************************************************************)
(* Proofs about the scheduler of RunTestsParallel.                         *)
(***************************************************************************)
EXTENDS RunTestsParallelInv, TLAPS, FiniteSetTheorems, SequenceTheorems

USE DEF queues, conflicts, pool, tally, network, workerVars, parentVars

(* At least one worker is started, and no more than -jN asks for.          *)
LEMMA WorkersBound == workers \in 1 .. NWorkers
<1>1. DOMAIN TestList = 1 .. Len(TestList) /\ Len(TestList) \in Nat
  BY TestsAssumption
<1>2. IsFiniteSet(1 .. Len(TestList))
  BY <1>1, FS_Interval
<1>3. IsFiniteSet({n \in DOMAIN TestList : ~Sequential(TestList[n])})
  BY <1>1, <1>2, FS_Subset
<1>4. totalFileCount \in Nat
  BY <1>3, FS_CardinalityType DEF totalFileCount
<1> QED
  BY <1>4, OptionsAssumption DEF workers

(* The initial state is well-typed.                                        *)
LEMMA TypeInit == Init => TypeOK
<1> SUFFICES ASSUME Init PROVE TypeOK
  OBVIOUS
<1>1. DOMAIN activeConflicts \subseteq Key /\ activeConflicts \in [DOMAIN activeConflicts -> Worker]
  BY DEF Init
<1>2. \A S : <<>> \in Seq(S)
  OBVIOUS
<1>3. /\ waitingTests \in [Key -> Seq(Test)]
      /\ todo \in [Worker -> Seq(Test)]
  BY <1>2 DEF Init
<1>4. /\ toWorker \in [Worker -> Seq(ToWorkerMsg)]
      /\ toParent \in [Worker -> Seq(ToParentMsg)]
  BY <1>2 DEF Init
<1>5. wpc \in [Worker -> {"unborn", "connecting", "waiting", "greeted", "idle", "running",
                         "crashed", "exited"}]
  BY DEF Init
<1>6. leased \in [Worker -> SUBSET Test]
  BY DEF Init
<1>7. /\ unread \in Seq(Test) /\ test_files \in Seq(Test)
      /\ sequentialTests \in Seq(Test) /\ files \in Seq(Test)
  BY <1>2, TestsAssumption DEF Init
<1>8. pc = "classify" /\ failure = "none" /\ testsInProgress = 0 /\ test_idx = 0 /\ reading = 0
  BY DEF Init
<1>9. workerProcs = {} /\ workerSocks = {} /\ toRead = {} /\ backlog = {} /\ signalled = {} /\ test_results = {}
  BY DEF Init
<1> QED
  BY <1>1, <1>3, <1>4, <1>5, <1>6, <1>7, <1>8, <1>9 DEF TypeOK, Pcs, Failures

(* error() leaves a well-typed state.                                      *)
LEMMA AbortType ==
  ASSUME TypeOK, NEW why \in Failures, Abort(why)
  PROVE  TypeOK'
BY DEF TypeOK, Abort, kill_children, Pcs, Worker

(* A message put on a connection, or taken off one, keeps its type.        *)
LEMMA SendToType ==
  ASSUME TypeOK, NEW w \in Worker, NEW msg \in ToWorkerMsg, SendTo(w, msg)
  PROVE  toWorker' \in [Worker -> Seq(ToWorkerMsg)]
BY DEF TypeOK, SendTo

(* So does one put on the connection to the parent.                        *)
LEMMA SendParentType ==
  ASSUME TypeOK, NEW w \in Worker, NEW msg \in ToParentMsg, SendParent(w, msg)
  PROVE  toParent' \in [Worker -> Seq(ToParentMsg)]
BY DEF TypeOK, SendParent

(* Taking a message off leaves messages.                                   *)
LEMMA TakeMessageType ==
  ASSUME TypeOK, reading \in Worker, toParent[reading] # <<>>, TakeMessage
  PROVE  toParent' \in [Worker -> Seq(ToParentMsg)]
<1>1. Tail(toParent[reading]) \in Seq(ToParentMsg)
  BY DEF TypeOK
<1> QED
  BY <1>1 DEF TypeOK, TakeMessage

(* array_reverse gives a list of the same tests.                           *)
LEMMA ReverseType ==
  ASSUME NEW S, NEW s \in Seq(S)
  PROVE  /\ Reverse(s) \in Seq(S)
         /\ Len(Reverse(s)) = Len(s)
         /\ \A n \in 1 .. Len(s) : Reverse(s)[n] = s[Len(s) - n + 1]
BY DEF Reverse

(* array_pop gives a test and leaves a list of tests.                      *)
LEMMA FrontLastType ==
  ASSUME NEW S, NEW s \in Seq(S), s # <<>>
  PROVE  /\ Front(s) \in Seq(S)
         /\ Len(Front(s)) = Len(s) - 1
         /\ \A n \in 1 .. Len(s) - 1 : Front(s)[n] = s[n]
         /\ Last(s) \in S
         /\ Last(s) = s[Len(s)]
<1>1. Len(s) \in Nat \ {0}
  BY EmptySeq
<1>2. SubSeq(s, 1, Len(s) - 1) \in Seq(S)
  OBVIOUS
<1>3. Len(SubSeq(s, 1, Len(s) - 1)) = Len(s) - 1
  <2> DEFINE L == Len(s) - 1
  <2>1. L \in Nat /\ \A n \in 1 .. L : s[n] \in S
    BY <1>1
  <2> HIDE DEF L
  <2>2. Len(SubSeq(s, 1, L)) = L
    BY <2>1, SubSeqProperties
  <2> QED
    BY <2>2 DEF L
<1>4. \A n \in 1 .. Len(s) - 1 : SubSeq(s, 1, Len(s) - 1)[n] = s[n]
  OBVIOUS
<1> QED
  BY <1>1, <1>2, <1>3, <1>4 DEF Front, Last

(* A first message is a message.                                           *)
LEMMA HeadType ==
  ASSUME NEW S, NEW s \in Seq(S), s # <<>>
  PROVE  /\ Head(s) \in S
         /\ Head(s) = s[1]
         /\ Tail(s) \in Seq(S)
         /\ Len(Tail(s)) = Len(s) - 1
         /\ \A n \in 1 .. Len(s) - 1 : Tail(s)[n] = s[n + 1]
BY HeadTailProperties, ElementOfSeq, EmptySeq

(* Opening a batch, with or without the sequential tests, keeps the types. *)
LEMMA StartBatchType ==
  ASSUME TypeOK, reading \in Worker, StartBatch, toParent' \in [Worker -> Seq(ToParentMsg)]
  PROVE  TypeOK'
<1>1. test_files' \in Seq(Test) /\ sequentialTests' \in Seq(Test) /\ files' \in Seq(Test)
  <2>1. test_files \in Seq(Test) /\ sequentialTests \in Seq(Test)
    BY DEF TypeOK
  <2>2. /\ test_files' = test_files \/ test_files' = test_files \o sequentialTests
        /\ sequentialTests' = sequentialTests \/ sequentialTests' = <<>>
        /\ files' = <<>>
    BY DEF StartBatch
  <2>3. test_files \o sequentialTests \in Seq(Test) /\ <<>> \in Seq(Test)
    BY <2>1
  <2> QED
    BY <2>1, <2>2, <2>3
<1> QED
  BY <1>1 DEF StartBatch, TypeOK, Pcs

(* Every step of the parent, the workers and the environment keeps the     *)
(* types.                                                                  *)
LEMMA TypeStep == IndInv /\ [Next]_vars => TypeOK'
<1> SUFFICES ASSUME IndInv, [Next]_vars PROVE TypeOK'
  OBVIOUS
<1> USE DEF IndInv
<1>1. CASE ReadConflicts
  <2>1. /\ Head(unread) \in Test
        /\ Tail(unread) \in Seq(Test)
    BY <1>1, HeadType DEF ReadConflicts, TypeOK
  <2>2. test_files' \in Seq(Test) /\ sequentialTests' \in Seq(Test) /\ unread' \in Seq(Test)
    <3>1. test_files \in Seq(Test) /\ sequentialTests \in Seq(Test)
      BY DEF TypeOK
    <3>2. /\ \/ test_files' = test_files
             \/ test_files' = Append(test_files, Head(unread))
          /\ \/ sequentialTests' = sequentialTests
             \/ sequentialTests' = Append(sequentialTests, Head(unread))
          /\ unread' = Tail(unread)
      BY <1>1 DEF ReadConflicts
    <3>3. /\ Append(test_files, Head(unread)) \in Seq(Test)
          /\ Append(sequentialTests, Head(unread)) \in Seq(Test)
      BY <2>1, <3>1
    <3> QED
      BY <2>1, <3>1, <3>2, <3>3
  <2> QED
    BY <1>1, <2>2 DEF ReadConflicts, TypeOK
<1>2. CASE OrderTests
  <2>1. ASSUME NEW p \in [DOMAIN test_files -> DOMAIN test_files]
        PROVE  [n \in DOMAIN test_files |-> test_files[p[n]]] \in Seq(Test)
    <3>1. /\ DOMAIN test_files = 1 .. Len(test_files)
          /\ Len(test_files) \in Nat
          /\ \A n \in DOMAIN test_files : test_files[n] \in Test
      BY DEF TypeOK
    <3> QED
      BY <3>1
  <2>2. test_files \in Seq(Test)
    BY DEF TypeOK
  <2>3. Reverse(test_files) \in Seq(Test)
    BY <2>2, ReverseType
  <2>4. ASSUME ~Shuffle PROVE test_files' \in Seq(Test)
    <3>1. test_files' = Reverse(test_files)
      BY <1>2, <2>4 DEF OrderTests
    <3> QED
      BY <2>3, <3>1
  <2>5. ASSUME Shuffle PROVE test_files' \in Seq(Test)
    <3>1. PICK p \in [DOMAIN test_files -> DOMAIN test_files] :
            test_files' = [n \in DOMAIN test_files |-> test_files[p[n]]]
      BY <1>2, <2>5, Zenon DEF OrderTests
    <3> QED
      BY <2>1, <3>1
  <2>6. test_files' \in Seq(Test)
    BY <2>4, <2>5
  <2> QED
    BY <1>2, <2>6 DEF OrderTests, TypeOK, Pcs
<1>3. CASE Spawn
  <2>1. Cardinality(workerProcs) + 1 \in Worker
    <3>1. PICK m \in 0 .. workers - 1 : workerProcs = 1 .. m
      BY <1>3 DEF ProtocolInv, Spawning, Spawn
    <3>2. m \in Int /\ 1 \in Int /\ m + 1 \in 1 .. NWorkers
      BY WorkersBound, OptionsAssumption
    <3>3. Cardinality(workerProcs) = m
      BY <3>1, <3>2, FS_Interval
    <3> QED
      BY <3>2, <3>3 DEF Worker
  <2> QED
    BY <1>3, <2>1 DEF Spawn, TypeOK, Pcs
<1>4. CASE SpawnFails \/ AcceptFails \/ ReplyFails \/ ReadPhpError
  BY <1>4, AbortType DEF SpawnFails, AcceptFails, ReplyFails, ReadPhpError, Failures
<1>5. CASE \E w \in Worker : Accept(w)
  <2>1. [type |-> "hello"] \in ToWorkerMsg
    BY DEF ToWorkerMsg
  <2> QED
    BY <1>5, <2>1, SendToType DEF Accept, TypeOK, Pcs
<1>6. CASE ReadReply
  BY <1>6, TakeMessageType DEF ReadReply, TypeOK, Pcs
<1>7. CASE Select
  BY <1>7 DEF Select, TypeOK, Pcs
<1>8. CASE \E w \in Worker : TakeSocket(w)
  BY <1>8, AbortType DEF TakeSocket, TypeOK, Pcs, Failures
<1>9. CASE Drained
  BY <1>9 DEF Drained, TypeOK, Pcs
<1>10. CASE ReadResult
  <2>1. Head(toParent[reading]).name \in Test
    <3>1. Head(toParent[reading]) \in ToParentMsg
      BY <1>10, HeadType DEF ReadResult, Reading, TypeOK
    <3> QED
      BY <1>10, <3>1 DEF ReadResult, Reading, ToParentMsg
  <2>2. test_results' \subseteq Test
    BY <1>10, <2>1 DEF ReadResult, TypeOK
  <2>3. toParent' \in [Worker -> Seq(ToParentMsg)]
    BY <1>10, TakeMessageType DEF ReadResult, Reading, TypeOK
  <2> QED
    BY <1>10, <2>2, <2>3 DEF ReadResult, TypeOK
<1>11. CASE ReadFinished
  BY <1>11, TakeMessageType DEF ReadFinished, Reading, TypeOK, Pcs
<1>12. CASE \E k \in Key : Release(k)
  BY <1>12, ReverseType DEF Release, PopAll, TypeOK
<1>13. CASE ReadReady
  <2>1. toParent' \in [Worker -> Seq(ToParentMsg)]
    BY <1>13, TakeMessageType DEF ReadReady, Reading, TypeOK
  <2>2. reading \in Worker
    BY <1>13 DEF ReadReady, Reading, TypeOK
  <2> QED
    BY <1>13, <2>1, <2>2, StartBatchType DEF ReadReady
<1>14. CASE FallThrough
  BY <1>14, StartBatchType DEF FallThrough, TypeOK
<1>15. CASE PopFree
  BY <1>15, FrontLastType DEF PopFree, MorePops, TypeOK
<1>16. CASE PopBlocked
  <2>1. PICK n \in InUse(Last(test_files)) :
          waitingTests' = [waitingTests EXCEPT ![fileConflictsWith[Last(test_files)][n]]
                             = Append(@, Last(test_files))]
    BY <1>16 DEF PopBlocked
  <2>2. Last(test_files) \in Test /\ Front(test_files) \in Seq(Test)
    BY <1>16, FrontLastType DEF PopBlocked, MorePops, TypeOK
  <2>3. waitingTests' \in [Key -> Seq(Test)]
    BY <2>1, <2>2, TestsAssumption DEF InUse, TypeOK
  <2> QED
    BY <1>16, <2>2, <2>3 DEF PopBlocked, TypeOK
<1>17. CASE Dispatch
  <2> DEFINE keys == UNION {Keys(t) : t \in Range(files)}
  <2>1. Range(files) \subseteq Test
    BY DEF TypeOK, Range
  <2>2. keys \subseteq Key
    BY <2>1, TestsAssumption DEF Keys, Range
  <2>3. /\ DOMAIN activeConflicts' \subseteq Key
        /\ activeConflicts' \in [DOMAIN activeConflicts' -> Worker]
    BY <1>17, <2>2 DEF Dispatch, TypeOK
  <2>4. toWorker' \in [Worker -> Seq(ToWorkerMsg)]
    BY <1>17, SendToType DEF Dispatch, TypeOK, ToWorkerMsg
  <2>5. leased' \in [Worker -> SUBSET Test]
    BY <1>17, <2>1 DEF Dispatch, TypeOK
  <2> QED
    BY <1>17, <2>3, <2>4, <2>5 DEF Dispatch, TypeOK, Pcs
<1>18. CASE Retire
  BY <1>18 DEF Retire, Unset, TypeOK, Pcs
<1>19. CASE Finish
  BY <1>19, AbortType DEF Finish, kill_children, TypeOK, Pcs, Failures
<1>20. ASSUME NEW w \in Worker, Work(w) \/ ReportPhpError(w) \/ Crash(w)
       PROVE  TypeOK'
  <2>1. CASE Connect(w) \/ HangUp(w) \/ Terminate(w) \/ Crash(w)
    <3>1. wpc' \in [Worker -> {"unborn", "connecting", "waiting", "greeted", "idle",
                               "running", "crashed", "exited"}]
      BY <2>1 DEF Connect, HangUp, Terminate, Crash, WorkerStep, TypeOK
    <3> QED
      BY <2>1, <3>1 DEF Connect, HangUp, Terminate, Crash, TypeOK
  <2>2. CASE ReadGreeting(w)
    <3>1. Tail(toWorker[w]) \in Seq(ToWorkerMsg)
      BY <2>2, HeadType DEF ReadGreeting, TypeOK
    <3> QED
      BY <2>2, <3>1 DEF ReadGreeting, WorkerStep, TypeOK
  <2>3. CASE Greet(w)
    <3>1. <<[type |-> "hello_reply"], [type |-> "ready"]>> \in Seq(ToParentMsg)
      BY DEF ToParentMsg
    <3>2. toParent' \in [Worker -> Seq(ToParentMsg)]
      BY <2>3, <3>1 DEF Greet, TypeOK
    <3> QED
      BY <2>3, <3>2 DEF Greet, WorkerStep, TypeOK
  <2>8. CASE TakeBatch(w)
    <3>1. /\ Head(toWorker[w]) \in ToWorkerMsg
          /\ Tail(toWorker[w]) \in Seq(ToWorkerMsg)
      BY <2>8, HeadType DEF TakeBatch, TypeOK
    <3>2. Head(toWorker[w]).test_files \in Seq(Test)
      BY <2>8, <3>1 DEF TakeBatch, ToWorkerMsg
    <3> QED
      BY <2>8, <3>1, <3>2 DEF TakeBatch, WorkerStep, TypeOK
  <2>4. CASE RunTest(w)
    BY <2>4, SendParentType, SMTT(30) DEF RunTest, TypeOK, ToParentMsg
  <2>5. CASE Redirect(w)
    <3>1. Head(todo[w]) \in Test /\ Tail(todo[w]) \in Seq(Test)
      BY <2>5, HeadType DEF Redirect, TypeOK
    <3>2. Redirected[Head(todo[w])] \o Tail(todo[w]) \in Seq(Test)
      BY <3>1, TestsAssumption
    <3> QED
      BY <2>5, <3>2 DEF Redirect, TypeOK
  <2>6. CASE FinishBatch(w)
    BY <2>6, SendParentType DEF FinishBatch, WorkerStep, TypeOK, ToParentMsg
  <2>7. CASE ReportPhpError(w)
    BY <2>7, SendParentType DEF ReportPhpError, TypeOK, ToParentMsg
  <2> QED
    BY <1>20, <2>1, <2>2, <2>3, <2>4, <2>5, <2>6, <2>7, <2>8 DEF Work
<1>21. CASE UNCHANGED vars
  BY <1>21 DEF vars, TypeOK
<1> QED
  BY <1>1, <1>2, <1>3, <1>4, <1>5, <1>6, <1>7, <1>8, <1>9, <1>10, <1>11, <1>12, <1>13,
     <1>14, <1>15, <1>16, <1>17, <1>18, <1>19, <1>20, <1>21 DEF Next, Parent, Ended

-------------------------------------------------------------------------------
(* What the steps leave alone, and what is on a connection after a step.   *)

(* A step of a worker changes nothing of the parent's.                     *)
LEMMA WorkerFrame ==
  ASSUME [Next]_vars, ~Parent
  PROVE  /\ UNCHANGED parentVars
         /\ \/ UNCHANGED vars
            \/ \E w \in Worker : Work(w) \/ ReportPhpError(w) \/ Crash(w)
<1>1. CASE UNCHANGED vars
  BY <1>1 DEF vars
<1>2. ASSUME NEW w \in Worker, Work(w) \/ ReportPhpError(w) \/ Crash(w)
      PROVE  UNCHANGED parentVars
  BY <1>2 DEF Work, Connect, ReadGreeting, Greet, TakeBatch, RunTest, Redirect, FinishBatch,
              HangUp, Terminate, ReportPhpError, Crash
<1> QED
  BY <1>1, <1>2 DEF Next, Ended

(* A step of the parent moves no worker, but for the one it spawns.        *)
LEMMA ParentFrame ==
  ASSUME Parent, ~Spawn
  PROVE  UNCHANGED workerVars
BY DEF Parent, ReadConflicts, OrderTests, SpawnFails, Accept, AcceptFails, ReadReply,
       ReplyFails, Select, TakeSocket, Drained, ReadResult, ReadPhpError, ReadFinished,
       Release, ReadReady, FallThrough, StartBatch, PopFree, PopBlocked, Dispatch, Retire,
       Finish, Abort

(* What has been sent after one more message is sent.                      *)
LEMMA SentAppend ==
  ASSUME TypeOK, NEW w \in Worker, NEW msg \in ToParentMsg, SendParent(w, msg)
  PROVE  /\ \A v \in Worker \ {w} : toParent'[v] = toParent[v]
         /\ DOMAIN toParent'[w] = 1 .. Len(toParent[w]) + 1
         /\ DOMAIN toParent[w] = 1 .. Len(toParent[w])
         /\ Len(toParent[w]) \in Nat
         /\ \A n \in 1 .. Len(toParent[w]) : toParent'[w][n] = toParent[w][n]
         /\ toParent'[w][Len(toParent[w]) + 1] = msg
<1>1. toParent[w] \in Seq(ToParentMsg)
  BY DEF TypeOK
<1>2. toParent'[w] = Append(toParent[w], msg) /\ \A v \in Worker \ {w} : toParent'[v] = toParent[v]
  BY DEF TypeOK, SendParent
<1> QED
  BY <1>1, <1>2

(* What is left once the first message is taken was there before.          *)
LEMMA SentTail ==
  ASSUME TypeOK, reading \in Worker, toParent[reading] # <<>>, TakeMessage
  PROVE  /\ \A v \in Worker \ {reading} : toParent'[v] = toParent[v]
         /\ DOMAIN toParent'[reading] = 1 .. Len(toParent[reading]) - 1
         /\ DOMAIN toParent[reading] = 1 .. Len(toParent[reading])
         /\ Len(toParent[reading]) \in Nat \ {0}
         /\ \A n \in 1 .. Len(toParent[reading]) - 1 :
              toParent'[reading][n] = toParent[reading][n + 1]
         /\ Head(toParent[reading]) = toParent[reading][1]
<1>1. toParent[reading] \in Seq(ToParentMsg)
  BY DEF TypeOK
<1>2. /\ toParent'[reading] = Tail(toParent[reading])
      /\ \A v \in Worker \ {reading} : toParent'[v] = toParent[v]
  BY DEF TypeOK, TakeMessage
<1>3. /\ Tail(toParent[reading]) \in Seq(ToParentMsg)
      /\ Len(Tail(toParent[reading])) = Len(toParent[reading]) - 1
      /\ Head(toParent[reading]) = toParent[reading][1]
      /\ \A n \in 1 .. Len(toParent[reading]) - 1 :
           Tail(toParent[reading])[n] = toParent[reading][n + 1]
  BY <1>1, HeadType
<1>4. Len(toParent[reading]) \in Nat \ {0} /\ DOMAIN toParent[reading] = 1 .. Len(toParent[reading])
  BY <1>1, EmptySeq
<1> QED
  BY <1>2, <1>3, <1>4

(* A worker that takes a message has no order on the way that it had not.  *)
LEMMA OrderedLess ==
  ASSUME TypeOK, NEW v \in Worker, toWorker[v] # <<>>,
         toWorker' = [toWorker EXCEPT ![v] = Tail(@)],
         NEW w \in Worker, Ordered(w)'
  PROVE  Ordered(w)
<1>1. toWorker[v] \in Seq(ToWorkerMsg)
  BY DEF TypeOK
<1>2. /\ toWorker'[v] = Tail(toWorker[v])
      /\ \A u \in Worker \ {v} : toWorker'[u] = toWorker[u]
  BY DEF TypeOK
<1>3. /\ DOMAIN toWorker'[v] = 1 .. Len(toWorker[v]) - 1
      /\ DOMAIN toWorker[v] = 1 .. Len(toWorker[v])
      /\ Len(toWorker[v]) \in Nat
      /\ \A n \in 1 .. Len(toWorker[v]) - 1 : toWorker'[v][n] = toWorker[v][n + 1]
  <2>1. /\ Tail(toWorker[v]) \in Seq(ToWorkerMsg)
        /\ Len(Tail(toWorker[v])) = Len(toWorker[v]) - 1
        /\ \A n \in 1 .. Len(toWorker[v]) - 1 : Tail(toWorker[v])[n] = toWorker[v][n + 1]
    BY <1>1, HeadType
  <2>2. Len(toWorker[v]) \in Nat /\ DOMAIN toWorker[v] = 1 .. Len(toWorker[v])
    BY <1>1
  <2>3. DOMAIN Tail(toWorker[v]) = 1 .. Len(toWorker[v]) - 1
    BY <2>1, <2>2
  <2> QED
    BY <1>2, <2>1, <2>2, <2>3
<1>4. CASE w # v
  BY <1>2, <1>4 DEF Ordered
<1>5. CASE w = v
  <2>1. PICK n \in DOMAIN toWorker'[v] : toWorker'[v][n].type = "run_tests"
    BY <1>5 DEF Ordered
  <2>2. n + 1 \in DOMAIN toWorker[v] /\ toWorker[v][n + 1].type = "run_tests"
    BY <1>3, <2>1
  <2> QED
    BY <1>5, <2>2 DEF Ordered
<1> QED
  BY <1>4, <1>5

(* Nothing is on the way to the parent that was not before.                *)
LEMMA SentLess ==
  ASSUME TypeOK, reading \in Worker, toParent[reading] # <<>>, TakeMessage,
         NEW w \in Worker, NEW type, Sent(w, type)'
  PROVE  Sent(w, type)
<1>1. CASE w # reading
  BY <1>1, SentTail DEF Sent
<1>2. CASE w = reading
  <2>1. PICK n \in DOMAIN toParent'[reading] : toParent'[reading][n].type = type
    BY <1>2 DEF Sent
  <2>2. n + 1 \in DOMAIN toParent[reading] /\ toParent[reading][n + 1].type = type
    BY <2>1, SentTail
  <2> QED
    BY <1>2, <2>2 DEF Sent
<1> QED
  BY <1>1, <1>2

-------------------------------------------------------------------------------
(* The messages and the parent's lists.                                    *)

(* proc_open is called for worker 1, 2, ... in turn.                       *)
LEMMA SpawningStep == IndInv /\ [Next]_vars => Spawning'
<1> SUFFICES ASSUME IndInv, [Next]_vars, pc' \in {"classify", "spawn"} PROVE Spawning'
  BY DEF Spawning
<1> USE DEF IndInv, ProtocolInv
<1>1. CASE Spawn
  <2>1. PICK m \in 0 .. workers - 1 : workerProcs = 1 .. m
    BY <1>1 DEF Spawning, Spawn
  <2>2. Cardinality(workerProcs) = m
    BY <2>1, WorkersBound, FS_Interval
  <2>3. workerProcs' = 1 .. m + 1 /\ m + 1 # workers
    BY <1>1, <2>1, <2>2, WorkersBound DEF Spawn
  <2> QED
    BY <2>1, <2>3, WorkersBound DEF Spawning
<1>2. CASE ~Spawn /\ Parent
  <2>1. workerProcs' = workerProcs /\ pc \in {"classify", "spawn"}
    BY <1>2 DEF Parent, ReadConflicts, OrderTests, SpawnFails, Accept, AcceptFails, ReadReply,
       ReplyFails, Select, TakeSocket, Drained, ReadResult, ReadPhpError, ReadFinished,
       Release, ReadReady, FallThrough, StartBatch, PopFree, PopBlocked, Dispatch, Retire,
       Finish, Abort, Reading
  <2> QED
    BY <2>1 DEF Spawning
<1>3. CASE ~Parent
  BY <1>3, WorkerFrame DEF Spawning
<1> QED
  BY <1>1, <1>2, <1>3

(* A terminated worker leaves workerProcs and workerSocks together.        *)
LEMMA ListeningStep == IndInv /\ [Next]_vars => Listening'
<1> SUFFICES ASSUME IndInv, [Next]_vars PROVE Listening'
  OBVIOUS
<1> USE DEF IndInv, ProtocolInv, Listening
<1>1. CASE Spawn \/ ReadReply
  BY <1>1 DEF Spawn, ReadReply, Started
<1>2. CASE \E w \in Worker : TakeSocket(w)
  BY <1>2 DEF TakeSocket, Abort
<1>3. CASE Retire
  BY <1>3 DEF Retire, Unset
<1>4. CASE Parent /\ ~Spawn /\ ~ReadReply /\ ~Retire /\ ~(\E w \in Worker : TakeSocket(w))
  BY <1>4 DEF Parent, ReadConflicts, OrderTests, SpawnFails, Accept, AcceptFails, ReplyFails,
     Select, Drained, ReadResult, ReadPhpError, ReadFinished, Release, ReadReady, FallThrough,
     StartBatch, PopFree, PopBlocked, Dispatch, Finish, Abort, Reading
<1>5. CASE ~Parent
  BY <1>5, WorkerFrame
<1> QED
  BY <1>1, <1>2, <1>3, <1>4, <1>5

(* No process but those the parent started connects.                       *)
LEMMA StartedStep == IndInv /\ [Next]_vars => Started'
<1> SUFFICES ASSUME IndInv, [Next]_vars PROVE Started'
  OBVIOUS
<1> USE DEF IndInv, ProtocolInv, Started
<1>1. CASE Spawn
  BY <1>1 DEF Spawn, TypeOK
<1>2. CASE \E w \in Worker : Accept(w)
  BY <1>2, ParentFrame DEF Accept, TypeOK
<1>3. CASE Parent /\ ~Spawn /\ ~(\E w \in Worker : Accept(w))
  <2>1. UNCHANGED wpc
    BY <1>3, ParentFrame
  <2>2. /\ backlog' = backlog
        /\ pc' \in {"classify", "spawn", "accept", "greet"} =>
             /\ pc \in {"classify", "spawn", "accept", "greet"}
             /\ workerProcs' = workerProcs
             /\ pc' # "greet"
    BY <1>3 DEF Parent, ReadConflicts, OrderTests, SpawnFails, AcceptFails, ReadReply,
       ReplyFails, Select, TakeSocket, Drained, ReadResult, ReadPhpError, ReadFinished,
       Release, ReadReady, FallThrough, StartBatch, PopFree, PopBlocked, Dispatch, Retire,
       Finish, Abort, Reading
  <2> QED
    BY <2>1, <2>2
<1>4. CASE ~Parent
  <2>1. /\ \A w \in Worker : wpc[w] # "unborn" <=> wpc'[w] # "unborn"
        /\ \A w \in backlog' : wpc'[w] # "unborn"
    <3>1. CASE UNCHANGED vars
      BY <3>1 DEF vars
    <3>2. ASSUME NEW w \in Worker, Work(w) \/ ReportPhpError(w) \/ Crash(w)
          PROVE  <2>1
      BY <3>2, ZenonT(30) DEF Work, Connect, ReadGreeting, Greet, TakeBatch, RunTest, Redirect,
         FinishBatch, HangUp, Terminate, ReportPhpError, Crash, WorkerStep, Alive, TypeOK
    <3> QED
      BY <1>4, <3>1, <3>2, WorkerFrame
  <2> QED
    BY <1>4, <2>1, WorkerFrame
<1> QED
  BY <1>1, <1>2, <1>3, <1>4

(* The steps that take a message are those of the greeting and of the      *)
(* drain loop; every other step of the parent leaves toParent alone.       *)
LEMMA ParentReads ==
  ASSUME IndInv, Parent
  PROVE  \/ UNCHANGED toParent
         \/ reading \in Worker /\ toParent[reading] # <<>> /\ TakeMessage
<1>1. CASE ReadReply \/ ReadResult \/ ReadFinished \/ ReadReady
  BY <1>1 DEF ReadReply, ReadResult, ReadFinished, ReadReady, Reading, IndInv, TypeOK
<1>2. CASE ~(ReadReply \/ ReadResult \/ ReadFinished \/ ReadReady)
  BY <1>2 DEF Parent, ReadConflicts, OrderTests, Spawn, SpawnFails, Accept, AcceptFails,
     ReplyFails, Select, TakeSocket, Drained, ReadPhpError, Release, FallThrough, PopFree,
     PopBlocked, Dispatch, Retire, Finish, Abort
<1> QED
  BY <1>1, <1>2

(* The parent adds nothing to what is on the way to it.                    *)
LEMMA ParentSentLess ==
  ASSUME IndInv, Parent, NEW w \in Worker, NEW type, Sent(w, type)'
  PROVE  Sent(w, type)
<1>1. CASE UNCHANGED toParent
  BY <1>1 DEF Sent
<1> QED
  BY <1>1, ParentReads, SentLess DEF IndInv

(* Only Dispatch gives a worker tests, on the connection and on lease; a   *)
(* lease ends when its tests_finished is read.                             *)
LEMMA ParentOrders ==
  ASSUME IndInv, Parent, ~Dispatch, NEW w \in Worker
  PROVE  /\ Ordered(w)' => Ordered(w)
         /\ leased'[w] # {} => leased'[w] = leased[w]
<1> USE DEF IndInv, TypeOK
<1>1. CASE \E v \in Worker : Accept(v)
  <2>1. PICK v \in Worker : toWorker' = [toWorker EXCEPT ![v] = Append(@, [type |-> "hello"])]
    BY <1>1 DEF Accept, SendTo
  <2>2. toWorker[v] \in Seq(ToWorkerMsg) /\ [type |-> "hello"] \in ToWorkerMsg
    BY DEF ToWorkerMsg
  <2>3. /\ DOMAIN toWorker'[v] = 1 .. Len(toWorker[v]) + 1
        /\ DOMAIN toWorker[v] = 1 .. Len(toWorker[v])
        /\ Len(toWorker[v]) \in Nat
        /\ \A n \in 1 .. Len(toWorker[v]) : toWorker'[v][n] = toWorker[v][n]
        /\ toWorker'[v][Len(toWorker[v]) + 1] = [type |-> "hello"]
    BY <2>1, <2>2
  <2>4. Ordered(w)' => Ordered(w)
    <3>1. CASE w = v
      <4>1. \A n \in DOMAIN toWorker'[v] :
              toWorker'[v][n].type = "run_tests" => n \in DOMAIN toWorker[v]
                                                   /\ toWorker'[v][n] = toWorker[v][n]
        BY <2>3, SMTT(30)
      <4> QED
        BY <3>1, <4>1 DEF Ordered
    <3>2. CASE w # v
      BY <2>1, <3>2 DEF Ordered
    <3> QED
      BY <3>1, <3>2
  <2> QED
    BY <1>1, <2>4 DEF Accept
<1>2. CASE ReadFinished
  BY <1>2 DEF ReadFinished, Ordered
<1>3. CASE ~(\E v \in Worker : Accept(v)) /\ ~ReadFinished
  <2>1. UNCHANGED <<toWorker, leased>>
    BY <1>3 DEF Parent, ReadConflicts, OrderTests, Spawn, SpawnFails, AcceptFails, ReadReply,
       ReplyFails, Select, TakeSocket, Drained, ReadResult, ReadPhpError, Release, ReadReady,
       FallThrough, StartBatch, PopFree, PopBlocked, Retire, Finish, Abort
  <2> QED
    BY <2>1 DEF Ordered
<1> QED
  BY <1>1, <1>2, <1>3

(* The part of Dispatch that the protocol invariants see.                  *)
LEMMA DispatchFrame ==
  ASSUME IndInv, Dispatch, NEW w \in Worker
  PROVE  /\ reading \in workerSocks
         /\ ~Sent(reading, "ready")
         /\ w # reading => leased'[w] = leased[w] /\ toWorker'[w] = toWorker[w]
BY DEF IndInv, TypeOK, ProtocolInv, Listening, ReadingHoldsNone, Dispatch, SendTo

(* A worker asks for tests only after it has replied to the greeting.      *)
LEMMA EarlyQuietStep == IndInv /\ [Next]_vars => EarlyQuiet'
<1> SUFFICES ASSUME IndInv, [Next]_vars, NEW w \in Worker, Early(w)'
             PROVE  /\ ~Sent(w, "hello_reply")' /\ ~Sent(w, "ready")'
                    /\ ~Sent(w, "tests_finished")'
                    /\ ~Ordered(w)'
                    /\ w \notin workerSocks'
                    /\ leased'[w] = {}
  BY DEF EarlyQuiet
<1> USE DEF IndInv, ProtocolInv
<1>1. CASE Parent
  <2>1. Early(w)
    <3>1. CASE Spawn
      <4>1. PICK m \in 0 .. workers - 1 : workerProcs = 1 .. m
        BY <3>1 DEF Spawn, Spawning
      <4>2. Cardinality(workerProcs) = m
        BY <4>1, WorkersBound, FS_Interval
      <4>3. wpc' = [wpc EXCEPT ![m + 1] = "connecting"] /\ m + 1 \notin workerProcs
        <5>1. m + 1 \notin 1 .. m
          OBVIOUS
        <5> QED
          BY <3>1, <4>1, <4>2, <5>1 DEF Spawn
      <4>4. w = m + 1 => wpc[w] = "unborn"
        BY <3>1, <4>3 DEF Spawn, Started
      <4> QED
        BY <4>3, <4>4 DEF Early, TypeOK
    <3> QED
      BY <1>1, <3>1, ParentFrame DEF Early
  <2>2. /\ ~Sent(w, "hello_reply") /\ ~Sent(w, "ready") /\ ~Sent(w, "tests_finished")
        /\ ~Ordered(w)
        /\ w \notin workerSocks
        /\ leased[w] = {}
    BY <2>1 DEF EarlyQuiet
  <2>3. ~Sent(w, "hello_reply")' /\ ~Sent(w, "ready")' /\ ~Sent(w, "tests_finished")'
    BY <1>1, <2>2, ParentSentLess
  <2>4. ~Ordered(w)' /\ leased'[w] = {}
    <3>1. CASE Dispatch
      BY <3>1, <2>2, DispatchFrame DEF Ordered
    <3> QED
      BY <1>1, <2>2, <3>1, ParentOrders
  <2>5. w \notin workerSocks'
    <3>1. CASE ReadReply
      <4>1. Sent(reading, "hello_reply") /\ reading \in Worker
        <5>1. toParent[reading] \in Seq(ToParentMsg) /\ toParent[reading] # <<>>
          BY <3>1 DEF ReadReply, TypeOK
        <5>2. /\ 1 \in DOMAIN toParent[reading]
              /\ Head(toParent[reading]) = toParent[reading][1]
          BY <5>1, EmptySeq, HeadType
        <5> QED
          BY <3>1, <5>2 DEF ReadReply, Sent, TypeOK
      <4> QED
        BY <2>2, <3>1, <4>1 DEF ReadReply
    <3>2. CASE ~ReadReply
      BY <1>1, <2>2, <3>2 DEF Parent, ReadConflicts, OrderTests, Spawn, SpawnFails, Accept,
         AcceptFails, ReplyFails, Select, TakeSocket, Drained, ReadResult, ReadPhpError,
         ReadFinished, Release, ReadReady, FallThrough, StartBatch, PopFree, PopBlocked,
         Dispatch, Retire, Unset, Finish, Abort
    <3> QED
      BY <3>1, <3>2
  <2> QED
    BY <2>3, <2>4, <2>5
<1>2. CASE ~Parent
  <2>1. leased'[w] = leased[w] /\ workerSocks' = workerSocks
    BY <1>2, WorkerFrame
  <2>2. CASE UNCHANGED vars
    BY <2>1, <2>2 DEF vars, EarlyQuiet, Early, Sent, Ordered
  <2>3. ASSUME NEW v \in Worker, Work(v) \/ ReportPhpError(v) \/ Crash(v)
        PROVE  /\ Early(w)
               /\ Sent(w, "hello_reply")' => Sent(w, "hello_reply")
               /\ Sent(w, "ready")' => Sent(w, "ready")
               /\ Sent(w, "tests_finished")' => Sent(w, "tests_finished")
               /\ Ordered(w)' => Ordered(w)
    <3>1. CASE Connect(v) \/ HangUp(v) \/ Terminate(v) \/ Crash(v) \/ Redirect(v)
      BY <3>1 DEF Connect, HangUp, Terminate, Crash, Redirect, WorkerStep, Alive, Early, Sent,
                  Ordered, TypeOK
    <3>2. CASE ReadGreeting(v) \/ TakeBatch(v)
      <4>1. /\ Early(w) /\ UNCHANGED toParent
            /\ toWorker[v] # <<>>
            /\ toWorker' = [toWorker EXCEPT ![v] = Tail(@)]
        BY <3>2 DEF ReadGreeting, TakeBatch, WorkerStep, Early, TypeOK
      <4>2. Ordered(w)' => Ordered(w)
        BY <4>1, OrderedLess
      <4> QED
        BY <4>1, <4>2 DEF Sent
    <3>3. CASE Greet(v)
      <4>1. v # w /\ Early(w) /\ toParent'[w] = toParent[w] /\ UNCHANGED toWorker
        BY <3>3 DEF Greet, WorkerStep, Early, TypeOK
      <4> QED
        BY <4>1 DEF Sent, Ordered
    <3>4. CASE RunTest(v) \/ FinishBatch(v)
      <4>1. v # w /\ Early(w) /\ toParent'[w] = toParent[w] /\ UNCHANGED toWorker
        BY <3>4, SMTT(30) DEF RunTest, FinishBatch, SendParent, WorkerStep, Early, TypeOK
      <4> QED
        BY <4>1 DEF Sent, Ordered
    <3>5. CASE ReportPhpError(v)
      <4>1. /\ Early(w) /\ UNCHANGED toWorker
            /\ SendParent(v, [type |-> "php_error"])
            /\ [type |-> "php_error"] \in ToParentMsg
        BY <3>5 DEF ReportPhpError, Early, ToParentMsg
      <4> QED
        BY <4>1, SentAppend, SMTT(30) DEF Sent, Ordered
    <3>6. \/ Connect(v) \/ HangUp(v) \/ Terminate(v) \/ Crash(v) \/ Redirect(v)
          \/ ReadGreeting(v) \/ TakeBatch(v) \/ Greet(v)
          \/ RunTest(v) \/ FinishBatch(v) \/ ReportPhpError(v)
      BY <2>3, Zenon DEF Work
    <3> QED
      BY <3>1, <3>2, <3>3, <3>4, <3>5, <3>6, Zenon
  <2> QED
    BY <1>2, <2>1, <2>2, <2>3, WorkerFrame DEF EarlyQuiet
<1> QED
  BY <1>1, <1>2

(* A message other than "ready" leaves the one "ready" what it was.         *)
LEMMA ReadyOnceAppend ==
  ASSUME IndInv, NEW v \in Worker, NEW w \in Worker,
         NEW msg \in ToParentMsg, msg.type # "ready", SendParent(v, msg),
         msg.type = "tests_finished" => wpc[v] = "running",
         NEW n \in DOMAIN toParent'[w], toParent'[w][n].type = "ready"
  PROVE  /\ \A m \in DOMAIN toParent'[w] : toParent'[w][m].type = "ready" => m = n
         /\ ~Sent(w, "tests_finished")'
         /\ ~Ordered(w)
         /\ wpc[w] # "running"
         /\ leased[w] = {}
<1>1. /\ \A u \in Worker \ {v} : toParent'[u] = toParent[u]
      /\ DOMAIN toParent'[v] = 1 .. Len(toParent[v]) + 1
      /\ DOMAIN toParent[v] = 1 .. Len(toParent[v])
      /\ Len(toParent[v]) \in Nat
      /\ \A m \in 1 .. Len(toParent[v]) : toParent'[v][m] = toParent[v][m]
      /\ toParent'[v][Len(toParent[v]) + 1] = msg
  BY SentAppend DEF IndInv
<1>2. ASSUME NEW m \in DOMAIN toParent'[w]
      PROVE  \/ m \in DOMAIN toParent[w] /\ toParent'[w][m] = toParent[w][m]
             \/ w = v /\ toParent'[w][m] = msg
  <2>1. CASE w = v
    <3>1. m \in 1 .. Len(toParent[v]) \/ m = Len(toParent[v]) + 1
      BY <1>1, <2>1
    <3> QED
      BY <1>1, <2>1, <3>1
  <2> QED
    BY <1>1, <2>1
<1>3. n \in DOMAIN toParent[w] /\ toParent[w][n].type = "ready"
  BY <1>2
<1>4. /\ \A m \in DOMAIN toParent[w] : toParent[w][m].type = "ready" => m = n
      /\ ~Sent(w, "tests_finished")
      /\ ~Ordered(w)
      /\ wpc[w] # "running"
      /\ leased[w] = {}
  BY <1>3 DEF IndInv, ProtocolInv, ReadyOnce
<1> QED
  BY <1>2, <1>4 DEF Sent

(* A batch goes out only to the worker whose message is handled, and after *)
(* its "ready" and its tests_finished have been read.                      *)
LEMMA ReadyOnceStep == IndInv /\ [Next]_vars => ReadyOnce'
<1> SUFFICES ASSUME IndInv, [Next]_vars, NEW w \in Worker,
                    NEW n \in DOMAIN toParent'[w], toParent'[w][n].type = "ready"
             PROVE  /\ \A m \in DOMAIN toParent'[w] : toParent'[w][m].type = "ready" => m = n
                    /\ ~Sent(w, "tests_finished")'
                    /\ ~Ordered(w)'
                    /\ wpc'[w] # "running"
                    /\ leased'[w] = {}
  BY DEF ReadyOnce
<1> USE DEF IndInv, ProtocolInv
<1>1. CASE Parent
  <2>1. PICK k \in DOMAIN toParent[w] : toParent[w][k].type = "ready"
    <3>1. Sent(w, "ready")'
      BY DEF Sent
    <3>2. Sent(w, "ready")
      BY <1>1, <3>1, ParentSentLess
    <3> QED
      BY <3>2 DEF Sent
  <2>2. /\ \A m \in DOMAIN toParent[w] : toParent[w][m].type = "ready" => m = k
        /\ ~Sent(w, "tests_finished")
        /\ ~Ordered(w)
        /\ wpc[w] # "running"
        /\ leased[w] = {}
    BY <2>1 DEF ReadyOnce
  <2>3. \A m \in DOMAIN toParent'[w] : toParent'[w][m].type = "ready" => m = n
    <3>1. CASE toParent'[w] = toParent[w]
      BY <2>2, <3>1
    <3>2. CASE w = reading /\ toParent[w] # <<>> /\ TakeMessage
      <4>1. /\ DOMAIN toParent'[w] = 1 .. Len(toParent[w]) - 1
            /\ DOMAIN toParent[w] = 1 .. Len(toParent[w])
            /\ Len(toParent[w]) \in Nat \ {0}
            /\ \A m \in 1 .. Len(toParent[w]) - 1 : toParent'[w][m] = toParent[w][m + 1]
        BY <3>2, SentTail
      <4>2. \A m \in DOMAIN toParent'[w] :
              toParent'[w][m].type = "ready" => m + 1 = k
        <5>1. ASSUME NEW m \in 1 .. Len(toParent[w]) - 1
              PROVE  /\ m + 1 \in DOMAIN toParent[w]
                     /\ toParent'[w][m] = toParent[w][m + 1]
          BY <4>1
        <5> QED
          BY <2>2, <4>1, <5>1
      <4> QED
        BY <4>1, <4>2
    <3> QED
      BY <1>1, <3>1, <3>2, ParentReads, SentTail
  <2>4. ~Sent(w, "tests_finished")'
    BY <1>1, <2>2, ParentSentLess
  <2>5. ~Ordered(w)' /\ leased'[w] = {}
    <3>1. CASE Dispatch
      <4>1. w # reading
        BY <2>1, <3>1, DispatchFrame DEF Sent
      <4> QED
        BY <2>2, <3>1, <4>1, DispatchFrame DEF Ordered
    <3> QED
      BY <1>1, <2>2, <3>1, ParentOrders
  <2>6. wpc'[w] # "running"
    BY <1>1, <2>2, ParentFrame DEF Spawn, TypeOK
  <2> QED
    BY <2>3, <2>4, <2>5, <2>6
<1>2. CASE ~Parent
  <2>1. leased'[w] = leased[w]
    BY <1>2, WorkerFrame
  <2>2. CASE UNCHANGED vars
    BY <2>2 DEF vars, ReadyOnce, Sent, Ordered
  <2>3. ASSUME NEW v \in Worker, Work(v) \/ ReportPhpError(v) \/ Crash(v)
        PROVE  /\ \A m \in DOMAIN toParent'[w] : toParent'[w][m].type = "ready" => m = n
               /\ ~Sent(w, "tests_finished")'
               /\ ~Ordered(w)'
               /\ wpc'[w] # "running"
               /\ leased[w] = {}
    <3>1. CASE Connect(v) \/ HangUp(v) \/ Terminate(v) \/ Crash(v) \/ Redirect(v)
      BY <3>1 DEF Connect, HangUp, Terminate, Crash, Redirect, WorkerStep, ReadyOnce, Sent,
                  Ordered, TypeOK
    <3>2. CASE ReadGreeting(v) \/ TakeBatch(v)
      <4>1. /\ UNCHANGED toParent
            /\ toWorker[v] # <<>>
            /\ toWorker' = [toWorker EXCEPT ![v] = Tail(@)]
        BY <3>2 DEF ReadGreeting, TakeBatch
      <4>2. /\ \A m \in DOMAIN toParent[w] : toParent[w][m].type = "ready" => m = n
            /\ ~Sent(w, "tests_finished") /\ ~Ordered(w) /\ leased[w] = {}
            /\ wpc[w] # "running"
        BY <4>1 DEF ReadyOnce
      <4>3. ~Ordered(w)'
        BY <4>1, <4>2, OrderedLess
      <4>4. wpc'[w] # "running"
        <5>1. CASE TakeBatch(w)
          <6>1. toWorker[w] \in Seq(ToWorkerMsg) /\ toWorker[w] # <<>>
            BY <5>1 DEF TakeBatch, TypeOK
          <6>2. 1 \in DOMAIN toWorker[w] /\ Head(toWorker[w]) = toWorker[w][1]
            BY <6>1, EmptySeq, HeadType
          <6> QED
            BY <4>2, <5>1, <6>2 DEF TakeBatch, Ordered
        <5>2. CASE ~TakeBatch(w)
          BY <3>2, <4>2, <5>2 DEF TakeBatch, ReadGreeting, WorkerStep, TypeOK
        <5> QED
          BY <5>1, <5>2
      <4> QED
        BY <4>1, <4>2, <4>3, <4>4 DEF Sent
    <3>3. CASE Greet(v) /\ v = w
      <4>1. /\ toParent[w] \in Seq(ToParentMsg)
            /\ toParent'[w] = toParent[w] \o <<[type |-> "hello_reply"], [type |-> "ready"]>>
            /\ UNCHANGED toWorker
            /\ wpc'[w] = "idle"
            /\ Early(w)
        BY <3>3 DEF Greet, WorkerStep, Early, TypeOK
      <4>2. /\ ~Sent(w, "ready") /\ ~Sent(w, "tests_finished") /\ ~Ordered(w)
            /\ leased[w] = {}
        BY <4>1 DEF EarlyQuiet
      <4>3. /\ DOMAIN toParent[w] = 1 .. Len(toParent[w])
            /\ Len(toParent[w]) \in Nat
            /\ DOMAIN toParent'[w] = 1 .. Len(toParent[w]) + 2
            /\ \A m \in 1 .. Len(toParent[w]) : toParent'[w][m] = toParent[w][m]
            /\ toParent'[w][Len(toParent[w]) + 1] = [type |-> "hello_reply"]
            /\ toParent'[w][Len(toParent[w]) + 2] = [type |-> "ready"]
        BY <4>1
      <4>4. \A m \in DOMAIN toParent'[w] :
              \/ m = Len(toParent[w]) + 2
              \/ toParent'[w][m].type # "ready"
        <5>1. \A m \in 1 .. Len(toParent[w]) : toParent'[w][m].type # "ready"
          BY <4>2, <4>3 DEF Sent
        <5> QED
          BY <4>3, <5>1
      <4>5. \A m \in DOMAIN toParent'[w] : toParent'[w][m].type # "tests_finished"
        <5>1. \A m \in 1 .. Len(toParent[w]) : toParent'[w][m].type # "tests_finished"
          BY <4>2, <4>3 DEF Sent
        <5> QED
          BY <4>3, <5>1
      <4> QED
        BY <4>1, <4>2, <4>4, <4>5 DEF Sent, Ordered
    <3>4. CASE Greet(v) /\ v # w
      BY <3>4 DEF Greet, WorkerStep, ReadyOnce, Sent, Ordered, TypeOK
    <3>6. CASE RunTest(v)
      <4>1. Head(todo[v]) \in Test
        BY <3>6, HeadType DEF RunTest, TypeOK
      <4>2. /\ [type |-> "test_result", name |-> Head(todo[v])] \in ToParentMsg
            /\ SendParent(v, [type |-> "test_result", name |-> Head(todo[v])])
            /\ UNCHANGED <<toWorker, wpc>>
        BY <3>6, <4>1 DEF RunTest, ToParentMsg
      <4> QED
        BY <4>2, ReadyOnceAppend DEF Ordered
    <3>7. CASE FinishBatch(v)
      <4>1. /\ [type |-> "tests_finished"] \in ToParentMsg
            /\ SendParent(v, [type |-> "tests_finished"])
            /\ wpc[v] = "running"
            /\ UNCHANGED toWorker
            /\ wpc'[w] = "running" => wpc[w] = "running"
        BY <3>7 DEF FinishBatch, WorkerStep, ToParentMsg, TypeOK
      <4> QED
        BY <4>1, ReadyOnceAppend DEF Ordered
    <3>8. CASE ReportPhpError(v)
      <4>1. /\ [type |-> "php_error"] \in ToParentMsg
            /\ SendParent(v, [type |-> "php_error"])
            /\ UNCHANGED <<toWorker, wpc>>
        BY <3>8 DEF ReportPhpError, ToParentMsg
      <4> QED
        BY <4>1, ReadyOnceAppend DEF Ordered
    <3> QED
      BY <2>3, <3>1, <3>2, <3>3, <3>4, <3>6, <3>7, <3>8 DEF Work
  <2> QED
    BY <1>2, <2>1, <2>2, <2>3, WorkerFrame
<1> QED
  BY <1>1, <1>2

(* A message other than ready adds no ready.                               *)
LEMMA NoReadyAppend ==
  ASSUME TypeOK, NEW v \in Worker, NEW w \in Worker, ~Sent(w, "ready"),
         NEW msg \in ToParentMsg, msg.type # "ready", SendParent(v, msg)
  PROVE  ~Sent(w, "ready")'
<1>1. CASE w = v
  <2>1. /\ DOMAIN toParent'[v] = 1 .. Len(toParent[v]) + 1
        /\ DOMAIN toParent[v] = 1 .. Len(toParent[v])
        /\ Len(toParent[v]) \in Nat
        /\ \A m \in 1 .. Len(toParent[v]) : toParent'[v][m] = toParent[v][m]
        /\ toParent'[v][Len(toParent[v]) + 1] = msg
    BY SentAppend
  <2>2. \A m \in 1 .. Len(toParent[v]) : toParent'[v][m].type # "ready"
    BY <1>1, <2>1 DEF Sent
  <2> QED
    BY <1>1, <2>1, <2>2 DEF Sent
<1> QED
  BY <1>1, SentAppend DEF Sent

(* A batch is opened only for a worker whose last one is over.             *)
LEMMA ReadingHoldsNoneStep == IndInv /\ [Next]_vars => ReadingHoldsNone'
<1> SUFFICES ASSUME IndInv, [Next]_vars, pc' \in {"release", "batch"}
             PROVE  ~Sent(reading, "ready")' /\ leased'[reading'] = {}
  BY DEF ReadingHoldsNone
<1> USE DEF IndInv, ProtocolInv
<1>1. CASE ReadReady \/ ReadFinished
  <2>1. /\ reading \in Worker /\ reading' = reading
        /\ toParent[reading] # <<>>
        /\ TakeMessage
        /\ Head(toParent[reading]).type \in {"ready", "tests_finished"}
    BY <1>1 DEF ReadReady, ReadFinished, StartBatch, Reading, TypeOK
  <2>2. /\ DOMAIN toParent'[reading] = 1 .. Len(toParent[reading]) - 1
        /\ DOMAIN toParent[reading] = 1 .. Len(toParent[reading])
        /\ Len(toParent[reading]) \in Nat \ {0}
        /\ \A n \in 1 .. Len(toParent[reading]) - 1 :
             toParent'[reading][n] = toParent[reading][n + 1]
        /\ toParent[reading][1].type \in {"ready", "tests_finished"}
    BY <2>1, SentTail
  <2>3. \A n \in DOMAIN toParent[reading] : toParent[reading][n].type = "ready" => n = 1
    BY <2>1, <2>2 DEF ReadyOnce, Sent
  <2>4. ~Sent(reading, "ready")'
    <3>1. ASSUME NEW n \in 1 .. Len(toParent[reading]) - 1
          PROVE  toParent'[reading][n].type # "ready"
      <4>1. n + 1 \in DOMAIN toParent[reading] /\ n + 1 # 1
        BY <2>2
      <4> QED
        BY <2>2, <2>3, <4>1
    <3> QED
      BY <2>1, <2>2, <3>1 DEF Sent
  <2>5. leased'[reading] = {}
    <3>1. CASE ReadFinished
      BY <2>1, <3>1 DEF ReadFinished, TypeOK
    <3>2. CASE ReadReady
      <4>1. 1 \in DOMAIN toParent[reading] /\ toParent[reading][1].type = "ready"
        BY <2>1, <2>2, <3>2, SentTail DEF ReadReady, Reading
      <4> QED
        BY <2>1, <3>2, <4>1 DEF ReadReady, StartBatch, ReadyOnce
    <3> QED
      BY <1>1, <3>1, <3>2
  <2> QED
    BY <2>1, <2>4, <2>5
<1>2. CASE Parent /\ ~ReadReady /\ ~ReadFinished
  <2>1. /\ pc \in {"release", "batch"}
        /\ UNCHANGED <<reading, leased, toParent>>
    BY <1>2 DEF Parent, ReadConflicts, OrderTests, Spawn, SpawnFails, Accept, AcceptFails,
       ReadReply, ReplyFails, Select, TakeSocket, Drained, ReadResult, ReadPhpError, Release,
       FallThrough, StartBatch, PopFree, PopBlocked, Dispatch, Retire, Finish, Abort, Reading
  <2> QED
    BY <2>1 DEF ReadingHoldsNone, Sent
<1>3. CASE ~Parent
  <2>1. /\ pc \in {"release", "batch"}
        /\ reading' = reading /\ leased' = leased
        /\ reading \in Worker
        /\ ~Early(reading)
        /\ ~Sent(reading, "ready") /\ leased[reading] = {}
    BY <1>3, WorkerFrame DEF ReadingHoldsNone, Listening, EarlyQuiet, TypeOK
  <2>2. CASE UNCHANGED vars
    BY <2>1, <2>2 DEF vars, Sent
  <2>3. ASSUME NEW v \in Worker, Work(v) \/ ReportPhpError(v) \/ Crash(v)
        PROVE  ~Sent(reading, "ready")'
    <3>1. CASE \/ Connect(v) \/ ReadGreeting(v) \/ TakeBatch(v) \/ Redirect(v)
               \/ HangUp(v) \/ Terminate(v) \/ Crash(v)
      BY <2>1, <3>1 DEF Connect, ReadGreeting, TakeBatch, Redirect, HangUp, Terminate, Crash, Sent
    <3>2. CASE Greet(v)
      <4>1. v # reading
        BY <2>1, <3>2 DEF Greet, WorkerStep, Early
      <4> QED
        BY <2>1, <3>2, <4>1 DEF Greet, Sent
    <3>3. CASE RunTest(v)
      <4>1. Head(todo[v]) \in Test
        BY <3>3, HeadType DEF RunTest, TypeOK
      <4>2. /\ [type |-> "test_result", name |-> Head(todo[v])] \in ToParentMsg
            /\ SendParent(v, [type |-> "test_result", name |-> Head(todo[v])])
        BY <3>3, <4>1 DEF RunTest, ToParentMsg
      <4> QED
        BY <2>1, <4>2, NoReadyAppend
    <3>4. CASE FinishBatch(v) \/ ReportPhpError(v)
      <4>1. PICK type \in {"tests_finished", "php_error"} : SendParent(v, [type |-> type])
        BY <3>4 DEF FinishBatch, ReportPhpError
      <4> QED
        BY <2>1, <4>1, NoReadyAppend DEF ToParentMsg
    <3> QED
      BY <2>3, <3>1, <3>2, <3>3, <3>4 DEF Work
  <2> QED
    BY <1>3, <2>1, <2>2, <2>3, WorkerFrame
<1> QED
  BY <1>1, <1>2, <1>3

-------------------------------------------------------------------------------
(* The keys and the leases.                                                *)

(* A lease is given by Dispatch and ended by ReadFinished; keys are taken  *)
(* by Dispatch and freed by Release.                                       *)
LEMMA LeaseFrame ==
  ASSUME Parent
  PROVE  /\ ~Dispatch /\ ~ReadFinished => UNCHANGED leased
         /\ ~Dispatch /\ ~(\E k \in Key : Release(k)) => UNCHANGED activeConflicts
BY DEF Parent, ReadConflicts, OrderTests, Spawn, SpawnFails, Accept, AcceptFails, ReadReply,
   ReplyFails, Select, TakeSocket, Drained, ReadResult, ReadPhpError, ReadFinished, Release,
   ReadReady, FallThrough, StartBatch, PopFree, PopBlocked, Retire, Finish, Abort

(* Dispatch takes every key of its tests; Release frees only those of an   *)
(* ended batch.                                                            *)
LEMMA KeysHeldStep == IndInv /\ [Next]_vars => KeysHeld'
<1> SUFFICES ASSUME IndInv, [Next]_vars, NEW w \in Worker, NEW t \in leased'[w],
                    NEW k \in Keys(t)
             PROVE  k \in DOMAIN activeConflicts' /\ activeConflicts'[k] = w
  BY DEF KeysHeld
<1> USE DEF IndInv, LeaseInv, KeysHeld
<1>1. CASE Dispatch
  <2> DEFINE keys == UNION {Keys(u) : u \in Range(files)}
  <2>1. /\ activeConflicts' = [j \in keys \cup DOMAIN activeConflicts |->
                                 IF j \in keys THEN reading ELSE activeConflicts[j]]
        /\ leased' = [leased EXCEPT ![reading] = Range(files)]
        /\ pc = "batch"
        /\ reading \in Worker
    BY <1>1 DEF Dispatch, TypeOK
  <2>2. CASE w = reading
    <3>1. t \in Range(files)
      BY <2>1, <2>2 DEF TypeOK
    <3>2. k \in keys
      BY <3>1
    <3> QED
      BY <2>1, <2>2, <3>2
  <2>3. CASE w # reading
    <3>1. k \in DOMAIN activeConflicts /\ activeConflicts[k] = w
      BY <2>1, <2>3 DEF TypeOK
    <3>2. k \notin keys
      BY <2>1, <3>1 DEF BatchFree, Range
    <3> QED
      BY <2>1, <3>1, <3>2
  <2> QED
    BY <2>2, <2>3
<1>2. CASE ReadFinished
  BY <1>2 DEF ReadFinished, Reading, TypeOK
<1>3. CASE \E j \in Key : Release(j)
  <2>1. leased' = leased /\ leased[reading] = {}
    BY <1>3 DEF Release, ProtocolInv, ReadingHoldsNone
  <2>2. k \in DOMAIN activeConflicts /\ activeConflicts[k] = w /\ w # reading
    BY <2>1
  <2> QED
    BY <1>3, <2>2 DEF Release
<1>4. CASE Parent /\ ~Dispatch /\ ~ReadFinished /\ ~(\E j \in Key : Release(j))
  BY <1>4, LeaseFrame
<1>5. CASE ~Parent
  BY <1>5, WorkerFrame
<1> QED
  BY <1>1, <1>2, <1>3, <1>4, <1>5

(* No key becomes used while a batch is put together.                      *)
LEMMA BatchFreeStep == IndInv /\ [Next]_vars => BatchFree'
<1> SUFFICES ASSUME IndInv, [Next]_vars, pc' = "batch", NEW n \in DOMAIN files',
                    NEW k \in Keys(files'[n])
             PROVE  k \notin DOMAIN activeConflicts'
  BY DEF BatchFree
<1> USE DEF IndInv, LeaseInv, BatchFree
<1>1. CASE PopFree
  <2>1. /\ files' = Append(files, Last(test_files))
        /\ activeConflicts' = activeConflicts
        /\ files \in Seq(Test)
        /\ pc = "batch"
        /\ InUse(Last(test_files)) = {}
    BY <1>1 DEF PopFree, TypeOK
  <2>2. CASE n \in DOMAIN files
    BY <2>1, <2>2
  <2>3. CASE n \notin DOMAIN files
    <3>1. files'[n] = Last(test_files)
      BY <2>1, <2>3
    <3> QED
      BY <2>1, <3>1 DEF InUse, Keys, Range
  <2> QED
    BY <2>2, <2>3
<1>2. CASE PopBlocked
  BY <1>2 DEF PopBlocked
<1>3. CASE ReadReady \/ FallThrough
  BY <1>3 DEF ReadReady, FallThrough, StartBatch
<1>4. CASE Parent /\ ~PopFree /\ ~PopBlocked /\ ~ReadReady /\ ~FallThrough
  BY <1>4 DEF Parent, ReadConflicts, OrderTests, Spawn, SpawnFails, Accept, AcceptFails,
     ReadReply, ReplyFails, Select, TakeSocket, Drained, ReadResult, ReadPhpError,
     ReadFinished, Release, Dispatch, Retire, Finish, Abort, Reading
<1>5. CASE ~Parent
  BY <1>5, WorkerFrame
<1> QED
  BY <1>1, <1>2, <1>3, <1>4, <1>5

(* Retire terminates only a worker that holds nothing.                     *)
LEMMA HoldersLiveStep == IndInv /\ [Next]_vars => HoldersLive'
<1> SUFFICES ASSUME IndInv, [Next]_vars, NEW w \in Worker, leased'[w] # {}
             PROVE  w \in workerProcs'
  BY DEF HoldersLive
<1> USE DEF IndInv, LeaseInv, HoldersLive
<1>1. CASE Dispatch
  <2>1. reading \in workerProcs /\ workerProcs' = workerProcs
    BY <1>1 DEF Dispatch, ProtocolInv, Listening
  <2> QED
    BY <1>1, <2>1 DEF Dispatch, TypeOK
<1>2. CASE ReadFinished
  BY <1>2 DEF ReadFinished, TypeOK
<1>3. CASE Retire
  <2>1. leased' = leased /\ leased[reading] = {} /\ workerProcs' = workerProcs \ {reading}
    BY <1>3 DEF Retire, Unset, ProtocolInv, ReadingHoldsNone
  <2> QED
    BY <2>1
<1>4. CASE Parent /\ ~Dispatch /\ ~ReadFinished /\ ~Retire
  <2>1. workerProcs \subseteq workerProcs'
    BY <1>4 DEF Parent, ReadConflicts, OrderTests, Spawn, SpawnFails, Accept, AcceptFails,
       ReadReply, ReplyFails, Select, TakeSocket, Drained, ReadResult, ReadPhpError, Release,
       ReadReady, FallThrough, StartBatch, PopFree, PopBlocked, Finish, Abort
  <2> QED
    BY <1>4, <2>1, LeaseFrame
<1>5. CASE ~Parent
  BY <1>5, WorkerFrame
<1> QED
  BY <1>1, <1>2, <1>3, <1>4, <1>5

(* Two lists without sequential tests make one without.                    *)
LEMMA NoneSequentialConcat ==
  ASSUME NEW s \in Seq(Test), NEW r \in Seq(Test), NoneSequential(s), NoneSequential(r)
  PROVE  NoneSequential(s \o r)
<1>1. /\ DOMAIN s = 1 .. Len(s) /\ DOMAIN r = 1 .. Len(r)
      /\ Len(s) \in Nat /\ Len(r) \in Nat
      /\ DOMAIN (s \o r) = 1 .. Len(s) + Len(r)
  OBVIOUS
<1>2. ASSUME NEW n \in 1 .. Len(s) + Len(r)
      PROVE  \/ n \in DOMAIN s /\ (s \o r)[n] = s[n]
             \/ n - Len(s) \in DOMAIN r /\ (s \o r)[n] = r[n - Len(s)]
  BY <1>1
<1> QED
  BY <1>1, <1>2 DEF NoneSequential

(* Nor does reversing a list bring one in.                                 *)
LEMMA NoneSequentialReverse ==
  ASSUME NEW s \in Seq(Test), NoneSequential(s)
  PROVE  NoneSequential(Reverse(s))
<1>1. /\ DOMAIN s = 1 .. Len(s) /\ Len(s) \in Nat
      /\ DOMAIN Reverse(s) = 1 .. Len(s)
  BY DEF Reverse
<1>2. ASSUME NEW n \in 1 .. Len(s)
      PROVE  Len(s) - n + 1 \in DOMAIN s /\ Reverse(s)[n] = s[Len(s) - n + 1]
  BY <1>1 DEF Reverse
<1> QED
  BY <1>1, <1>2 DEF NoneSequential

(* Nor does one more test that is not sequential.                          *)
LEMMA NoneSequentialAppend ==
  ASSUME NEW s \in Seq(Test), NEW t \in Test, NoneSequential(s), ~Sequential(t)
  PROVE  NoneSequential(Append(s, t))
<1>1. /\ DOMAIN s = 1 .. Len(s) /\ Len(s) \in Nat
      /\ DOMAIN Append(s, t) = 1 .. Len(s) + 1
      /\ \A n \in 1 .. Len(s) : Append(s, t)[n] = s[n]
      /\ Append(s, t)[Len(s) + 1] = t
  OBVIOUS
<1> QED
  BY <1>1 DEF NoneSequential

(* Nor does popping a test.                                                *)
LEMMA NoneSequentialFrontLast ==
  ASSUME NEW s \in Seq(Test), s # <<>>, NoneSequential(s)
  PROVE  NoneSequential(Front(s)) /\ ~Sequential(Last(s))
<1>1. /\ Front(s) \in Seq(Test)
      /\ Len(Front(s)) = Len(s) - 1
      /\ \A n \in 1 .. Len(s) - 1 : Front(s)[n] = s[n]
      /\ Last(s) = s[Len(s)]
  BY FrontLastType
<1>2. DOMAIN s = 1 .. Len(s) /\ Len(s) \in Nat \ {0}
  BY EmptySeq
<1>3. DOMAIN Front(s) = 1 .. Len(s) - 1
  BY <1>1, <1>2
<1>4. \A n \in 1 .. Len(s) - 1 : n \in DOMAIN s
  BY <1>2
<1>5. Len(s) \in DOMAIN s
  BY <1>2
<1> QED
  BY <1>1, <1>3, <1>4, <1>5 DEF NoneSequential

(* Once one worker is left, no other one ever joins it.                    *)
LEMMA LastWorkerStep ==
  ASSUME IndInv, [Next]_vars, pc \notin {"classify", "spawn"},
         NEW x \in Worker, workerProcs \subseteq {x}
  PROVE  pc' \notin {"classify", "spawn"} /\ workerProcs' \subseteq {x}
<1>1. CASE Parent
  BY <1>1 DEF Parent, ReadConflicts, OrderTests, Spawn, SpawnFails, Accept, AcceptFails,
     ReadReply, ReplyFails, Select, TakeSocket, Drained, ReadResult, ReadPhpError,
     ReadFinished, Release, ReadReady, FallThrough, StartBatch, PopFree, PopBlocked, Dispatch,
     Retire, Unset, Finish, Abort, Reading
<1>2. CASE ~Parent
  BY <1>2, WorkerFrame
<1> QED
  BY <1>1, <1>2

(* The sequential tests enter test_files in StartBatch, when one worker is *)
(* left, and nowhere else.                                                 *)
LEMMA StartBatchHoldsBack ==
  ASSUME IndInv, StartBatch, pc \notin {"classify", "spawn"}
  PROVE  \/ pc' = "batch" /\ \E x \in Worker : workerProcs' \subseteq {x}
         \/ UNCHANGED test_files
<1>1. CASE OneWorkerLeft
  <2>1. IsFiniteSet(workerProcs)
    <3>1. IsFiniteSet(1 .. NWorkers) /\ workerProcs \subseteq 1 .. NWorkers
      <4>1. 1 \in Int /\ NWorkers \in Int
        BY OptionsAssumption
      <4>2. IsFiniteSet(1 .. NWorkers)
        BY <4>1, FS_Interval
      <4> QED
        BY <4>2 DEF IndInv, TypeOK, Worker
    <3> QED
      BY <3>1, FS_Subset
  <2>2. \E x : workerProcs = {x}
    BY <1>1, <2>1, FS_Singleton DEF OneWorkerLeft
  <2>3. \E x \in Worker : workerProcs \subseteq {x}
    BY <2>2 DEF IndInv, TypeOK
  <2> QED
    BY <2>3 DEF StartBatch
<1>2. CASE ~OneWorkerLeft
  BY <1>2 DEF StartBatch
<1> QED
  BY <1>1, <1>2

(* Tests that conflict with all are held back until one worker is left.    *)
LEMMA SequentialHeldBackStep == IndInv /\ [Next]_vars => SequentialHeldBack'
<1> SUFFICES ASSUME IndInv, [Next]_vars PROVE SequentialHeldBack'
  OBVIOUS
<1> USE DEF IndInv, LeaseInv
<1>1. CASE pc \notin {"classify", "spawn"} /\ \E x \in Worker : workerProcs \subseteq {x}
  BY <1>1, LastWorkerStep DEF SequentialHeldBack
<1>2. CASE /\ NoneSequential(test_files)
           /\ \A k \in Key : NoneSequential(waitingTests[k])
           /\ pc = "batch" => NoneSequential(files)
           /\ \A w \in Worker : \A t \in leased[w] : ~Sequential(t)
  <2>1. CASE ReadConflicts
    <3>1. Head(unread) \in Test /\ test_files \in Seq(Test)
      BY <2>1, HeadType DEF ReadConflicts, TypeOK
    <3>2. NoneSequential(test_files')
      BY <1>2, <2>1, <3>1, NoneSequentialAppend DEF ReadConflicts
    <3> QED
      BY <1>2, <2>1, <3>2 DEF ReadConflicts, SequentialHeldBack
  <2>2. CASE OrderTests
    <3>1. NoneSequential(test_files')
      <4>1. CASE Shuffle
        <5>1. PICK p \in [DOMAIN test_files -> DOMAIN test_files] :
                test_files' = [n \in DOMAIN test_files |-> test_files[p[n]]]
          BY <2>2, <4>1 DEF OrderTests
        <5> QED
          BY <1>2, <5>1 DEF NoneSequential
      <4>2. CASE ~Shuffle
        BY <1>2, <2>2, <4>2, NoneSequentialReverse DEF OrderTests, TypeOK
      <4> QED
        BY <4>1, <4>2
    <3> QED
      BY <1>2, <2>2, <3>1 DEF OrderTests, SequentialHeldBack
  <2>3. CASE \E k \in Key : Release(k)
    <3>1. PICK k \in Key : Release(k)
      BY <2>3
    <3>2. /\ test_files \in Seq(Test) /\ waitingTests[k] \in Seq(Test)
          /\ Reverse(waitingTests[k]) \in Seq(Test)
      BY ReverseType DEF TypeOK
    <3>3. NoneSequential(test_files \o Reverse(waitingTests[k]))
      BY <1>2, <3>2, NoneSequentialReverse, NoneSequentialConcat
    <3>4. NoneSequential(<<>>)
      BY DEF NoneSequential
    <3> QED
      BY <1>2, <3>1, <3>3, <3>4 DEF Release, PopAll, SequentialHeldBack, TypeOK
  <2>4. CASE ReadReady \/ FallThrough
    <3>1. /\ pc \notin {"classify", "spawn"} /\ StartBatch
          /\ files' = <<>> /\ waitingTests' = waitingTests /\ leased' = leased
      BY <2>4 DEF ReadReady, FallThrough, StartBatch, Reading
    <3>2. CASE pc' = "batch" /\ \E x \in Worker : workerProcs' \subseteq {x}
      BY <3>2 DEF SequentialHeldBack
    <3>3. CASE UNCHANGED test_files
      <4>1. NoneSequential(<<>>)
        BY DEF NoneSequential
      <4> QED
        BY <1>2, <3>1, <3>3, <4>1 DEF SequentialHeldBack
    <3> QED
      BY <3>1, <3>2, <3>3, StartBatchHoldsBack
  <2>5. CASE PopFree \/ PopBlocked
    <3>1. /\ pc = "batch" /\ test_files # <<>> /\ test_files \in Seq(Test)
          /\ test_files' = Front(test_files)
          /\ leased' = leased
      BY <2>5 DEF PopFree, PopBlocked, MorePops, TypeOK
    <3>2. /\ NoneSequential(Front(test_files)) /\ ~Sequential(Last(test_files))
          /\ Last(test_files) \in Test
      BY <1>2, <3>1, NoneSequentialFrontLast, FrontLastType
    <3>3. CASE PopFree
      <4>1. NoneSequential(Append(files, Last(test_files)))
        BY <1>2, <3>1, <3>2, NoneSequentialAppend DEF TypeOK
      <4> QED
        BY <1>2, <3>1, <3>2, <3>3, <4>1 DEF PopFree, SequentialHeldBack
    <3>4. CASE PopBlocked
      <4>1. PICK k \in Key :
              waitingTests' = [waitingTests EXCEPT ![k] = Append(@, Last(test_files))]
        <5>1. PICK n \in InUse(Last(test_files)) :
                waitingTests' = [waitingTests EXCEPT ![fileConflictsWith[Last(test_files)][n]]
                                   = Append(@, Last(test_files))]
          BY <3>4 DEF PopBlocked
        <5>2. fileConflictsWith[Last(test_files)][n] \in Key
          BY <3>2, TestsAssumption DEF InUse
        <5> QED
          BY <5>1, <5>2
      <4>2. NoneSequential(Append(waitingTests[k], Last(test_files)))
        BY <1>2, <3>2, NoneSequentialAppend DEF TypeOK
      <4> QED
        BY <1>2, <3>1, <3>2, <3>4, <4>1, <4>2 DEF PopBlocked, SequentialHeldBack, TypeOK
    <3> QED
      BY <2>5, <3>3, <3>4
  <2>6. CASE Dispatch
    <3>1. \A t \in Range(files) : ~Sequential(t)
      BY <1>2, <2>6 DEF Dispatch, NoneSequential, Range
    <3> QED
      BY <1>2, <2>6, <3>1 DEF Dispatch, SequentialHeldBack, TypeOK
  <2>7. CASE ReadFinished
    BY <1>2, <2>7 DEF ReadFinished, SequentialHeldBack, TypeOK
  <2>8. CASE /\ Parent /\ ~ReadConflicts /\ ~OrderTests /\ ~(\E k \in Key : Release(k))
             /\ ~ReadReady /\ ~FallThrough /\ ~PopFree /\ ~PopBlocked /\ ~Dispatch
             /\ ~ReadFinished
    <3>1. UNCHANGED <<test_files, waitingTests>> /\ pc' # "batch"
      BY <2>8 DEF Parent, Spawn, SpawnFails, Accept, AcceptFails, ReadReply, ReplyFails,
         Select, TakeSocket, Drained, ReadResult, ReadPhpError, Retire, Finish, Abort, Reading
    <3> QED
      BY <1>2, <2>8, <3>1, LeaseFrame DEF SequentialHeldBack
  <2>9. CASE ~Parent
    BY <1>2, <2>9, WorkerFrame DEF SequentialHeldBack
  <2> QED
    BY <2>1, <2>2, <2>3, <2>4, <2>5, <2>6, <2>7, <2>8, <2>9
<1> QED
  BY <1>1, <1>2 DEF SequentialHeldBack

-------------------------------------------------------------------------------
(* The invariant, and what follows from it.                                *)

(* The initial state satisfies the invariant.                              *)
LEMMA IndInvInit == Init => IndInv
<1> SUFFICES ASSUME Init PROVE IndInv
  OBVIOUS
<1>1. TypeOK
  BY TypeInit
<1>2. Spawning
  <2>1. 0 \in 0 .. workers - 1 /\ workerProcs = 1 .. 0
    BY WorkersBound, OptionsAssumption DEF Init
  <2> QED
    BY <2>1 DEF Spawning
<1>3. Started /\ Listening /\ ReadingHoldsNone
  BY DEF Init, Started, Listening, ReadingHoldsNone
<1>4. EarlyQuiet /\ ReadyOnce
  BY DEF Init, EarlyQuiet, ReadyOnce, Sent, Ordered
<1>5. KeysHeld /\ BatchFree /\ HoldersLive /\ SequentialHeldBack
  BY DEF Init, KeysHeld, BatchFree, HoldersLive, SequentialHeldBack, NoneSequential
<1> QED
  BY <1>1, <1>2, <1>3, <1>4, <1>5 DEF IndInv, ProtocolInv, LeaseInv

(* Every step keeps the invariant, so it holds of every reachable state.   *)
THEOREM Inductive == Spec => []IndInv
<1>1. IndInv /\ [Next]_vars => IndInv'
  BY TypeStep, SpawningStep, StartedStep, ListeningStep, EarlyQuietStep, ReadyOnceStep,
     ReadingHoldsNoneStep, KeysHeldStep, BatchFreeStep, HoldersLiveStep,
     SequentialHeldBackStep
     DEF IndInv, ProtocolInv, LeaseInv
<1> QED
  BY <1>1, IndInvInit, PTL DEF Spec

(* Every variable of the scheduler, the messages included, keeps its type, *)
(* whatever the tests, the keys, the number of workers and the faults.     *)
THEOREM TypeCorrect == Spec => []TypeOK
BY Inductive, PTL DEF IndInv

(* Keys held by one worker each, and sequential tests held back, give      *)
(* exclusion.                                                              *)
LEMMA IndInvExclusive == IndInv => Exclusive
<1> SUFFICES ASSUME IndInv, NEW v \in Worker, NEW w \in Worker, v # w,
                    NEW t \in leased[v], NEW u \in leased[w], Conflict(t, u)
             PROVE  FALSE
  BY DEF Exclusive
<1> USE DEF IndInv, LeaseInv
<1>1. Keys(t) \cap Keys(u) = {}
  BY DEF KeysHeld
<1>2. Sequential(t) \/ Sequential(u)
  BY <1>1 DEF Conflict
<1>3. \E x \in Worker : workerProcs \subseteq {x}
  BY <1>2 DEF SequentialHeldBack
<1>4. v \in workerProcs /\ w \in workerProcs
  BY DEF HoldersLive
<1> QED
  BY <1>3, <1>4

(* No two workers ever hold tests that share a conflict key, and while one *)
(* holds a test that conflicts with "all" no other one holds any.          *)
THEOREM ConflictExclusion == Spec => []Exclusive
BY Inductive, IndInvExclusive, PTL
===============================================================================
