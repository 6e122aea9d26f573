---------------------- MODULE RunTestsParallelRefinement ----------------------
(***************************************************************************)
(* Proof that the scheduler of RunTestsParallel implements TestPool.  No   *)
(* test is in two of its queues, or in one twice, so that a batch takes    *)
(* its tests out of the pool, and all other steps leave the pool alone.    *)
(* From the same fact: no test is reported twice, and tests that share a   *)
(* key are started in the order of the list.  Then that every run comes to *)
(* its end: the parent never waits for nobody, and every step uses up some *)
(* of what is left to do, of which there is no endless descent.            *)
(***************************************************************************)
EXTENDS RunTestsParallelWork, WellFoundedInduction

USE DEF queues, conflicts, pool, tally, network, workerVars, parentVars

-------------------------------------------------------------------------------
(* Lists without repetition.                                               *)

(* The places of a list without its last, or its first.                    *)
LEMMA Indices ==
  ASSUME NEW L \in Nat \ {0}
  PROVE  /\ \A n \in 1 .. L - 1 : /\ n \in 1 .. L /\ n # L
                                 /\ n + 1 \in 1 .. L /\ n + 1 # 1
         /\ 1 \in 1 .. L /\ L \in 1 .. L
         /\ \A m, n \in 1 .. L - 1 : m + 1 = n + 1 => m = n
OBVIOUS

(* The places of the second of two joined lists.                           *)
LEMMA Shifted ==
  ASSUME NEW K \in Nat, NEW L \in Nat
  PROVE  \A m, n \in 1 .. K + L : m - K = n - K => m = n
OBVIOUS

(* A test that is not in a list can be appended.                           *)
LEMMA OnceAppend ==
  ASSUME NEW S, NEW s \in Seq(S), NEW x \in S, Once(s), x \notin Range(s)
  PROVE  Once(Append(s, x))
<1>1. /\ DOMAIN s = 1 .. Len(s) /\ Len(s) \in Nat
      /\ DOMAIN Append(s, x) = 1 .. Len(s) + 1
      /\ \A n \in 1 .. Len(s) : Append(s, x)[n] = s[n]
      /\ Append(s, x)[Len(s) + 1] = x
  OBVIOUS
<1>2. \A n \in 1 .. Len(s) + 1 : n \in 1 .. Len(s) \/ n = Len(s) + 1
  BY <1>1
<1>3. \A n \in 1 .. Len(s) : s[n] # x
  BY <1>1 DEF Range
<1> QED
  BY <1>1, <1>2, <1>3, Zenon DEF Once

(* Lists that share no test can be joined.                                 *)
LEMMA OnceConcat ==
  ASSUME NEW S, NEW s \in Seq(S), NEW r \in Seq(S), Once(s), Once(r),
         Range(s) \cap Range(r) = {}
  PROVE  Once(s \o r)
<1>1. /\ DOMAIN s = 1 .. Len(s) /\ DOMAIN r = 1 .. Len(r)
      /\ Len(s) \in Nat /\ Len(r) \in Nat
      /\ DOMAIN (s \o r) = 1 .. Len(s) + Len(r)
  OBVIOUS
<1>2. \A n \in 1 .. Len(s) + Len(r) :
        \/ n \in DOMAIN s /\ (s \o r)[n] = s[n]
        \/ n - Len(s) \in DOMAIN r /\ (s \o r)[n] = r[n - Len(s)]
  BY <1>1
<1>3. \A m \in DOMAIN s, n \in DOMAIN r : s[m] # r[n]
  BY DEF Range
<1>4. \A m, n \in 1 .. Len(s) + Len(r) : m - Len(s) = n - Len(s) => m = n
  BY <1>1, Shifted
<1>5. ASSUME NEW m \in 1 .. Len(s) + Len(r), NEW n \in 1 .. Len(s) + Len(r),
             (s \o r)[m] = (s \o r)[n]
      PROVE  m = n
  <2>1. CASE m \in DOMAIN s /\ (s \o r)[m] = s[m]
    <3>1. n \in DOMAIN s /\ (s \o r)[n] = s[n]
      BY <1>2, <1>3, <1>5, <2>1, Zenon
    <3> QED
      BY <1>5, <2>1, <3>1, Zenon DEF Once
  <2>2. CASE m - Len(s) \in DOMAIN r /\ (s \o r)[m] = r[m - Len(s)]
    <3>1. n - Len(s) \in DOMAIN r /\ (s \o r)[n] = r[n - Len(s)]
      BY <1>2, <1>3, <1>5, <2>2, Zenon
    <3>2. m - Len(s) = n - Len(s)
      BY <1>5, <2>2, <3>1, Zenon DEF Once
    <3> QED
      BY <1>4, <3>2, Zenon
  <2> QED
    BY <1>2, <2>1, <2>2, Zenon
<1> QED
  BY <1>1, <1>5, Zenon DEF Once

(* array_reverse repeats nothing.                                          *)
LEMMA OnceReverse ==
  ASSUME NEW S, NEW s \in Seq(S), Once(s)
  PROVE  Once(Reverse(s))
<1>1. /\ DOMAIN s = 1 .. Len(s) /\ Len(s) \in Nat
      /\ DOMAIN Reverse(s) = 1 .. Len(s)
  BY DEF Reverse
<1>2. \A n \in 1 .. Len(s) :
        Len(s) - n + 1 \in 1 .. Len(s) /\ Reverse(s)[n] = s[Len(s) - n + 1]
  BY <1>1 DEF Reverse
<1>3. \A m, n \in 1 .. Len(s) : Len(s) - m + 1 = Len(s) - n + 1 => m = n
  BY <1>1
<1> QED
  BY <1>1, <1>2, <1>3, Zenon DEF Once

(* array_pop takes the last test out of the list.                          *)
LEMMA OnceFrontLast ==
  ASSUME NEW S, NEW s \in Seq(S), s # <<>>, Once(s)
  PROVE  Once(Front(s)) /\ Last(s) \notin Range(Front(s))
<1>1. /\ Len(Front(s)) = Len(s) - 1 /\ Front(s) \in Seq(S)
      /\ \A n \in 1 .. Len(s) - 1 : Front(s)[n] = s[n]
      /\ Last(s) = s[Len(s)]
  BY FrontLastType
<1>2. DOMAIN s = 1 .. Len(s) /\ Len(s) \in Nat \ {0}
  BY EmptySeq
<1>3. DOMAIN Front(s) = 1 .. Len(s) - 1
  <2>1. DOMAIN Front(s) = 1 .. Len(Front(s))
    BY <1>1
  <2> QED
    BY <1>1, <2>1
<1>4. /\ \A n \in 1 .. Len(s) - 1 : n \in 1 .. Len(s) /\ n # Len(s)
      /\ Len(s) \in 1 .. Len(s)
  BY <1>2, Indices
<1>5. Once(Front(s))
  BY <1>1, <1>2, <1>3, <1>4, Zenon DEF Once
<1>6. \A n \in DOMAIN Front(s) : Front(s)[n] # Last(s)
  BY <1>1, <1>2, <1>3, <1>4, Zenon DEF Once
<1> QED
  BY <1>5, <1>6 DEF Range

(* The first test is not among the others.                                 *)
LEMMA OnceHeadTail ==
  ASSUME NEW S, NEW s \in Seq(S), s # <<>>, Once(s)
  PROVE  Once(Tail(s)) /\ Head(s) \notin Range(Tail(s))
<1>1. /\ Tail(s) \in Seq(S) /\ Len(Tail(s)) = Len(s) - 1
      /\ \A n \in 1 .. Len(s) - 1 : Tail(s)[n] = s[n + 1]
      /\ Head(s) = s[1]
  BY HeadType
<1>2. DOMAIN s = 1 .. Len(s) /\ Len(s) \in Nat \ {0}
  BY EmptySeq
<1>3. DOMAIN Tail(s) = 1 .. Len(s) - 1
  <2>1. DOMAIN Tail(s) = 1 .. Len(Tail(s))
    BY <1>1
  <2> QED
    BY <1>1, <2>1
<1>4. /\ \A n \in 1 .. Len(s) - 1 : n + 1 \in 1 .. Len(s) /\ n + 1 # 1
      /\ 1 \in 1 .. Len(s)
      /\ \A m, n \in 1 .. Len(s) - 1 : m + 1 = n + 1 => m = n
  BY <1>2, Indices
<1>5. Once(Tail(s))
  <2> SUFFICES ASSUME NEW m \in DOMAIN Tail(s), NEW n \in DOMAIN Tail(s),
                      Tail(s)[m] = Tail(s)[n]
               PROVE  m = n
    BY DEF Once
  <2>1. /\ m \in 1 .. Len(s) - 1 /\ m + 1 \in DOMAIN s
        /\ n \in 1 .. Len(s) - 1 /\ n + 1 \in DOMAIN s
        /\ s[m + 1] = s[n + 1]
    BY <1>1, <1>2, <1>3, <1>4
  <2>2. m + 1 = n + 1
    BY <2>1, Zenon DEF Once
  <2> QED
    BY <1>4, <2>1, <2>2
<1>6. \A n \in DOMAIN Tail(s) : Tail(s)[n] # Head(s)
  <2> SUFFICES ASSUME NEW n \in DOMAIN Tail(s), Tail(s)[n] = Head(s)
               PROVE  FALSE
    OBVIOUS
  <2>1. n + 1 \in DOMAIN s /\ n + 1 # 1 /\ 1 \in DOMAIN s /\ s[n + 1] = s[1]
    BY <1>1, <1>2, <1>3, <1>4
  <2> QED
    BY <2>1, Zenon DEF Once
<1> QED
  BY <1>5, <1>6 DEF Range

(* A family of lists stays without repetition when two of its lists (or    *)
(* one, given twice) share out their tests anew; it holds the same tests.  *)
LEMMA SharedOut ==
  ASSUME NEW q, NEW r, Apart(q), DOMAIN r = DOMAIN q,
         NEW a \in DOMAIN q, NEW b \in DOMAIN q,
         \A p \in DOMAIN q \ {a, b} : r[p] = q[p],
         Once(r[a]), Once(r[b]), a # b => Range(r[a]) \cap Range(r[b]) = {},
         Range(r[a]) \cup Range(r[b]) = Range(q[a]) \cup Range(q[b])
  PROVE  /\ Apart(r)
         /\ UNION {Range(r[p]) : p \in DOMAIN r} = UNION {Range(q[p]) : p \in DOMAIN q}
<1>1. \A p \in DOMAIN r : Once(r[p])
  BY DEF Apart
<1>2. ASSUME NEW p \in DOMAIN r, NEW o \in DOMAIN r, p # o
      PROVE  Range(r[p]) \cap Range(r[o]) = {}
  <2>1. CASE p \in {a, b} /\ o \in {a, b}
    BY <1>2, <2>1
  <2>2. CASE p \in {a, b} /\ o \notin {a, b}
    <3>1. /\ Range(r[p]) \subseteq Range(q[a]) \cup Range(q[b])
          /\ r[o] = q[o]
      BY <2>2
    <3> QED
      BY <2>2, <3>1 DEF Apart
  <2>3. CASE p \notin {a, b} /\ o \in {a, b}
    <3>1. /\ Range(r[o]) \subseteq Range(q[a]) \cup Range(q[b])
          /\ r[p] = q[p]
      BY <2>3
    <3> QED
      BY <2>3, <3>1 DEF Apart
  <2>4. CASE p \notin {a, b} /\ o \notin {a, b}
    BY <1>2, <2>4 DEF Apart
  <2> QED
    BY <2>1, <2>2, <2>3, <2>4
<1>3. ASSUME NEW p \in DOMAIN q
      PROVE  /\ \A x \in Range(q[p]) : \E o \in DOMAIN q : x \in Range(r[o])
             /\ \A x \in Range(r[p]) : \E o \in DOMAIN q : x \in Range(q[o])
  <2>1. CASE p \in {a, b}
    BY <2>1
  <2>2. CASE p \notin {a, b}
    BY <2>2
  <2> QED
    BY <2>1, <2>2
<1> QED
  BY <1>1, <1>2, <1>3 DEF Apart

-------------------------------------------------------------------------------
(* The queues as a family, and the steps that move tests between them.     *)

(* The lists of the family, and the pool they hold.                        *)
LEMMA QueueValues ==
  /\ DOMAIN Queue = Place
  /\ Queue[<<"unread", All>>] = unread
  /\ Queue[<<"test_files", All>>] = test_files
  /\ Queue[<<"sequential", All>>] = sequentialTests
  /\ Queue[<<"files", All>>] = IF pc = "batch" THEN files ELSE <<>>
  /\ \A k \in Key : Queue[<<"waiting", k>>] = waitingTests[k]
  /\ \A p \in Place : \/ p \in {<<"unread", All>>, <<"test_files", All>>,
                               <<"sequential", All>>, <<"files", All>>}
                       \/ \E k \in Key : p = <<"waiting", k>>
                       \/ Queue[p] = <<>>
<1>1. All \in Key
  BY TestsAssumption
<1>2. ASSUME NEW p \in Place
      PROVE  \/ p \in {<<"unread", All>>, <<"test_files", All>>,
                       <<"sequential", All>>, <<"files", All>>}
             \/ \E k \in Key : p = <<"waiting", k>>
             \/ Queue[p] = <<>>
  <2>1. PICK kind \in {"unread", "test_files", "sequential", "waiting", "files"},
             k \in Key : p = <<kind, k>>
    BY DEF Place
  <2> QED
    BY <2>1 DEF Queue, Place
<1> QED
  BY <1>1, <1>2 DEF Queue, Place

(* The pool is what the queues hold.                                       *)
LEMMA QueuePending == Pending = UNION {Range(Queue[p]) : p \in DOMAIN Queue}
<1>1. All \in Key /\ Range(<<>>) = {}
  BY TestsAssumption DEF Range
<1>2. /\ <<"unread", All>> \in Place /\ <<"test_files", All>> \in Place
      /\ <<"sequential", All>> \in Place /\ <<"files", All>> \in Place
      /\ \A k \in Key : <<"waiting", k>> \in Place
  BY <1>1 DEF Place
<1>3. ASSUME NEW t \in Pending
      PROVE  \E p \in Place : t \in Range(Queue[p])
  BY <1>2, QueueValues DEF Pending
<1>4. ASSUME NEW p \in Place, NEW t \in Range(Queue[p])
      PROVE  t \in Pending
  BY <1>1, QueueValues DEF Pending
<1> QED
  BY <1>3, <1>4, QueueValues

(* A step that shares out the tests of two queues anew keeps the pool.     *)
LEMMA QueuesShare ==
  ASSUME KeptOnce, NEW a \in Place, NEW b \in Place,
         \A p \in Place \ {a, b} : Queue'[p] = Queue[p],
         Once(Queue'[a]), Once(Queue'[b]),
         a # b => Range(Queue'[a]) \cap Range(Queue'[b]) = {},
         Range(Queue'[a]) \cup Range(Queue'[b]) = Range(Queue[a]) \cup Range(Queue[b])
  PROVE  KeptOnce' /\ Pending' = Pending
<1>1. DOMAIN Queue = Place /\ DOMAIN Queue' = Place
  BY DEF Queue
<1>2. /\ Apart(Queue')
      /\ UNION {Range(Queue'[p]) : p \in DOMAIN Queue'}
           = UNION {Range(Queue[p]) : p \in DOMAIN Queue}
  BY <1>1, SharedOut DEF KeptOnce
<1>3. (Pending = UNION {Range(Queue[p]) : p \in DOMAIN Queue})'
  BY QueuePending, PTL
<1> QED
  BY <1>2, <1>3, QueuePending DEF KeptOnce

(* The lists after a step.                                                 *)
LEMMA QueueValuesNext ==
  /\ Queue'[<<"unread", All>>] = unread'
  /\ Queue'[<<"test_files", All>>] = test_files'
  /\ Queue'[<<"sequential", All>>] = sequentialTests'
  /\ Queue'[<<"files", All>>] = IF pc' = "batch" THEN files' ELSE <<>>
  /\ \A k \in Key : Queue'[<<"waiting", k>>] = waitingTests'[k]
BY TestsAssumption DEF Queue, Place

(* A list that no step has touched is what it was.                         *)
LEMMA OthersKept ==
  ASSUME NEW a, NEW b,
         <<"unread", All>> \in {a, b} \/ UNCHANGED unread,
         <<"test_files", All>> \in {a, b} \/ UNCHANGED test_files,
         <<"sequential", All>> \in {a, b} \/ UNCHANGED sequentialTests,
         \/ <<"files", All>> \in {a, b}
         \/ UNCHANGED <<pc, files>>
         \/ (pc # "batch" \/ files = <<>>) /\ (pc' # "batch" \/ files' = <<>>),
         \A k \in Key : <<"waiting", k>> \in {a, b} \/ waitingTests'[k] = waitingTests[k]
  PROVE  \A p \in Place \ {a, b} : Queue'[p] = Queue[p]
<1> SUFFICES ASSUME NEW p \in Place, p \notin {a, b} PROVE Queue'[p] = Queue[p]
  OBVIOUS
<1>1. PICK kind \in {"unread", "test_files", "sequential", "waiting", "files"},
           k \in Key : p = <<kind, k>>
  BY DEF Place
<1>2. Queue[p] = IF kind = "waiting" THEN waitingTests[k]
                 ELSE IF k # All THEN <<>>
                 ELSE IF kind = "unread" THEN unread
                 ELSE IF kind = "test_files" THEN test_files
                 ELSE IF kind = "sequential" THEN sequentialTests
                 ELSE IF pc = "batch" THEN files ELSE <<>>
  BY <1>1 DEF Queue
<1>3. Queue'[p] = IF kind = "waiting" THEN waitingTests'[k]
                  ELSE IF k # All THEN <<>>
                  ELSE IF kind = "unread" THEN unread'
                  ELSE IF kind = "test_files" THEN test_files'
                  ELSE IF kind = "sequential" THEN sequentialTests'
                  ELSE IF pc' = "batch" THEN files' ELSE <<>>
  BY <1>1 DEF Queue
<1> QED
  BY <1>1, <1>2, <1>3

(* The steps that move tests keep them once each, and the pool with them.  *)
LEMMA QueuesMove ==
  ASSUME TypeOK, KeptOnce,
         \/ ReadConflicts \/ OrderTests \/ (\E k \in Key : Release(k))
         \/ ReadReady \/ FallThrough \/ PopFree \/ PopBlocked
  PROVE  KeptOnce' /\ Pending' = Pending
<1> DEFINE U == <<"unread", All>>
           F == <<"test_files", All>>
           S == <<"sequential", All>>
           B == <<"files", All>>
           W(k) == <<"waiting", k>>
<1>1. /\ U \in Place /\ F \in Place /\ S \in Place /\ B \in Place
      /\ \A k \in Key : W(k) \in Place
  BY TestsAssumption DEF Place
<1>2. /\ \A p \in Place : Once(Queue[p])
      /\ \A p, r \in Place : p # r => Range(Queue[p]) \cap Range(Queue[r]) = {}
  BY QueueValues DEF KeptOnce, Apart
<1>3. /\ unread \in Seq(Test) /\ test_files \in Seq(Test)
      /\ sequentialTests \in Seq(Test) /\ files \in Seq(Test)
      /\ \A k \in Key : waitingTests[k] \in Seq(Test)
  BY DEF TypeOK
<1>4. /\ Once(unread) /\ Once(test_files) /\ Once(sequentialTests)
      /\ \A k \in Key : Once(waitingTests[k])
      /\ pc = "batch" => Once(files) /\ Range(test_files) \cap Range(files) = {}
      /\ Range(unread) \cap Range(test_files) = {}
      /\ Range(unread) \cap Range(sequentialTests) = {}
      /\ Range(sequentialTests) \cap Range(test_files) = {}
      /\ \A k \in Key : Range(waitingTests[k]) \cap Range(test_files) = {}
  BY <1>1, <1>2, QueueValues
<1>5. CASE ReadConflicts
  <2>1. /\ unread # <<>> /\ unread' = Tail(unread) /\ pc # "batch" /\ pc' # "batch"
        /\ UNCHANGED waitingTests
    BY <1>5 DEF ReadConflicts
  <2>2. /\ Range(unread) = {Head(unread)} \cup Range(unread') /\ Head(unread) \in Test
        /\ Once(unread') /\ Head(unread) \notin Range(unread')
    BY <1>3, <1>4, <2>1, RangeHeadTail, OnceHeadTail, HeadType
  <2>3. CASE Sequential(Head(unread))
    <3>1. sequentialTests' = Append(sequentialTests, Head(unread)) /\ UNCHANGED test_files
      BY <1>5, <2>3 DEF ReadConflicts
    <3>2. /\ Range(sequentialTests') = Range(sequentialTests) \cup {Head(unread)}
          /\ Once(sequentialTests')
      BY <1>3, <1>4, <2>2, <3>1, RangeAppend, OnceAppend
    <3>3. \A p \in Place \ {U, S} : Queue'[p] = Queue[p]
      BY <2>1, <3>1, OthersKept
    <3>4. /\ Range(unread') \cap Range(sequentialTests') = {}
          /\ Range(unread') \cup Range(sequentialTests')
               = Range(unread) \cup Range(sequentialTests)
      BY <1>4, <2>2, <3>2
    <3> QED
      BY <1>1, <2>2, <3>2, <3>3, <3>4, QueueValues, QueueValuesNext, QueuesShare
  <2>4. CASE ~Sequential(Head(unread))
    <3>1. test_files' = Append(test_files, Head(unread)) /\ UNCHANGED sequentialTests
      BY <1>5, <2>4 DEF ReadConflicts
    <3>2. /\ Range(test_files') = Range(test_files) \cup {Head(unread)}
          /\ Once(test_files')
      BY <1>3, <1>4, <2>2, <3>1, RangeAppend, OnceAppend
    <3>3. \A p \in Place \ {U, F} : Queue'[p] = Queue[p]
      BY <2>1, <3>1, OthersKept
    <3>4. /\ Range(unread') \cap Range(test_files') = {}
          /\ Range(unread') \cup Range(test_files') = Range(unread) \cup Range(test_files)
      BY <1>4, <2>2, <3>2
    <3> QED
      BY <1>1, <2>2, <3>2, <3>3, <3>4, QueueValues, QueueValuesNext, QueuesShare
  <2> QED
    BY <2>3, <2>4
<1>6. CASE OrderTests
  <2>1. Range(test_files') = Range(test_files) /\ Once(test_files')
    <3>1. CASE ~Shuffle
      BY <1>3, <1>4, <1>6, <3>1, RangeReverse, OnceReverse DEF OrderTests
    <3>2. CASE Shuffle
      <4>1. PICK p \in [DOMAIN test_files -> DOMAIN test_files] :
              /\ \A m, n \in DOMAIN test_files : p[m] = p[n] => m = n
              /\ test_files' = [n \in DOMAIN test_files |-> test_files[p[n]]]
        BY <1>6, <3>2, Zenon DEF OrderTests
      <4>2. Once(test_files')
        BY <1>4, <4>1 DEF Once
      <4> QED
        BY <1>3, <4>1, <4>2, RangePermuted
    <3> QED
      BY <3>1, <3>2
  <2>2. \A p \in Place \ {F, F} : Queue'[p] = Queue[p]
    BY <1>6, OthersKept DEF OrderTests
  <2> QED
    BY <1>1, <2>1, <2>2, QueueValues, QueueValuesNext, QueuesShare
<1>7. CASE \E k \in Key : Release(k)
  <2>1. PICK k \in Key : Release(k)
    BY <1>7
  <2>2. /\ test_files' = test_files \o Reverse(waitingTests[k])
        /\ waitingTests' = [waitingTests EXCEPT ![k] = <<>>]
        /\ UNCHANGED <<pc, unread, sequentialTests, files>>
    BY <2>1 DEF Release, PopAll
  <2>3. /\ Reverse(waitingTests[k]) \in Seq(Test)
        /\ Range(Reverse(waitingTests[k])) = Range(waitingTests[k])
        /\ Once(Reverse(waitingTests[k]))
    BY <1>3, <1>4, ReverseType, RangeReverse, OnceReverse
  <2>4. /\ Range(test_files') = Range(test_files) \cup Range(waitingTests[k])
        /\ Once(test_files')
    <3>1. Range(test_files) \cap Range(Reverse(waitingTests[k])) = {}
      BY <1>4, <2>3
    <3> QED
      BY <1>3, <1>4, <2>2, <2>3, <3>1, RangeConcat, OnceConcat
  <2>5. /\ waitingTests'[k] = <<>> /\ Range(waitingTests'[k]) = {} /\ Once(waitingTests'[k])
        /\ \A j \in Key : j # k => waitingTests'[j] = waitingTests[j]
    BY <2>2 DEF TypeOK, Range, Once
  <2>6. \A p \in Place \ {W(k), F} : Queue'[p] = Queue[p]
    BY <2>2, <2>5, OthersKept
  <2> QED
    BY <1>1, <2>4, <2>5, <2>6, QueueValues, QueueValuesNext, QueuesShare, ZenonT(30)
<1>8. CASE ReadReady \/ FallThrough
  <2>1. StartBatch /\ pc # "batch" /\ pc' = "batch" /\ files' = <<>>
    BY <1>8 DEF ReadReady, FallThrough, Reading, StartBatch
  <2>2. UNCHANGED <<unread, waitingTests>>
    BY <2>1 DEF StartBatch
  <2>3. /\ Range(test_files') \cup Range(sequentialTests')
             = Range(test_files) \cup Range(sequentialTests)
        /\ Range(test_files') \cap Range(sequentialTests') = {}
        /\ Once(test_files') /\ Once(sequentialTests')
    <3>1. CASE OneWorkerLeft
      <4>1. test_files' = test_files \o sequentialTests /\ sequentialTests' = <<>>
        BY <2>1, <3>1 DEF StartBatch
      <4>2. Range(<<>>) = {} /\ Once(<<>>)
        BY DEF Range, Once
      <4>3. /\ Range(test_files \o sequentialTests)
                 = Range(test_files) \cup Range(sequentialTests)
            /\ Once(test_files \o sequentialTests)
        BY <1>3, <1>4, RangeConcat, OnceConcat
      <4> QED
        BY <4>1, <4>2, <4>3
    <3>2. CASE ~OneWorkerLeft
      BY <1>4, <2>1, <3>2 DEF StartBatch
    <3> QED
      BY <3>1, <3>2
  <2>4. \A p \in Place \ {S, F} : Queue'[p] = Queue[p]
    BY <2>1, <2>2, OthersKept
  <2> QED
    BY <1>1, <2>3, <2>4, QueueValues, QueueValuesNext, QueuesShare
<1>9. CASE PopFree
  <2>1. /\ test_files # <<>> /\ pc = "batch"
        /\ test_files' = Front(test_files) /\ files' = Append(files, Last(test_files))
        /\ UNCHANGED <<pc, unread, sequentialTests, waitingTests>>
    BY <1>9 DEF PopFree, MorePops
  <2>2. /\ Range(test_files) = Range(test_files') \cup {Last(test_files)}
        /\ Last(test_files) \in Test
        /\ Once(test_files') /\ Last(test_files) \notin Range(test_files')
    BY <1>3, <1>4, <2>1, RangeFrontLast, OnceFrontLast, FrontLastType
  <2>3. /\ Range(files') = Range(files) \cup {Last(test_files)}
        /\ Once(files')
    BY <1>3, <1>4, <2>1, <2>2, RangeAppend, OnceAppend
  <2>4. \A p \in Place \ {F, B} : Queue'[p] = Queue[p]
    BY <2>1, OthersKept
  <2>5. /\ Range(test_files') \cap Range(files') = {}
        /\ Range(test_files') \cup Range(files') = Range(test_files) \cup Range(files)
    BY <1>4, <2>1, <2>2, <2>3
  <2>6. /\ Queue[F] = test_files /\ Queue'[F] = test_files'
        /\ Queue[B] = files /\ Queue'[B] = files'
    BY <2>1, QueueValues, QueueValuesNext
  <2> HIDE DEF F, B
  <2> QED
    BY <1>1, <2>2, <2>3, <2>4, <2>5, <2>6, QueuesShare
<1>10. CASE PopBlocked
  <2>1. /\ test_files # <<>> /\ test_files' = Front(test_files)
        /\ UNCHANGED <<pc, unread, sequentialTests, files>>
    BY <1>10 DEF PopBlocked, MorePops
  <2>2. /\ Range(test_files) = Range(test_files') \cup {Last(test_files)}
        /\ Last(test_files) \in Test
        /\ Once(test_files') /\ Last(test_files) \notin Range(test_files')
    BY <1>3, <1>4, <2>1, RangeFrontLast, OnceFrontLast, FrontLastType
  <2>3. PICK k \in Key :
          waitingTests' = [waitingTests EXCEPT ![k] = Append(@, Last(test_files))]
    <3>1. PICK n \in InUse(Last(test_files)) :
            waitingTests' = [waitingTests EXCEPT ![fileConflictsWith[Last(test_files)][n]]
                               = Append(@, Last(test_files))]
      BY <1>10 DEF PopBlocked
    <3>2. fileConflictsWith[Last(test_files)][n] \in Key
      BY <2>2, TestsAssumption DEF InUse
    <3> QED
      BY <3>1, <3>2
  <2>4. /\ waitingTests'[k] = Append(waitingTests[k], Last(test_files))
        /\ \A j \in Key : j # k => waitingTests'[j] = waitingTests[j]
    BY <2>3 DEF TypeOK
  <2>5. /\ Range(waitingTests'[k]) = Range(waitingTests[k]) \cup {Last(test_files)}
        /\ Once(waitingTests'[k])
    BY <1>3, <1>4, <2>2, <2>4, RangeAppend, OnceAppend
  <2>6. \A p \in Place \ {F, W(k)} : Queue'[p] = Queue[p]
    BY <2>1, <2>4, OthersKept
  <2>7. /\ Range(test_files') \cap Range(waitingTests'[k]) = {}
        /\ Range(test_files') \cup Range(waitingTests'[k])
             = Range(test_files) \cup Range(waitingTests[k])
    BY <1>4, <2>2, <2>5
  <2> QED
    BY <1>1, <2>2, <2>5, <2>6, <2>7, QueueValues, QueueValuesNext, QueuesShare, ZenonT(30)
<1> QED
  BY <1>5, <1>6, <1>7, <1>8, <1>9, <1>10

(* Handing out a batch takes its tests, and only them, out of the pool.    *)
LEMMA DispatchTakes ==
  ASSUME TypeOK, KeptOnce, Dispatch
  PROVE  KeptOnce' /\ Pending' = Pending \ Range(files) /\ Range(files) \subseteq Pending
<1> DEFINE B == <<"files", All>>
<1>1. /\ B \in Place /\ pc = "batch" /\ pc' # "batch"
      /\ UNCHANGED <<unread, test_files, sequentialTests, waitingTests>>
  BY TestsAssumption DEF Dispatch, Place
<1>2. /\ Queue[B] = files /\ Queue'[B] = <<>>
      /\ \A p \in Place \ {B} : Queue'[p] = Queue[p]
      /\ DOMAIN Queue = Place /\ DOMAIN Queue' = Place
  <2>1. \A p \in Place \ {B, B} : Queue'[p] = Queue[p]
    BY <1>1, OthersKept
  <2> QED
    BY <1>1, <2>1, QueueValues, QueueValuesNext DEF Queue
<1>3. Range(<<>>) = {} /\ Once(<<>>)
  BY DEF Range, Once
<1>4. KeptOnce'
  <2>1. \A p \in Place : Once(Queue'[p])
    BY <1>2, <1>3 DEF KeptOnce, Apart
  <2>2. \A p, r \in Place : p # r => Range(Queue'[p]) \cap Range(Queue'[r]) = {}
    BY <1>2, <1>3 DEF KeptOnce, Apart
  <2> QED
    BY <1>2, <2>1, <2>2 DEF KeptOnce, Apart
<1>5. (Pending = UNION {Range(Queue[p]) : p \in DOMAIN Queue})'
  BY QueuePending, PTL
<1>6. \A p \in Place \ {B} : Range(Queue[p]) \cap Range(files) = {}
  BY <1>1, <1>2 DEF KeptOnce, Apart
<1>7. UNION {Range(Queue'[p]) : p \in Place}
        = (UNION {Range(Queue[p]) : p \in Place}) \ Range(files)
  <2>1. ASSUME NEW p \in Place, NEW t \in Range(Queue'[p])
        PROVE  (\E o \in Place : t \in Range(Queue[o])) /\ t \notin Range(files)
    BY <1>2, <1>3, <1>6, <2>1
  <2>2. ASSUME NEW p \in Place, NEW t \in Range(Queue[p]), t \notin Range(files)
        PROVE  \E o \in Place : t \in Range(Queue'[o])
    BY <1>2, <2>2
  <2> QED
    BY <2>1, <2>2
<1>8. Range(files) \subseteq UNION {Range(Queue[p]) : p \in Place}
  BY <1>1, <1>2
<1> QED
  BY <1>2, <1>4, <1>5, <1>7, <1>8, QueuePending

(* All other steps leave the queues alone.                                 *)
LEMMA QueuesAlone ==
  ASSUME KeptOnce, [Next]_vars, ~Dispatch, ~ReadConflicts, ~OrderTests,
         ~(\E k \in Key : Release(k)), ~ReadReady, ~FallThrough, ~PopFree, ~PopBlocked
  PROVE  KeptOnce' /\ Pending' = Pending
<1>1. /\ UNCHANGED <<unread, test_files, sequentialTests, waitingTests>>
      /\ \/ UNCHANGED <<pc, files>>
         \/ (pc # "batch" \/ files = <<>>) /\ pc' # "batch"
  <2>1. CASE ~Parent
    BY <2>1, WorkerFrame
  <2>2. CASE Parent
    BY <2>2 DEF Parent, Spawn, SpawnFails, Accept, AcceptFails, ReadReply, ReplyFails,
       Select, TakeSocket, Drained, ReadResult, ReadPhpError, ReadFinished, Retire, Finish,
       Abort, Reading
  <2> QED
    BY <2>1, <2>2
<1>2. <<"unread", All>> \in Place
  BY TestsAssumption DEF Place
<1>3. Queue' = Queue
  <2>1. \A p \in Place \ {<<"unread", All>>, <<"unread", All>>} : Queue'[p] = Queue[p]
    BY <1>1, OthersKept
  <2>2. Queue'[<<"unread", All>>] = Queue[<<"unread", All>>]
    BY <1>1, QueueValues, QueueValuesNext
  <2> QED
    BY <2>1, <2>2 DEF Queue
<1>4. (Pending = UNION {Range(Queue[p]) : p \in DOMAIN Queue})'
  BY QueuePending, PTL
<1> QED
  BY <1>3, <1>4, QueuePending DEF KeptOnce

-------------------------------------------------------------------------------
(* The refinement.                                                         *)

(* The pool is full at first, and no test is in it twice.                  *)
LEMMA PoolInit == Init => KeptOnce /\ TestPool!Init
<1> SUFFICES ASSUME Init PROVE KeptOnce /\ TestPool!Init
  OBVIOUS
<1>1. Range(<<>>) = {} /\ Once(<<>>) /\ Once(TestList)
  BY TestsAssumption DEF Range, Once
<1>2. \A p \in Place \ {<<"unread", All>>} : Queue[p] = <<>>
  BY QueueValues DEF Init
<1>3. KeptOnce
  <2>1. Queue[<<"unread", All>>] = TestList
    BY QueueValues DEF Init
  <2>2. \A p \in Place : Once(Queue[p])
    BY <1>1, <1>2, <2>1
  <2>3. \A p, r \in Place : p # r => Range(Queue[p]) \cap Range(Queue[r]) = {}
    BY <1>1, <1>2
  <2> QED
    BY <2>2, <2>3, QueueValues DEF KeptOnce, Apart
<1>4. Pending = Tests
  BY <1>1 DEF Init, Pending, Tests
<1>5. leased = [w \in Worker |-> {}] /\ Status = "running"
  BY DEF Init, Status, ParentOver
<1> QED
  BY <1>3, <1>4, <1>5 DEF TestPool!Init

(* While the run is not over the pool is running, and stays so until the   *)
(* parent is done or has failed.                                           *)
LEMMA StatusStep ==
  ASSUME TypeOK, [Next]_vars
  PROVE  \/ Status' = Status
         \/ Finish /\ Status = "running" /\ Status' = "done"
         \/ Status = "running" /\ Status' = "failed" /\ UNCHANGED leased
<1>1. CASE ~Parent
  BY <1>1, WorkerFrame DEF Status, ParentOver
<1>2. CASE Parent
  <2>1. pc \notin {"done", "failed"}
    BY <1>2 DEF Parent, ReadConflicts, OrderTests, Spawn, SpawnFails, Accept, AcceptFails,
       ReadReply, ReplyFails, Select, TakeSocket, Drained, ReadResult, ReadPhpError,
       ReadFinished, Release, ReadReady, FallThrough, StartBatch, PopFree, PopBlocked,
       Dispatch, Retire, Finish, Reading
  <2>2. \/ pc' \notin {"done", "failed"}
        \/ Finish /\ pc' = "done"
        \/ pc' = "failed" /\ UNCHANGED leased
    BY <1>2, <2>1 DEF Parent, ReadConflicts, OrderTests, Spawn, SpawnFails, Accept, AcceptFails,
       ReadReply, ReplyFails, Select, TakeSocket, Drained, ReadResult, ReadPhpError,
       ReadFinished, Release, ReadReady, FallThrough, StartBatch, PopFree, PopBlocked,
       Dispatch, Retire, Finish, Abort
  <2> QED
    BY <2>1, <2>2 DEF Status, ParentOver
<1> QED
  BY <1>1, <1>2

(* Every step of the scheduler is a step of the pool, or leaves it alone.  *)
LEMMA PoolStep ==
  ASSUME RunInv, RunInv', KeptOnce, [Next]_vars
  PROVE  KeptOnce' /\ [TestPool!Next]_(TestPool!vars)
<1> USE DEF RunInv, IndInv
<1>1. CASE Dispatch
  <2>1. /\ reading \in Worker /\ Status = "running" /\ Status' = Status
        /\ leased' = [leased EXCEPT ![reading] = Range(files)] /\ files # <<>>
        /\ leased[reading] = {} /\ leased'[reading] = Range(files)
        /\ files \in Seq(Test)
    BY <1>1 DEF Dispatch, TypeOK, Status, ParentOver, ProtocolInv, ReadingHoldsNone
  <2>2. Range(files) # {}
    BY <2>1, EmptySeq DEF Range
  <2>3. /\ KeptOnce' /\ Pending' = Pending \ Range(files)
        /\ Range(files) \in SUBSET Pending
    BY <1>1, DispatchTakes
  <2>4. \A v \in Worker \ {reading} : \A t \in Range(files), u \in leased[v] : ~Conflict(t, u)
    <3>1. Exclusive'
      BY IndInvExclusive, PTL
    <3>2. \A v \in Worker \ {reading} : leased'[v] = leased[v]
      BY <2>1 DEF TypeOK
    <3> QED
      BY <2>1, <3>1, <3>2 DEF Exclusive
  <2>5. TestPool!Lease(reading, Range(files))
    BY <2>1, <2>2, <2>3, <2>4 DEF TestPool!Lease
  <2> QED
    BY <2>1, <2>3, <2>5 DEF TestPool!Next
<1>2. CASE ~Dispatch
  <2>1. KeptOnce' /\ Pending' = Pending
    BY <1>2, QueuesMove, QueuesAlone
  <2>2. CASE ReadFinished
    <3>1. /\ reading \in Worker /\ toParent[reading] # <<>>
          /\ Head(toParent[reading]).type = "tests_finished"
          /\ Status = "running" /\ Status' = Status
          /\ leased' = [leased EXCEPT ![reading] = {}]
      BY <2>2 DEF ReadFinished, Reading, TypeOK, Status, ParentOver
    <3>2. leased[reading] # {}
      <4>1. Sent(reading, "tests_finished")
        BY <3>1, SentTail, SMTT(30) DEF Sent, TypeOK
      <4> QED
        BY <3>1, <4>1 DEF WorkInv, BatchInOnePlace, InOnePlace
    <3>3. TestPool!HandBack(reading)
      BY <2>1, <3>1, <3>2 DEF TestPool!HandBack
    <3> QED
      BY <2>1, <3>1, <3>3 DEF TestPool!Next
  <2>3. CASE ~ReadFinished
    <3>1. UNCHANGED leased
      <4>1. CASE Parent
        BY <1>2, <2>3, <4>1, LeaseFrame
      <4>2. CASE ~Parent
        BY <4>2, WorkerFrame
      <4> QED
        BY <4>1, <4>2
    <3>2. CASE Status' = Status
      BY <2>1, <3>1, <3>2 DEF TestPool!vars
    <3>3. CASE Finish /\ Status = "running" /\ Status' = "done"
      <4>1. pc' = "done"
        BY <3>3 DEF Status, ParentOver
      <4>2. Pending' = {} /\ \A w \in Worker : leased'[w] = {}
        BY <4>1, DoneStep DEF NothingLeft
      <4>3. TestPool!Finish
        BY <2>1, <3>1, <3>3, <4>2 DEF TestPool!Finish
      <4> QED
        BY <2>1, <4>3 DEF TestPool!Next
    <3>4. CASE Status = "running" /\ Status' = "failed"
      <4>1. TestPool!Fail
        BY <2>1, <3>1, <3>4 DEF TestPool!Fail
      <4> QED
        BY <2>1, <4>1 DEF TestPool!Next
    <3> QED
      BY <3>2, <3>3, <3>4, StatusStep
  <2> QED
    BY <2>2, <2>3
<1> QED
  BY <1>1, <1>2

(* A parallel run is a run of the pool: tests are leased in batches to     *)
(* workers that hold none, never two that conflict to two workers, every   *)
(* test once, and it ends well only with every test leased and returned.   *)
THEOREM ImplementsPool == Spec => ImplementsTestPool
<1>1. Init => KeptOnce /\ TestPool!Init
  BY PoolInit
<1>2. RunInv /\ RunInv' /\ KeptOnce /\ [Next]_vars
        => KeptOnce' /\ [TestPool!Next]_(TestPool!vars)
  BY PoolStep
<1> QED
  BY <1>1, <1>2, WorkInductive, PTL DEF Spec, ImplementsTestPool, TestPool!Spec

-------------------------------------------------------------------------------
(* Names on their way from the list to their results.                      *)

(* A name that moves from one place to another is in one place still.      *)
LEMMA NamesMove ==
  ASSUME NEW f, NEW g, Disjoint(f), DOMAIN g = DOMAIN f,
         NEW a \in DOMAIN f, NEW b \in DOMAIN f, a # b, NEW X, X \subseteq f[a],
         g[a] \subseteq f[a] \ X, g[b] \subseteq f[b] \cup X,
         \A p \in DOMAIN f \ {a, b} : g[p] \subseteq f[p]
  PROVE  Disjoint(g)
<1> SUFFICES ASSUME NEW p \in DOMAIN f, NEW r \in DOMAIN f, p # r
             PROVE  g[p] \cap g[r] = {}
  BY DEF Disjoint
<1>1. f[p] \cap f[r] = {} /\ f[a] \cap f[p] \subseteq (IF p = a THEN f[a] ELSE {})
      /\ f[a] \cap f[r] \subseteq (IF r = a THEN f[a] ELSE {})
  BY DEF Disjoint
<1>2. g[p] \subseteq (IF p = a THEN f[a] \ X ELSE IF p = b THEN f[b] \cup X ELSE f[p])
  OBVIOUS
<1>3. g[r] \subseteq (IF r = a THEN f[a] \ X ELSE IF r = b THEN f[b] \cup X ELSE f[r])
  OBVIOUS
<1> QED
  BY <1>1, <1>2, <1>3

(* A name that is forgotten is in no two places.                           *)
LEMMA NamesLess ==
  ASSUME NEW f, NEW g, Disjoint(f), DOMAIN g = DOMAIN f, \A p \in DOMAIN f : g[p] \subseteq f[p]
  PROVE  Disjoint(g)
BY DEF Disjoint

(* The places of names.                                                    *)
LEMMA NameValues ==
  /\ DOMAIN NamesAt = NamePlace
  /\ <<"pending", 0>> \in NamePlace /\ <<"done", 0>> \in NamePlace
  /\ \A w \in Worker : <<"held", w>> \in NamePlace /\ <<"sent", w>> \in NamePlace
  /\ NamesAt[<<"pending", 0>>] = UNION {Reports(t) : t \in Pending}
  /\ NamesAt[<<"done", 0>>] = test_results
  /\ \A w \in Worker : NamesAt[<<"held", w>>] = HeldNames(w) /\ NamesAt[<<"sent", w>>] = SentNames(w)
  /\ \A p \in NamePlace : \/ p \in {<<"pending", 0>>, <<"done", 0>>}
                          \/ \E w \in Worker : p \in {<<"held", w>>, <<"sent", w>>}
<1>1. ASSUME NEW p \in NamePlace
      PROVE  \/ p \in {<<"pending", 0>>, <<"done", 0>>}
             \/ \E w \in Worker : p \in {<<"held", w>>, <<"sent", w>>}
  <2>1. CASE p \in {"pending", "done"} \X {0}
    BY <2>1
  <2>2. CASE p \in {"held", "sent"} \X Worker
    <3>1. PICK kind \in {"held", "sent"}, w \in Worker : p = <<kind, w>>
      BY <2>2
    <3> QED
      BY <3>1
  <2> QED
    BY <2>1, <2>2 DEF NamePlace
<1>2. /\ <<"pending", 0>> \in NamePlace /\ <<"done", 0>> \in NamePlace
      /\ \A w \in Worker : <<"held", w>> \in NamePlace /\ <<"sent", w>> \in NamePlace
  BY DEF NamePlace
<1>3. \A w \in Worker : NamesAt[<<"held", w>>] = HeldNames(w) /\ NamesAt[<<"sent", w>>] = SentNames(w)
  BY <1>2 DEF NamesAt
<1>4. /\ NamesAt[<<"pending", 0>>] = UNION {Reports(t) : t \in Pending}
      /\ NamesAt[<<"done", 0>>] = test_results /\ DOMAIN NamesAt = NamePlace
  BY <1>2 DEF NamesAt
<1> QED
  BY <1>1, <1>2, <1>3, <1>4

LEMMA NameValuesNext ==
  /\ DOMAIN NamesAt' = NamePlace
  /\ NamesAt'[<<"pending", 0>>] = (UNION {Reports(t) : t \in Pending})'
  /\ NamesAt'[<<"done", 0>>] = test_results'
  /\ \A w \in Worker : NamesAt'[<<"held", w>>] = HeldNames(w)' /\ NamesAt'[<<"sent", w>>] = SentNames(w)'
<1>1. (/\ DOMAIN NamesAt = NamePlace
       /\ NamesAt[<<"pending", 0>>] = UNION {Reports(t) : t \in Pending}
       /\ NamesAt[<<"done", 0>>] = test_results
       /\ \A w \in Worker : NamesAt[<<"held", w>>] = HeldNames(w)
                            /\ NamesAt[<<"sent", w>>] = SentNames(w))'
  BY NameValues, PTL
<1> QED
  BY <1>1

(* A step that adds no name anywhere.                                      *)
LEMMA NamesStay ==
  ASSUME Disjoint(NamesAt), Pending' \subseteq Pending, test_results' \subseteq test_results,
         \A w \in Worker : HeldNames(w)' \subseteq HeldNames(w) /\ SentNames(w)' \subseteq SentNames(w)
  PROVE  Disjoint(NamesAt)'
<1> DEFINE g == NamesAt'
<1>1. DOMAIN g = DOMAIN NamesAt /\ DOMAIN NamesAt = NamePlace
  BY NameValues, NameValuesNext
<1>2. (UNION {Reports(t) : t \in Pending})' \subseteq UNION {Reports(t) : t \in Pending}
  BY DEF Reports
<1>3. ASSUME NEW p \in NamePlace PROVE g[p] \subseteq NamesAt[p]
  <2>1. CASE p \in {<<"pending", 0>>, <<"done", 0>>}
    BY <1>2, <2>1, NameValues, NameValuesNext
  <2>2. ASSUME NEW w \in Worker, p \in {<<"held", w>>, <<"sent", w>>}
        PROVE  g[p] \subseteq NamesAt[p]
    <3>1. g[<<"held", w>>] = HeldNames(w)' /\ g[<<"sent", w>>] = SentNames(w)'
      BY NameValuesNext
    <3>2. NamesAt[<<"held", w>>] = HeldNames(w) /\ NamesAt[<<"sent", w>>] = SentNames(w)
      BY NameValues
    <3> QED
      BY <2>2, <3>1, <3>2
  <2> QED
    BY <2>1, <2>2, NameValues
<1> HIDE DEF g
<1>4. Disjoint(g)
  BY <1>1, <1>3, NamesLess
<1> QED
  BY <1>4 DEF g, Disjoint

(* A step that takes names from one place to another.                      *)
LEMMA NamesGo ==
  ASSUME Disjoint(NamesAt), NEW a \in NamePlace, NEW b \in NamePlace, a # b,
         NEW X, X \subseteq NamesAt[a],
         NamesAt'[a] \subseteq NamesAt[a] \ X, NamesAt'[b] \subseteq NamesAt[b] \cup X,
         \A p \in NamePlace \ {a, b} : NamesAt'[p] \subseteq NamesAt[p]
  PROVE  Disjoint(NamesAt)'
<1> DEFINE g == NamesAt'
           f == NamesAt
<1>1. DOMAIN g = DOMAIN f /\ DOMAIN f = NamePlace
  BY NameValues, NameValuesNext
<1>2. /\ Disjoint(f) /\ X \subseteq f[a] /\ g[a] \subseteq f[a] \ X /\ g[b] \subseteq f[b] \cup X
      /\ \A p \in NamePlace \ {a, b} : g[p] \subseteq f[p]
  OBVIOUS
<1> HIDE DEF g, f
<1>3. Disjoint(g)
  BY <1>1, <1>2, NamesMove
<1> QED
  BY <1>3 DEF g, Disjoint

(* A message behind the results on their way.                              *)
LEMMA ResultsAppend ==
  ASSUME NEW M, NEW s \in Seq(M), NEW msg \in M, ResultsOnce(s),
         msg.type = "test_result" => msg \notin Range(s)
  PROVE  ResultsOnce(Append(s, msg))
<1>1. /\ DOMAIN s = 1 .. Len(s) /\ Len(s) \in Nat
      /\ DOMAIN Append(s, msg) = 1 .. Len(s) + 1
      /\ \A n \in 1 .. Len(s) : Append(s, msg)[n] = s[n]
      /\ Append(s, msg)[Len(s) + 1] = msg
  OBVIOUS
<1> DEFINE r == Append(s, msg)
           L == Len(s)
<1> HIDE DEF r, L
<1>2. /\ DOMAIN s = 1 .. L /\ L \in Nat /\ DOMAIN r = 1 .. L + 1
      /\ \A n \in 1 .. L : r[n] = s[n]
      /\ r[L + 1] = msg
  BY <1>1 DEF r, L
<1>3. ASSUME NEW m \in DOMAIN r, NEW n \in DOMAIN r, r[m].type = "test_result", r[m] = r[n]
      PROVE  m = n
  <2>1. (m \in 1 .. L \/ m = L + 1) /\ (n \in 1 .. L \/ n = L + 1)
    BY <1>2
  <2>2. \A i \in 1 .. L : r[i] = msg => msg \in Range(s)
    BY <1>2 DEF Range
  <2> QED
    BY <1>2, <1>3, <2>1, <2>2 DEF ResultsOnce
<1> QED
  BY <1>3 DEF ResultsOnce, r

(* The first result taken off them.                                        *)
LEMMA ResultsTail ==
  ASSUME NEW M, NEW s \in Seq(M), s # <<>>, ResultsOnce(s)
  PROVE  /\ ResultsOnce(Tail(s))
         /\ Head(s).type = "test_result" => Head(s) \notin Range(Tail(s))
<1>1. /\ Tail(s) \in Seq(M) /\ Len(Tail(s)) = Len(s) - 1 /\ Head(s) = s[1]
      /\ \A n \in 1 .. Len(s) - 1 : Tail(s)[n] = s[n + 1]
  BY HeadType
<1>2. DOMAIN s = 1 .. Len(s) /\ Len(s) \in Nat \ {0}
  BY EmptySeq
<1> DEFINE L == Len(s)
           r == Tail(s)
<1>3. DOMAIN r = 1 .. L - 1
  <2>1. DOMAIN r = 1 .. Len(r)
    BY <1>1
  <2> QED
    BY <1>1, <2>1
<1>4. /\ DOMAIN s = 1 .. L /\ L \in Nat \ {0} /\ Head(s) = s[1]
      /\ \A n \in 1 .. L - 1 : r[n] = s[n + 1]
  BY <1>1, <1>2
<1> HIDE DEF L, r
<1>5. \A n \in 1 .. L - 1 : n + 1 \in 1 .. L /\ n + 1 # 1 /\ 1 \in 1 .. L
  BY <1>4, Indices
<1>6. ResultsOnce(r)
  <2> SUFFICES ASSUME NEW m \in 1 .. L - 1, NEW n \in 1 .. L - 1,
                      r[m].type = "test_result", r[m] = r[n]
               PROVE  m = n
    BY <1>3 DEF ResultsOnce
  <2>1. m + 1 = n + 1
    BY <1>4, <1>5 DEF ResultsOnce
  <2> QED
    BY <1>4, <2>1, Indices
<1>7. Head(s).type = "test_result" => \A n \in 1 .. L - 1 : r[n] # Head(s)
  BY <1>4, <1>5 DEF ResultsOnce
<1>8. Head(s).type = "test_result" => Head(s) \notin Range(r)
  BY <1>3, <1>7 DEF Range
<1> QED
  BY <1>6, <1>8 DEF r

(* What a test reports.                                                    *)
LEMMA ReportsTypes == \A u \in Test : Reports(u) \subseteq Test
BY TestsAssumption DEF Reports, Range

(* What a list reports is what its tests do.                               *)
LEMMA ReportRange ==
  ASSUME NEW s
  PROVE  ToReport(s) = UNION {Reports(u) : u \in Range(s)}
BY DEF ToReport, Range

(* The first test of a list reports what no other does.                    *)
LEMMA ReportTail ==
  ASSUME NEW s \in Seq(Test), s # <<>>, ReportOnce(s)
  PROVE  /\ ReportOnce(Tail(s)) /\ Once(Redirected[Head(s)]) /\ Head(s) \in Test
         /\ Tail(s) \in Seq(Test)
         /\ Reports(Head(s)) \cap ToReport(Tail(s)) = {}
         /\ ToReport(s) = Reports(Head(s)) \cup ToReport(Tail(s))
<1>1. /\ Tail(s) \in Seq(Test) /\ Len(Tail(s)) = Len(s) - 1 /\ Head(s) = s[1]
      /\ Head(s) \in Test
      /\ \A n \in 1 .. Len(s) - 1 : Tail(s)[n] = s[n + 1]
  BY HeadType
<1>2. DOMAIN s = 1 .. Len(s) /\ Len(s) \in Nat \ {0}
  BY EmptySeq
<1> DEFINE L == Len(s)
           r == Tail(s)
<1>3. DOMAIN r = 1 .. L - 1
  <2>1. DOMAIN r = 1 .. Len(r)
    BY <1>1
  <2> QED
    BY <1>1, <2>1
<1>4. /\ DOMAIN s = 1 .. L /\ L \in Nat \ {0} /\ Head(s) = s[1]
      /\ \A n \in 1 .. L - 1 : r[n] = s[n + 1]
  BY <1>1, <1>2
<1> HIDE DEF L, r
<1>5. /\ \A n \in 1 .. L - 1 : n + 1 \in 1 .. L /\ n + 1 # 1
      /\ 1 \in 1 .. L
      /\ \A m, n \in 1 .. L - 1 : m + 1 = n + 1 => m = n
  BY <1>4, Indices
<1>6. ReportOnce(r) /\ Once(Redirected[Head(s)])
  <2>1. Once(Redirected[Head(s)])
    BY <1>4, <1>5 DEF ReportOnce
  <2>2. ASSUME NEW m \in 1 .. L - 1
        PROVE  /\ Once(Redirected[r[m]])
               /\ \A n \in 1 .. L - 1 : m # n => Reports(r[m]) \cap Reports(r[n]) = {}
    <3>1. m + 1 \in DOMAIN s /\ r[m] = s[m + 1]
      BY <1>4, <1>5
    <3>2. ASSUME NEW n \in 1 .. L - 1, m # n
          PROVE  n + 1 \in DOMAIN s /\ r[n] = s[n + 1] /\ m + 1 # n + 1
      BY <1>4, <1>5, <3>2
    <3> QED
      BY <3>1, <3>2, Zenon DEF ReportOnce
  <2> QED
    BY <1>3, <2>1, <2>2 DEF ReportOnce
<1>7. \A n \in DOMAIN r : Reports(Head(s)) \cap Reports(r[n]) = {}
  BY <1>3, <1>4, <1>5 DEF ReportOnce
<1>8. Reports(Head(s)) \cap ToReport(r) = {}
  BY <1>7 DEF ToReport
<1>9. ToReport(s) = Reports(Head(s)) \cup ToReport(r)
  <2>1. Range(s) = {Head(s)} \cup Range(r)
    BY RangeHeadTail DEF r
  <2>2. ToReport(s) = UNION {Reports(u) : u \in Range(s)}
    BY ReportRange
  <2>3. ToReport(r) = UNION {Reports(u) : u \in Range(r)}
    BY ReportRange
  <2> QED
    BY <2>1, <2>2, <2>3
<1> QED
  BY <1>1, <1>6, <1>8, <1>9 DEF r

(* A redirecting test makes way for the tests it runs.                     *)
LEMMA ReportRedirected ==
  ASSUME NEW s \in Seq(Test), s # <<>>, ReportOnce(s), Redirected[Head(s)] # <<>>
  PROVE  /\ ReportOnce(Redirected[Head(s)] \o Tail(s))
         /\ ToReport(Redirected[Head(s)] \o Tail(s)) = ToReport(s)
<1> DEFINE r == Redirected[Head(s)]
           o == Tail(s)
<1>1. /\ ReportOnce(o) /\ Once(r) /\ Head(s) \in Test /\ o \in Seq(Test)
      /\ Reports(Head(s)) \cap ToReport(o) = {}
      /\ ToReport(s) = Reports(Head(s)) \cup ToReport(o)
  BY ReportTail
<1>2. r \in Seq(Test) /\ Reports(Head(s)) = Range(r)
  BY <1>1, TestsAssumption DEF Reports
<1>3. \A n \in DOMAIN r : Redirected[r[n]] = <<>> /\ Reports(r[n]) = {r[n]}
  BY <1>1, RedirectAssumption DEF Reports
<1> HIDE DEF r, o
<1>4. /\ DOMAIN r = 1 .. Len(r) /\ DOMAIN o = 1 .. Len(o) /\ Len(r) \in Nat /\ Len(o) \in Nat
      /\ DOMAIN (r \o o) = 1 .. Len(r) + Len(o)
  BY <1>1, <1>2
<1>5. \A n \in DOMAIN (r \o o) :
        \/ n \in DOMAIN r /\ (r \o o)[n] = r[n]
        \/ n \notin DOMAIN r /\ n - Len(r) \in DOMAIN o /\ (r \o o)[n] = o[n - Len(r)]
  BY <1>1, <1>2, <1>4
<1>6. ToReport(r \o o) = ToReport(s)
  <2>1. ToReport(r) = Range(r)
    BY <1>3 DEF ToReport, Range
  <2>2. Range(r \o o) = Range(r) \cup Range(o)
    BY <1>1, <1>2, RangeConcat
  <2>3. ToReport(r \o o) = ToReport(r) \cup ToReport(o)
    BY <2>2, ReportRange
  <2> QED
    BY <1>1, <1>2, <2>1, <2>3
<1>7. ASSUME NEW m \in DOMAIN (r \o o)
      PROVE  /\ Once(Redirected[(r \o o)[m]])
             /\ \A n \in DOMAIN (r \o o) : m # n =>
                  Reports((r \o o)[m]) \cap Reports((r \o o)[n]) = {}
  <2>1. Once(<<>>)
    BY DEF Once
  <2>2. Once(Redirected[(r \o o)[m]])
    BY <1>1, <1>3, <1>5, <2>1 DEF ReportOnce
  <2>3. ASSUME NEW n \in DOMAIN (r \o o), m # n
        PROVE  Reports((r \o o)[m]) \cap Reports((r \o o)[n]) = {}
    <3>1. CASE m \in DOMAIN r /\ n \in DOMAIN r
      <4>1. r[m] # r[n]
        BY <1>1, <2>3, <3>1 DEF Once
      <4> QED
        BY <1>3, <1>5, <3>1, <4>1
    <3>2. ASSUME NEW i \in DOMAIN r, NEW j \in DOMAIN o
          PROVE  Reports(r[i]) \cap Reports(o[j]) = {}
      <4>1. Reports(o[j]) \subseteq ToReport(o)
        BY DEF ToReport
      <4>2. Reports(r[i]) \subseteq Reports(Head(s))
        BY <1>2, <1>3 DEF Range
      <4> QED
        BY <1>1, <4>1, <4>2
    <3>3. CASE m \notin DOMAIN r /\ n \notin DOMAIN r
      <4>1. m - Len(r) # n - Len(r)
        BY <1>4, <2>3, Shifted
      <4> QED
        BY <1>1, <1>5, <3>3, <4>1 DEF ReportOnce
    <3>4. CASE m \in DOMAIN r /\ n \notin DOMAIN r
      BY <1>5, <3>2, <3>4
    <3>5. CASE m \notin DOMAIN r /\ n \in DOMAIN r
      BY <1>5, <3>2, <3>5
    <3> QED
      BY <3>1, <3>3, <3>4, <3>5
  <2> QED
    BY <2>2, <2>3
<1> QED
  BY <1>6, <1>7 DEF ReportOnce, r, o

(* Tests of the list that are all different report each name once.         *)
LEMMA ReportOnceTests ==
  ASSUME NamesApart, NEW s \in Seq(Test), Once(s), Range(s) \subseteq Tests
  PROVE  ReportOnce(s)
<1>1. \A n \in DOMAIN s : s[n] \in Tests
  BY DEF Range
<1> QED
  BY <1>1 DEF NamesApart, ReportOnce, Once

(* A message that is no result adds none.                                  *)
LEMMA QuietAppend ==
  ASSUME NEW s \in Seq(ToParentMsg), NEW msg \in ToParentMsg, msg.type # "test_result",
         ResultsOnce(s)
  PROVE  /\ ResultsOnce(Append(s, msg))
         /\ \A name \in Test : [type |-> "test_result", name |-> name] \in Range(Append(s, msg))
              => [type |-> "test_result", name |-> name] \in Range(s)
<1>1. ResultsOnce(Append(s, msg))
  BY ResultsAppend
<1>2. Range(Append(s, msg)) = Range(s) \cup {msg}
  BY RangeAppend
<1> QED
  BY <1>1, <1>2

(* On the way to the parent: nothing new, a message less, or one more that *)
(* is no result.                                                           *)
LEMMA SentQuiet ==
  ASSUME TypeOK, NEW w \in Worker, ResultsOnce(toParent[w]),
         \/ toParent'[w] = toParent[w]
         \/ toParent[w] # <<>> /\ toParent'[w] = Tail(toParent[w])
         \/ \E msg \in ToParentMsg :
              msg.type # "test_result" /\ toParent'[w] = Append(toParent[w], msg)
  PROVE  SentNames(w)' \subseteq SentNames(w) /\ ResultsOnce(toParent'[w])
<1>1. toParent[w] \in Seq(ToParentMsg)
  BY DEF TypeOK
<1>2. CASE toParent'[w] = toParent[w]
  BY <1>2 DEF SentNames
<1>3. CASE toParent[w] # <<>> /\ toParent'[w] = Tail(toParent[w])
  <2>1. ResultsOnce(Tail(toParent[w]))
    BY <1>1, <1>3, ResultsTail
  <2>2. Range(Tail(toParent[w])) \subseteq Range(toParent[w])
    BY <1>1, <1>3, RangeHeadTail
  <2> QED
    BY <1>3, <2>1, <2>2 DEF SentNames
<1>4. ASSUME NEW msg \in ToParentMsg, msg.type # "test_result",
             toParent'[w] = Append(toParent[w], msg)
      PROVE  SentNames(w)' \subseteq SentNames(w) /\ ResultsOnce(toParent'[w])
  BY <1>1, <1>4, QuietAppend DEF SentNames
<1> QED
  BY <1>2, <1>3, <1>4

(* On the way to a worker: nothing new, a message less, or a greeting.     *)
LEMMA HeldQuiet ==
  ASSUME TypeOK, NEW w \in Worker, todo'[w] = todo[w],
         \/ toWorker'[w] = toWorker[w]
         \/ toWorker[w] # <<>> /\ toWorker'[w] = Tail(toWorker[w])
         \/ toWorker'[w] = Append(toWorker[w], [type |-> "hello"])
  PROVE  Orders(w)' \subseteq Orders(w) /\ HeldNames(w)' \subseteq HeldNames(w)
<1>1. toWorker[w] \in Seq(ToWorkerMsg) /\ [type |-> "hello"] \in ToWorkerMsg
  BY DEF TypeOK, ToWorkerMsg
<1>2. Orders(w)' \subseteq Orders(w)
  <2>1. CASE toWorker'[w] = toWorker[w]
    BY <2>1 DEF Orders
  <2>2. CASE toWorker[w] # <<>> /\ toWorker'[w] = Tail(toWorker[w])
    BY <1>1, <2>2, RangeHeadTail DEF Orders
  <2>3. CASE toWorker'[w] = Append(toWorker[w], [type |-> "hello"])
    <3>1. Range(toWorker'[w]) = Range(toWorker[w]) \cup {[type |-> "hello"]}
      BY <1>1, <2>3, RangeAppend
    <3>2. [type |-> "hello"].type # "run_tests"
      OBVIOUS
    <3> QED
      BY <3>1, <3>2 DEF Orders
  <2> QED
    BY <2>1, <2>2, <2>3
<1>3. ToReport(todo'[w]) = ToReport(todo[w])
  OBVIOUS
<1> QED
  BY <1>2, <1>3 DEF HeldNames

(* A step that neither hands out tests nor reports or reads a result.      *)
LEMMA NamesQuiet ==
  ASSUME NamesInv, Pending' = Pending, UNCHANGED tally,
         \A w \in Worker : /\ HeldNames(w)' \subseteq HeldNames(w)
                           /\ SentNames(w)' \subseteq SentNames(w)
                           /\ ResultsOnce(toParent'[w])
                           /\ ReportOnce(todo'[w])
                           /\ \A msg \in Orders(w)' : ReportOnce(msg.test_files)
  PROVE  NamesInv'
<1>1. test_results' = test_results /\ test_idx' = test_idx
  BY DEF tally
<1>2. Disjoint(NamesAt)'
  BY <1>1, NamesStay DEF NamesInv
<1>3. SentOnce' /\ HeldOnce'
  BY DEF SentOnce, HeldOnce
<1> QED
  BY <1>1, <1>2, <1>3 DEF NamesInv, ReportedOnce

(* A batch takes its names from the queues to the worker.                  *)
LEMMA NamesDispatch ==
  ASSUME TypeOK, KeptOnce, NamesApart, NamesInv, pc = "batch" => reading \in Worker, Dispatch
  PROVE  NamesInv'
<1> PICK me \in Worker : me = reading
  BY DEF Dispatch
<1> DEFINE msg == [type |-> "run_tests", test_files |-> files]
           X == ToReport(files)
           a == <<"pending", 0>>
           b == <<"held", me>>
           B == <<"files", All>>
<1>1. /\ pc = "batch" /\ me = reading /\ UNCHANGED <<tally, toParent, workerVars>>
      /\ toWorker' = [toWorker EXCEPT ![reading] = Append(@, msg)]
      /\ files \in Seq(Test)
  BY DEF Dispatch, SendTo, TypeOK
<1>2. /\ Pending' = Pending \ Range(files) /\ Range(files) \subseteq Pending
  BY DispatchTakes
<1>3. Once(files) /\ Range(files) \subseteq Tests
  <2>1. B \in Place
    BY TestsAssumption DEF Place
  <2>2. Queue[B] = files
    BY <1>1, <2>1 DEF Queue
  <2> QED
    BY <1>2, <2>1, <2>2, QueueValues DEF KeptOnce, Apart, NamesInv
<1>4. ReportOnce(files)
  BY <1>1, <1>3, ReportOnceTests
<1>5. msg \in ToWorkerMsg /\ toWorker[me] \in Seq(ToWorkerMsg)
      /\ msg.type = "run_tests" /\ msg.test_files = files
  BY <1>1 DEF ToWorkerMsg, TypeOK
<1>6. /\ toWorker'[me] = Append(toWorker[me], msg)
      /\ \A w \in Worker \ {me} : toWorker'[w] = toWorker[w]
      /\ todo' = todo /\ toParent' = toParent /\ test_results' = test_results
      /\ test_idx' = test_idx
  BY <1>1 DEF TypeOK, workerVars, tally
<1> HIDE DEF msg
<1>7. Range(toWorker'[me]) = Range(toWorker[me]) \cup {msg}
  BY <1>5, <1>6, RangeAppend
<1>8. Orders(me)' \subseteq Orders(me) \cup {msg}
  BY <1>7 DEF Orders
<1>9. HeldNames(me)' \subseteq HeldNames(me) \cup X
  BY <1>5, <1>6, <1>8 DEF HeldNames
<1>10. \A w \in Worker \ {me} : Orders(w)' = Orders(w) /\ HeldNames(w)' = HeldNames(w)
  BY <1>6 DEF Orders, HeldNames
<1>11. \A w \in Worker : SentNames(w)' = SentNames(w)
  BY <1>6 DEF SentNames
<1>12. X = UNION {Reports(t) : t \in Range(files)}
  BY ReportRange
<1>13. (UNION {Reports(t) : t \in Pending})' \subseteq (UNION {Reports(t) : t \in Pending}) \ X
  <2>1. ASSUME NEW t \in Pending', NEW u \in Range(files) PROVE Reports(t) \cap Reports(u) = {}
    BY <1>2, <1>3 DEF NamesApart, NamesInv
  <2>2. (UNION {Reports(t) : t \in Pending})' = UNION {Reports(t) : t \in Pending'}
    OBVIOUS
  <2> QED
    BY <1>2, <1>12, <2>1, <2>2
<1>14. X \subseteq UNION {Reports(t) : t \in Pending}
  BY <1>2, <1>12
<1> HIDE DEF X
<1>15. Disjoint(NamesAt)'
  <2>1. a \in NamePlace /\ b \in NamePlace /\ a # b
    BY <1>1, NameValues
  <2>2. X \subseteq NamesAt[a] /\ NamesAt'[a] \subseteq NamesAt[a] \ X
    BY <1>13, <1>14, NameValues, NameValuesNext
  <2>3. NamesAt'[b] \subseteq NamesAt[b] \cup X
    BY <1>1, <1>9, NameValues, NameValuesNext
  <2>4. ASSUME NEW p \in NamePlace, p # a, p # b
        PROVE  NamesAt'[p] \subseteq NamesAt[p]
    <3>1. CASE p = <<"done", 0>>
      BY <1>6, <3>1, NameValues, NameValuesNext
    <3>2. ASSUME NEW w \in Worker, p = <<"held", w>>
          PROVE  NamesAt'[p] \subseteq NamesAt[p]
      BY <1>10, <2>4, <3>2, NameValues, NameValuesNext
    <3>3. ASSUME NEW w \in Worker, p = <<"sent", w>>
          PROVE  NamesAt'[p] \subseteq NamesAt[p]
      BY <1>11, <3>3, NameValues, NameValuesNext
    <3> QED
      BY <2>4, <3>1, <3>2, <3>3, NameValues
  <2> HIDE DEF a, b
  <2> QED
    BY <2>1, <2>2, <2>3, <2>4, NamesGo DEF NamesInv
<1>16. SentOnce'
  BY <1>6 DEF NamesInv, SentOnce
<1>17. HeldOnce'
  <2>1. \A w \in Worker : ReportOnce(todo'[w])
    BY <1>6 DEF NamesInv, HeldOnce
  <2>2. \A w \in Worker : \A m \in Orders(w)' : ReportOnce(m.test_files)
    BY <1>4, <1>5, <1>8, <1>10 DEF NamesInv, HeldOnce
  <2> QED
    BY <2>1, <2>2 DEF HeldOnce
<1> QED
  BY <1>2, <1>6, <1>15, <1>16, <1>17 DEF NamesInv, ReportedOnce

(* A result is counted once.                                               *)
LEMMA NamesCounted ==
  ASSUME TypeOK, NamesInv, ReadResult, KeptOnce, Pending' = Pending
  PROVE  NamesInv'
<1> PICK me \in Worker : me = reading
  BY DEF ReadResult, Reading, TypeOK
<1> DEFINE name == Head(toParent[me]).name
           a == <<"sent", me>>
           b == <<"done", 0>>
<1>1. /\ me \in Worker /\ toParent[me] # <<>>
      /\ Head(toParent[me]).type = "test_result"
      /\ toParent' = [toParent EXCEPT ![me] = Tail(@)]
      /\ test_results' = test_results \cup {name} /\ test_idx' = test_idx + 1
      /\ UNCHANGED <<toWorker, workerVars>>
  BY DEF ReadResult, Reading, TakeMessage, TypeOK
<1>2. toParent[me] \in Seq(ToParentMsg) /\ Head(toParent[me]) \in ToParentMsg
  BY <1>1, HeadType DEF TypeOK
<1>3. /\ name \in Test
      /\ Head(toParent[me]) = [type |-> "test_result", name |-> name]
  BY <1>1, <1>2 DEF ToParentMsg
<1>4. /\ toParent'[me] = Tail(toParent[me])
      /\ \A w \in Worker \ {me} : toParent'[w] = toParent[w]
      /\ toWorker' = toWorker /\ todo' = todo
  BY <1>1 DEF TypeOK, workerVars
<1>5. Range(toParent[me]) = {Head(toParent[me])} \cup Range(Tail(toParent[me]))
  BY <1>1, <1>2, RangeHeadTail
<1>6. /\ ResultsOnce(Tail(toParent[me]))
      /\ Head(toParent[me]) \notin Range(Tail(toParent[me]))
  BY <1>1, <1>2, ResultsTail DEF NamesInv, SentOnce
<1> HIDE DEF name
<1>7. name \in SentNames(me) /\ SentNames(me)' \subseteq SentNames(me) \ {name}
  BY <1>3, <1>4, <1>5, <1>6 DEF SentNames
<1>8. \A w \in Worker : Orders(w)' = Orders(w) /\ HeldNames(w)' = HeldNames(w)
  BY <1>4 DEF Orders, HeldNames
<1>9. \A w \in Worker \ {me} : SentNames(w)' = SentNames(w)
  BY <1>4 DEF SentNames
<1>10. a \in NamePlace /\ b \in NamePlace /\ a # b
  BY <1>1, NameValues
<1>11. {name} \subseteq NamesAt[a] /\ NamesAt'[a] \subseteq NamesAt[a] \ {name}
  BY <1>1, <1>7, NameValues, NameValuesNext
<1>12. NamesAt'[b] \subseteq NamesAt[b] \cup {name}
  BY <1>1, NameValues, NameValuesNext
<1>13. ASSUME NEW p \in NamePlace, p # a, p # b
       PROVE  NamesAt'[p] \subseteq NamesAt[p]
  <2>1. CASE p = <<"pending", 0>>
    <3>1. (UNION {Reports(t) : t \in Pending})' = UNION {Reports(t) : t \in Pending}
      BY DEF Reports
    <3> QED
      BY <2>1, <3>1, NameValues, NameValuesNext
  <2>2. ASSUME NEW w \in Worker, p = <<"held", w>>
        PROVE  NamesAt'[p] \subseteq NamesAt[p]
    BY <1>8, <2>2, NameValues, NameValuesNext
  <2>3. ASSUME NEW w \in Worker, p = <<"sent", w>>
        PROVE  NamesAt'[p] \subseteq NamesAt[p]
    BY <1>9, <1>13, <2>3, NameValues, NameValuesNext
  <2> QED
    BY <1>13, <2>1, <2>2, <2>3, NameValues
<1>14. name \notin test_results
  <2>1. NamesAt[a] \cap NamesAt[b] = {}
    BY <1>10, NameValues DEF NamesInv, Disjoint
  <2> QED
    BY <1>11, <2>1, NameValues
<1>15. Disjoint(NamesAt)'
  <2> HIDE DEF a, b
  <2> QED
    BY <1>10, <1>11, <1>12, <1>13, NamesGo DEF NamesInv
<1>16. IsFiniteSet(test_results') /\ Cardinality(test_results') = Cardinality(test_results) + 1
  BY <1>1, <1>14, FS_AddElement DEF NamesInv
<1>17. SentOnce' /\ HeldOnce'
  BY <1>4, <1>6, <1>8 DEF NamesInv, SentOnce, HeldOnce
<1>18. Pending' \subseteq Tests
  BY DEF NamesInv
<1> QED
  BY <1>1, <1>15, <1>16, <1>17, <1>18 DEF NamesInv, ReportedOnce

(* A worker with tests in hand is sent no others.                          *)
LEMMA NoOrders ==
  ASSUME TypeOK, NEW w \in Worker, InOnePlace(w), InHand(w)
  PROVE  Orders(w) = {} /\ HeldNames(w) = ToReport(todo[w])
<1>1. toWorker[w] \in Seq(ToWorkerMsg) /\ ~Ordered(w)
  BY DEF InOnePlace, TypeOK
<1>2. Orders(w) = {}
  BY <1>1 DEF Orders, Ordered, Range
<1> QED
  BY <1>2 DEF HeldNames

(* A test that is run takes its name to the parent.                        *)
LEMMA NamesReported ==
  ASSUME TypeOK, NamesInv, NEW me \in Worker, InOnePlace(me), RunTest(me), Pending' = Pending
  PROVE  NamesInv'
<1> DEFINE name == Head(todo[me])
           msg == [type |-> "test_result", name |-> name]
           a == <<"held", me>>
           b == <<"sent", me>>
<1>1. /\ todo[me] \in Seq(Test) /\ todo[me] # <<>> /\ Redirected[name] = <<>>
      /\ todo'[me] = Tail(todo[me]) /\ toParent'[me] = Append(toParent[me], msg)
      /\ \A w \in Worker \ {me} : todo'[w] = todo[w] /\ toParent'[w] = toParent[w]
      /\ UNCHANGED <<toWorker, test_results, test_idx>> /\ InHand(me)
  BY DEF RunTest, SendParent, TypeOK, parentVars, InHand
<1>2. ReportOnce(todo[me])
  BY DEF NamesInv, HeldOnce
<1>3. /\ ReportOnce(Tail(todo[me])) /\ name \in Test
      /\ Reports(name) \cap ToReport(Tail(todo[me])) = {}
      /\ ToReport(todo[me]) = Reports(name) \cup ToReport(Tail(todo[me]))
  BY <1>1, <1>2, ReportTail
<1> HIDE DEF name
<1>4. Reports(name) = {name}
  BY <1>1 DEF Reports
<1>5. Orders(me) = {} /\ Orders(me)' = {} /\ HeldNames(me) = ToReport(todo[me])
  BY <1>1, NoOrders DEF Orders
<1>6. HeldNames(me)' = ToReport(todo'[me])
  BY <1>5 DEF HeldNames
<1>7. msg \in ToParentMsg /\ toParent[me] \in Seq(ToParentMsg)
  BY <1>3 DEF ToParentMsg, TypeOK
<1>8. Range(toParent'[me]) = Range(toParent[me]) \cup {msg}
  BY <1>1, <1>7, RangeAppend
<1>9. SentNames(me)' \subseteq SentNames(me) \cup {name}
  BY <1>8 DEF SentNames
<1>10. \A w \in Worker \ {me} : /\ Orders(w)' = Orders(w) /\ HeldNames(w)' = HeldNames(w)
                                /\ SentNames(w)' = SentNames(w)
  BY <1>1 DEF Orders, HeldNames, SentNames
<1>11. a \in NamePlace /\ b \in NamePlace /\ a # b
  BY NameValues
<1>12. name \in HeldNames(me) /\ HeldNames(me)' \subseteq HeldNames(me) \ {name}
  BY <1>1, <1>3, <1>4, <1>5, <1>6
<1>13. {name} \subseteq NamesAt[a] /\ NamesAt'[a] \subseteq NamesAt[a] \ {name}
  BY <1>12, NameValues, NameValuesNext
<1>14. NamesAt'[b] \subseteq NamesAt[b] \cup {name}
  BY <1>9, NameValues, NameValuesNext
<1>15. ASSUME NEW p \in NamePlace, p # a, p # b
       PROVE  NamesAt'[p] \subseteq NamesAt[p]
  <2>1. CASE p = <<"pending", 0>>
    <3>1. (UNION {Reports(t) : t \in Pending})' = UNION {Reports(t) : t \in Pending}
      BY DEF Reports
    <3> QED
      BY <2>1, <3>1, NameValues, NameValuesNext
  <2>2. CASE p = <<"done", 0>>
    BY <1>1, <2>2, NameValues, NameValuesNext
  <2>3. ASSUME NEW w \in Worker, p \in {<<"held", w>>, <<"sent", w>>}
        PROVE  NamesAt'[p] \subseteq NamesAt[p]
    <3>1. w # me
      BY <1>15, <2>3
    <3>2. NamesAt'[<<"held", w>>] = HeldNames(w)' /\ NamesAt'[<<"sent", w>>] = SentNames(w)'
      BY NameValuesNext
    <3>3. NamesAt[<<"held", w>>] = HeldNames(w) /\ NamesAt[<<"sent", w>>] = SentNames(w)
      BY NameValues
    <3>4. HeldNames(w)' = HeldNames(w) /\ SentNames(w)' = SentNames(w)
      BY <1>10, <3>1
    <3> QED
      BY <2>3, <3>2, <3>3, <3>4
  <2> QED
    BY <2>1, <2>2, <2>3, NameValues
<1>16. msg \notin Range(toParent[me])
  <2>1. NamesAt[a] \cap NamesAt[b] = {}
    BY <1>11, NameValues DEF NamesInv, Disjoint
  <2>2. name \notin SentNames(me)
    BY <1>13, <2>1, NameValues
  <2> QED
    BY <1>3, <2>2 DEF SentNames
<1>17. Disjoint(NamesAt)'
  <2> HIDE DEF a, b
  <2> QED
    BY <1>11, <1>13, <1>14, <1>15, NamesGo DEF NamesInv
<1>18. SentOnce'
  <2>1. ResultsOnce(toParent'[me])
    BY <1>1, <1>7, <1>16, ResultsAppend DEF NamesInv, SentOnce
  <2> QED
    BY <1>1, <2>1 DEF NamesInv, SentOnce
<1>19. HeldOnce'
  BY <1>1, <1>3, <1>5, <1>10 DEF NamesInv, HeldOnce
<1> QED
  BY <1>1, <1>17, <1>18, <1>19 DEF NamesInv, ReportedOnce

(* The other steps of a worker.                                            *)
LEMMA NamesOfWorker ==
  ASSUME TypeOK, NamesInv, NEW me \in Worker, InOnePlace(me), Pending' = Pending,
         Work(me) \/ ReportPhpError(me) \/ Crash(me)
  PROVE  NamesInv'
<1>1. CASE RunTest(me)
  BY <1>1, NamesReported
<1>2. CASE ~RunTest(me)
  <2>1. UNCHANGED tally
    BY DEF Work, Connect, ReadGreeting, Greet, TakeBatch, RunTest, Redirect, FinishBatch,
       HangUp, Terminate, ReportPhpError, Crash, parentVars, tally
  <2>2. ASSUME NEW w \in Worker, w # me
        PROVE  /\ HeldNames(w)' = HeldNames(w) /\ SentNames(w)' = SentNames(w)
               /\ Orders(w)' = Orders(w)
               /\ toParent'[w] = toParent[w] /\ todo'[w] = todo[w]
    BY <2>2, OtherWorker DEF HeldNames, SentNames, Orders
  <2>3. SentNames(me)' \subseteq SentNames(me) /\ ResultsOnce(toParent'[me])
    <3>1. ResultsOnce(toParent[me]) /\ toParent[me] \in Seq(ToParentMsg)
      BY DEF NamesInv, SentOnce, TypeOK
    <3>2. CASE Greet(me)
      <4> DEFINE x == [type |-> "hello_reply"]
                 y == [type |-> "ready"]
      <4>1. /\ x \in ToParentMsg /\ y \in ToParentMsg
            /\ x.type # "test_result" /\ y.type # "test_result"
        BY DEF ToParentMsg
      <4>2. toParent'[me] = toParent[me] \o <<x, y>>
        BY <3>2 DEF Greet, TypeOK
      <4> HIDE DEF x, y
      <4>3. toParent[me] \o <<x, y>> = Append(Append(toParent[me], x), y)
        BY <3>1, <4>1
      <4>4. Append(toParent[me], x) \in Seq(ToParentMsg)
        BY <3>1, <4>1
      <4>5. ResultsOnce(Append(toParent[me], x))
        BY <3>1, <4>1, QuietAppend
      <4>6. ResultsOnce(toParent'[me])
        BY <4>1, <4>2, <4>3, <4>4, <4>5, QuietAppend
      <4>7. ASSUME NEW name \in Test,
                   [type |-> "test_result", name |-> name] \in Range(toParent'[me])
            PROVE  [type |-> "test_result", name |-> name] \in Range(toParent[me])
        <5>1. [type |-> "test_result", name |-> name] \in Range(Append(toParent[me], x))
          BY <4>1, <4>2, <4>3, <4>4, <4>5, <4>7, QuietAppend
        <5> QED
          BY <3>1, <4>1, <5>1, QuietAppend
      <4> QED
        BY <4>6, <4>7 DEF SentNames
    <3>3. CASE FinishBatch(me)
      <4>1. [type |-> "tests_finished"] \in ToParentMsg
        BY DEF ToParentMsg
      <4>2. toParent'[me] = Append(toParent[me], [type |-> "tests_finished"])
        BY <3>3 DEF FinishBatch, SendParent, TypeOK
      <4> QED
        BY <3>1, <4>1, <4>2, SentQuiet
    <3>4. CASE ReportPhpError(me)
      <4>1. [type |-> "php_error"] \in ToParentMsg
        BY DEF ToParentMsg
      <4>2. toParent'[me] = Append(toParent[me], [type |-> "php_error"])
        BY <3>4 DEF ReportPhpError, SendParent, TypeOK
      <4> QED
        BY <3>1, <4>1, <4>2, SentQuiet
    <3>5. CASE ~Greet(me) /\ ~FinishBatch(me) /\ ~ReportPhpError(me)
      <4>1. toParent' = toParent
        BY <1>2, <3>5 DEF Work, Connect, ReadGreeting, TakeBatch, Redirect, HangUp, Terminate,
           Crash, network
      <4> QED
        BY <3>1, <4>1, SentQuiet
    <3> QED
      BY <3>2, <3>3, <3>4, <3>5
  <2>4. /\ HeldNames(me)' \subseteq HeldNames(me) /\ ReportOnce(todo'[me])
        /\ Orders(me)' \subseteq Orders(me)
    <3>1. ReportOnce(todo[me]) /\ \A msg \in Orders(me) : ReportOnce(msg.test_files)
      BY DEF NamesInv, HeldOnce
    <3>2. CASE TakeBatch(me)
      <4> DEFINE msg == Head(toWorker[me])
      <4>1. /\ toWorker[me] # <<>> /\ toWorker[me] \in Seq(ToWorkerMsg) /\ msg.type = "run_tests"
            /\ todo'[me] = msg.test_files /\ toWorker'[me] = Tail(toWorker[me])
        BY <3>2 DEF TakeBatch, TypeOK
      <4>2. Range(toWorker[me]) = {msg} \cup Range(Tail(toWorker[me]))
        BY <4>1, RangeHeadTail
      <4> HIDE DEF msg
      <4>3. msg \in Orders(me) /\ Orders(me)' \subseteq Orders(me)
        BY <4>1, <4>2 DEF Orders
      <4>4. ToReport(todo'[me]) \subseteq HeldNames(me)
        BY <4>1, <4>3 DEF HeldNames
      <4>5. HeldNames(me)' = ToReport(todo'[me]) \cup UNION {ToReport(m.test_files) : m \in Orders(me)'}
        BY DEF HeldNames
      <4>6. UNION {ToReport(m.test_files) : m \in Orders(me)'} \subseteq HeldNames(me)
        BY <4>3 DEF HeldNames
      <4> QED
        BY <3>1, <4>1, <4>3, <4>4, <4>5, <4>6
    <3>3. CASE Redirect(me)
      <4>1. /\ todo[me] \in Seq(Test) /\ todo[me] # <<>> /\ Redirected[Head(todo[me])] # <<>>
            /\ todo'[me] = Redirected[Head(todo[me])] \o Tail(todo[me])
            /\ toWorker' = toWorker /\ InHand(me)
        BY <3>3 DEF Redirect, TypeOK, network, InHand
      <4>2. /\ ReportOnce(todo'[me]) /\ ToReport(todo'[me]) = ToReport(todo[me])
        BY <3>1, <4>1, ReportRedirected
      <4>3. Orders(me)' = Orders(me)
        BY <4>1 DEF Orders
      <4>4. HeldNames(me)' = HeldNames(me)
        BY <4>2, <4>3 DEF HeldNames
      <4> QED
        BY <4>2, <4>3, <4>4
    <3>4. CASE ~TakeBatch(me) /\ ~Redirect(me)
      <4>1. /\ todo'[me] = todo[me]
            /\ \/ toWorker'[me] = toWorker[me]
               \/ toWorker[me] # <<>> /\ toWorker'[me] = Tail(toWorker[me])
        BY <1>2, <3>4 DEF Work, Connect, ReadGreeting, Greet, FinishBatch, HangUp, Terminate,
           ReportPhpError, Crash, network, workerVars, TypeOK
      <4> QED
        BY <3>1, <4>1, HeldQuiet
    <3> QED
      BY <3>2, <3>3, <3>4
  <2>5. ASSUME NEW w \in Worker
        PROVE  /\ HeldNames(w)' \subseteq HeldNames(w)
               /\ SentNames(w)' \subseteq SentNames(w)
               /\ ResultsOnce(toParent'[w])
               /\ ReportOnce(todo'[w])
               /\ \A msg \in Orders(w)' : ReportOnce(msg.test_files)
    <3>1. /\ ResultsOnce(toParent[w]) /\ ReportOnce(todo[w])
          /\ \A msg \in Orders(w) : ReportOnce(msg.test_files)
      BY DEF NamesInv, HeldOnce, SentOnce
    <3>2. CASE w = me
      BY <2>3, <2>4, <3>1, <3>2
    <3>3. CASE w # me
      BY <2>2, <3>1, <3>3
    <3> QED
      BY <3>2, <3>3
  <2> QED
    BY <2>1, <2>5, NamesQuiet
<1> QED
  BY <1>1, <1>2

(* The other steps of the parent.                                          *)
LEMMA NamesOfParent ==
  ASSUME RunInv, NamesInv, Pending' = Pending, Parent, ~Dispatch, ~ReadResult
  PROVE  NamesInv'
<1> USE DEF RunInv, IndInv
<1>1. UNCHANGED <<tally, todo>>
  BY DEF Parent, ReadConflicts, OrderTests, Spawn, SpawnFails, Accept, AcceptFails, ReadReply,
     ReplyFails, Select, TakeSocket, Drained, ReadPhpError, ReadFinished, Release, ReadReady,
     FallThrough, StartBatch, PopFree, PopBlocked, Retire, Finish, Abort, workerVars
<1>2. \/ UNCHANGED toWorker
      \/ \E v \in Worker : toWorker' = [toWorker EXCEPT ![v] = Append(@, [type |-> "hello"])]
  <2>1. CASE \E v \in Worker : Accept(v)
    BY <2>1 DEF Accept, SendTo
  <2>2. CASE ~\E v \in Worker : Accept(v)
    BY <2>2 DEF Parent, ReadConflicts, OrderTests, Spawn, SpawnFails, AcceptFails, ReadReply,
       ReplyFails, Select, TakeSocket, Drained, ReadPhpError, ReadFinished, Release, ReadReady,
       FallThrough, StartBatch, PopFree, PopBlocked, Retire, Finish, Abort, network
  <2> QED
    BY <2>1, <2>2
<1>3. ASSUME NEW w \in Worker
      PROVE  /\ HeldNames(w)' \subseteq HeldNames(w)
             /\ SentNames(w)' \subseteq SentNames(w)
             /\ ResultsOnce(toParent'[w])
             /\ ReportOnce(todo'[w])
             /\ \A msg \in Orders(w)' : ReportOnce(msg.test_files)
  <2>1. /\ ResultsOnce(toParent[w]) /\ ReportOnce(todo[w])
        /\ \A msg \in Orders(w) : ReportOnce(msg.test_files)
    BY DEF NamesInv, HeldOnce, SentOnce
  <2>2. \/ toParent'[w] = toParent[w]
        \/ toParent[w] # <<>> /\ toParent'[w] = Tail(toParent[w])
    BY ParentReads DEF TakeMessage, TypeOK
  <2>3. \/ toWorker'[w] = toWorker[w]
        \/ toWorker'[w] = Append(toWorker[w], [type |-> "hello"])
    BY <1>2 DEF TypeOK
  <2>4. SentNames(w)' \subseteq SentNames(w) /\ ResultsOnce(toParent'[w])
    BY <2>1, <2>2, SentQuiet
  <2>5. todo'[w] = todo[w]
    BY <1>1
  <2>6. Orders(w)' \subseteq Orders(w) /\ HeldNames(w)' \subseteq HeldNames(w)
    BY <2>3, <2>5, HeldQuiet
  <2> QED
    BY <2>1, <2>4, <2>5, <2>6
<1> QED
  BY <1>1, <1>3, NamesQuiet

(* No name is anywhere but in the queues at first.                         *)
LEMMA NamesInit == ASSUME Init, NamesApart PROVE NamesInv
<1>1. Range(<<>>) = {} /\ DOMAIN <<>> = {}
  BY DEF Range
<1>2. /\ Pending \subseteq Tests /\ test_results = {} /\ test_idx = 0
      /\ \A w \in Worker : todo[w] = <<>> /\ toWorker[w] = <<>> /\ toParent[w] = <<>>
  BY <1>1 DEF Init, Pending, Tests
<1>3. \A w \in Worker : Orders(w) = {} /\ HeldNames(w) = {} /\ SentNames(w) = {}
  BY <1>1, <1>2 DEF Orders, HeldNames, SentNames, ToReport
<1>4. \A p \in NamePlace \ {<<"pending", 0>>} : NamesAt[p] = {}
  BY <1>2, <1>3, NameValues
<1>5. Disjoint(NamesAt)
  BY <1>4, NameValues DEF Disjoint
<1>6. SentOnce /\ HeldOnce
  BY <1>1, <1>2, <1>3 DEF SentOnce, HeldOnce, ResultsOnce, ReportOnce
<1> QED
  BY <1>2, <1>5, <1>6, FS_EmptySet DEF NamesInv, ReportedOnce

LEMMA NamesStep ==
  ASSUME RunInv, KeptOnce, NamesApart, NamesInv, [Next]_vars
  PROVE  NamesInv'
<1> USE DEF RunInv, IndInv
<1>1. CASE Dispatch
  <2>1. pc = "batch" => reading \in Worker
    BY DEF TypeOK
  <2> QED
    BY <1>1, <2>1, NamesDispatch
<1>2. CASE ~Dispatch
  <2>1. Pending' = Pending
    BY <1>2, QueuesMove, QueuesAlone
  <2>2. CASE ReadResult
    BY <2>1, <2>2, NamesCounted
  <2>3. CASE Parent /\ ~ReadResult
    BY <1>2, <2>1, <2>3, NamesOfParent
  <2>4. CASE ~Parent
    <3>1. CASE UNCHANGED vars
      <4>1. /\ UNCHANGED <<pc, unread, test_files, sequentialTests, waitingTests, files,
                           toWorker, toParent, todo, test_results, test_idx>>
        BY <3>1 DEF vars, parentVars, workerVars
      <4>2. \A w \in Worker : Orders(w)' = Orders(w)
        BY <4>1 DEF Orders
      <4>3. \A w \in Worker : HeldNames(w)' = HeldNames(w) /\ SentNames(w)' = SentNames(w)
        BY <4>1, <4>2 DEF HeldNames, SentNames
      <4> QED
        BY <2>1, <4>1, <4>2, <4>3, NamesQuiet DEF NamesInv, HeldOnce, SentOnce, tally
    <3>2. ASSUME NEW w \in Worker, Work(w) \/ ReportPhpError(w) \/ Crash(w)
          PROVE  NamesInv'
      BY <2>1, <3>2, NamesOfWorker DEF WorkInv, BatchInOnePlace
    <3> QED
      BY <2>4, <3>1, <3>2, WorkerFrame
  <2> QED
    BY <2>2, <2>3, <2>4 DEF Parent
<1> QED
  BY <1>1, <1>2

(* If the tests of the list report under different names, no result comes  *)
(* twice: the parent's count of results is that of the tests reported.     *)
THEOREM EachReportedOnce == ASSUME NamesApart PROVE Spec => []ReportedOnce
<1>1. Init => KeptOnce /\ NamesInv
  BY PoolInit, NamesInit
<1>2. RunInv /\ RunInv' /\ KeptOnce /\ NamesInv /\ [Next]_vars => KeptOnce' /\ NamesInv'
  BY PoolStep, NamesStep
<1>3. NamesInv => ReportedOnce
  BY DEF NamesInv
<1> QED
  BY <1>1, <1>2, <1>3, WorkInductive, PTL DEF Spec

-------------------------------------------------------------------------------
(* Tests with the same only key stay in the order of the list.             *)

LEMMA SameKeySym ==
  ASSUME NEW t, NEW u, SameKey(t, u)
  PROVE  SameKey(u, t)
BY DEF SameKey

(* Two tests are not each before the other.                                *)
LEMMA BeforeOnce ==
  ASSUME NEW t, NEW u, Before(t, u), Before(u, t)
  PROVE  FALSE
<1>1. PICK m, n \in DOMAIN TestList : m < n /\ TestList[m] = t /\ TestList[n] = u
  BY DEF Before
<1>2. PICK i, j \in DOMAIN TestList : i < j /\ TestList[i] = u /\ TestList[j] = t
  BY DEF Before
<1>3. m = j /\ n = i
  BY <1>1, <1>2, TestsAssumption
<1>4. DOMAIN TestList = 1 .. Len(TestList) /\ Len(TestList) \in Nat
  BY TestsAssumption
<1> QED
  BY <1>1, <1>2, <1>3, <1>4

(* Lists whose tests are in order in part.                                 *)
LEMMA AheadLess ==
  ASSUME NEW r, NEW s, Ahead(r, s), NEW q, NEW o,
         Range(q) \subseteq Range(r), Range(o) \subseteq Range(s)
  PROVE  Ahead(q, o)
BY DEF Ahead

LEMMA AscendingAppend ==
  ASSUME NEW S, NEW s \in Seq(S), NEW x \in S, Ascending(s),
         \A t \in Range(s) : SameKey(t, x) => Before(t, x)
  PROVE  Ascending(Append(s, x))
<1> DEFINE L == Len(s)
           r == Append(s, x)
<1>1. /\ DOMAIN s = 1 .. L /\ L \in Nat /\ DOMAIN r = 1 .. L + 1
      /\ \A n \in 1 .. L : r[n] = s[n]
      /\ r[L + 1] = x
  OBVIOUS
<1> HIDE DEF L, r
<1>2. ASSUME NEW m \in DOMAIN r, NEW n \in DOMAIN r, m < n, SameKey(r[m], r[n])
      PROVE  Before(r[m], r[n])
  <2>1. m \in 1 .. L /\ (n \in 1 .. L \/ n = L + 1)
    BY <1>1, <1>2
  <2>2. r[m] = s[m] /\ s[m] \in Range(s)
    BY <1>1, <2>1 DEF Range
  <2>3. CASE n \in 1 .. L
    BY <1>1, <1>2, <2>1, <2>2, <2>3 DEF Ascending
  <2>4. CASE n = L + 1
    BY <1>1, <1>2, <2>2, <2>4
  <2> QED
    BY <2>1, <2>3, <2>4
<1> QED
  BY <1>2 DEF Ascending, r

LEMMA AscendingTail ==
  ASSUME NEW S, NEW s \in Seq(S), s # <<>>, Ascending(s)
  PROVE  /\ Ascending(Tail(s))
         /\ \A t \in Range(Tail(s)) : SameKey(Head(s), t) => Before(Head(s), t)
<1> DEFINE L == Len(s)
           r == Tail(s)
<1>1. /\ r \in Seq(S) /\ Len(r) = L - 1 /\ Head(s) = s[1]
      /\ \A n \in 1 .. L - 1 : r[n] = s[n + 1]
  BY HeadType
<1>2. DOMAIN s = 1 .. L /\ L \in Nat \ {0}
  BY EmptySeq
<1>3. DOMAIN r = 1 .. L - 1
  <2>1. DOMAIN r = 1 .. Len(r)
    BY <1>1
  <2> QED
    BY <1>1, <2>1
<1> HIDE DEF L, r
<1>4. /\ \A n \in 1 .. L - 1 : n + 1 \in DOMAIN s /\ 1 < n + 1 /\ r[n] = s[n + 1]
      /\ \A m, n \in 1 .. L - 1 : m < n => m + 1 < n + 1
      /\ 1 \in DOMAIN s
  BY <1>1, <1>2
<1>5. Ascending(r)
  <2> SUFFICES ASSUME NEW m \in 1 .. L - 1, NEW n \in 1 .. L - 1, m < n, SameKey(r[m], r[n])
               PROVE  Before(r[m], r[n])
    BY <1>3 DEF Ascending
  <2>1. m + 1 < n + 1 /\ m + 1 \in DOMAIN s /\ n + 1 \in DOMAIN s
        /\ r[m] = s[m + 1] /\ r[n] = s[n + 1]
    BY <1>4
  <2> QED
    BY <2>1, Zenon DEF Ascending
<1>6. ASSUME NEW n \in DOMAIN r, SameKey(Head(s), r[n])
      PROVE  Before(Head(s), r[n])
  <2>1. 1 < n + 1 /\ 1 \in DOMAIN s /\ n + 1 \in DOMAIN s /\ r[n] = s[n + 1]
    BY <1>3, <1>4
  <2> QED
    BY <1>1, <1>6, <2>1, Zenon DEF Ascending
<1> QED
  BY <1>5, <1>6 DEF r, Range

(* array_reverse turns the order around.                                   *)
LEMMA ReverseOrder ==
  ASSUME NEW S, NEW s \in Seq(S), Ascending(s)
  PROVE  Descending(Reverse(s))
<1> DEFINE L == Len(s)
           r == Reverse(s)
<1>1. DOMAIN s = 1 .. L /\ L \in Nat /\ DOMAIN r = 1 .. L
  BY DEF Reverse
<1>2. \A n \in 1 .. L : r[n] = s[L - n + 1]
  BY <1>1 DEF Reverse
<1> HIDE DEF L, r
<1>3. \A m, n \in 1 .. L : m < n => L - n + 1 < L - m + 1 /\ L - n + 1 \in 1 .. L
                                    /\ L - m + 1 \in 1 .. L
  BY <1>1
<1>4. ASSUME NEW m \in DOMAIN r, NEW n \in DOMAIN r, m < n, SameKey(r[m], r[n])
      PROVE  Before(r[n], r[m])
  <2>1. /\ L - n + 1 < L - m + 1 /\ L - n + 1 \in DOMAIN s /\ L - m + 1 \in DOMAIN s
        /\ r[m] = s[L - m + 1] /\ r[n] = s[L - n + 1] /\ SameKey(r[n], r[m])
    BY <1>1, <1>2, <1>3, <1>4, SameKeySym
  <2> QED
    BY <2>1, Zenon DEF Ascending
<1> QED
  BY <1>4 DEF Descending, r

LEMMA DescendingConcat ==
  ASSUME NEW S, NEW s \in Seq(S), NEW r \in Seq(S), Descending(s), Descending(r), Ahead(r, s)
  PROVE  Descending(s \o r)
<1> DEFINE K == Len(s)
           L == Len(r)
           o == s \o r
<1>1. /\ DOMAIN s = 1 .. K /\ DOMAIN r = 1 .. L
      /\ K \in Nat /\ L \in Nat /\ DOMAIN o = 1 .. K + L
  OBVIOUS
<1>2. /\ \A n \in 1 .. K : o[n] = s[n]
      /\ \A n \in 1 .. K + L : n > K => n - K \in 1 .. L /\ o[n] = r[n - K]
  BY <1>1
<1> HIDE DEF K, L, o
<1>3. ASSUME NEW m \in DOMAIN o, NEW n \in DOMAIN o, m < n, SameKey(o[m], o[n])
      PROVE  Before(o[n], o[m])
  <2>1. m \in 1 .. K \/ m > K
    BY <1>1
  <2>2. n \in 1 .. K \/ n > K
    BY <1>1
  <2>3. CASE m \in 1 .. K /\ n \in 1 .. K
    BY <1>1, <1>2, <1>3, <2>3 DEF Descending
  <2>4. CASE m \in 1 .. K /\ n > K
    <3>1. o[m] \in Range(s) /\ o[n] \in Range(r)
      BY <1>1, <1>2, <2>4 DEF Range
    <3> QED
      BY <1>3, <3>1, SameKeySym DEF Ahead
  <2>5. CASE m > K /\ n > K
    <3>1. m - K < n - K /\ m - K \in DOMAIN r /\ n - K \in DOMAIN r
          /\ o[m] = r[m - K] /\ o[n] = r[n - K]
      BY <1>1, <1>2, <1>3, <2>5
    <3> QED
      BY <1>3, <3>1, Zenon DEF Descending
  <2>6. ~(m > K /\ n \in 1 .. K)
    BY <1>1, <1>3
  <2> QED
    BY <2>1, <2>2, <2>3, <2>4, <2>5, <2>6
<1> QED
  BY <1>3 DEF Descending, o

(* The test that is popped is before those that stay.                      *)
LEMMA DescendingFront ==
  ASSUME NEW S, NEW s \in Seq(S), s # <<>>, Descending(s)
  PROVE  /\ Descending(Front(s))
         /\ \A t \in Range(Front(s)) : SameKey(Last(s), t) => Before(Last(s), t)
<1> DEFINE L == Len(s)
           r == Front(s)
<1>1. /\ Len(r) = L - 1 /\ r \in Seq(S)
      /\ \A n \in 1 .. L - 1 : r[n] = s[n]
      /\ Last(s) = s[L]
  BY FrontLastType
<1>2. DOMAIN s = 1 .. L /\ L \in Nat \ {0}
  BY EmptySeq
<1>3. DOMAIN r = 1 .. L - 1
  <2>1. DOMAIN r = 1 .. Len(r)
    BY <1>1
  <2> QED
    BY <1>1, <2>1
<1> HIDE DEF L, r
<1>4. L \in DOMAIN s /\ \A n \in DOMAIN r : n \in DOMAIN s /\ n < L /\ r[n] = s[n]
  BY <1>1, <1>2, <1>3
<1>5. Descending(r)
  BY <1>4 DEF Descending
<1>6. ASSUME NEW n \in DOMAIN r, SameKey(Last(s), r[n])
      PROVE  Before(Last(s), r[n])
  <2>1. SameKey(r[n], Last(s))
    BY <1>6, SameKeySym
  <2> QED
    BY <1>1, <1>4, <2>1 DEF Descending
<1> QED
  BY <1>5, <1>6 DEF r, Range

(* Tests with the same only key are behind the same key.                   *)
LEMMA SameKeyOne ==
  ASSUME NEW t, NEW u, SameKey(t, u), NEW j \in Keys(t), NEW k \in Keys(u)
  PROVE  j = k /\ ~Sequential(t) /\ ~Sequential(u)
BY DEF SameKey, Sequential

(* Every step that moves tests between the queues keeps them in order.     *)
LEMMA QueuesInOrder ==
  ASSUME RunInv, ~Shuffle, QueuesOrdered, QueuesByKey,
         \/ ReadConflicts \/ OrderTests \/ (\E k \in Key : Release(k))
         \/ ReadReady \/ FallThrough \/ PopFree \/ PopBlocked
  PROVE  QueuesOrdered' /\ QueuesByKey'
<1> USE DEF RunInv, IndInv
<1>1. /\ unread \in Seq(Test) /\ test_files \in Seq(Test)
      /\ sequentialTests \in Seq(Test) /\ files \in Seq(Test)
      /\ \A k \in Key : waitingTests[k] \in Seq(Test)
  BY DEF TypeOK
<1>2. Range(<<>>) = {} /\ Ascending(<<>>) /\ Descending(<<>>)
  BY DEF Range, Ascending, Descending
<1>3. CASE ReadConflicts
  <2>1. /\ unread # <<>> /\ unread' = Tail(unread) /\ pc = "classify" /\ pc' = pc
        /\ UNCHANGED waitingTests
    BY <1>3 DEF ReadConflicts
  <2>2. /\ Range(unread) = {Head(unread)} \cup Range(unread') /\ Head(unread) \in Test
        /\ Ascending(unread')
        /\ \A t \in Range(unread') : SameKey(Head(unread), t) => Before(Head(unread), t)
    BY <1>1, <2>1, RangeHeadTail, AscendingTail, HeadType DEF QueuesOrdered
  <2>3. CASE Sequential(Head(unread))
    <3>1. sequentialTests' = Append(sequentialTests, Head(unread)) /\ UNCHANGED test_files
      BY <1>3, <2>3 DEF ReadConflicts
    <3>2. Range(sequentialTests') = Range(sequentialTests) \cup {Head(unread)}
      BY <1>1, <2>2, <3>1, RangeAppend
    <3>3. QueuesByKey'
      BY <2>1, <2>3, <3>2 DEF QueuesByKey
    <3>4. /\ Ahead(test_files, unread')
          /\ \A k \in Key : Ahead(waitingTests[k], unread')
      BY <2>2, AheadLess DEF QueuesOrdered
    <3> QED
      BY <2>1, <2>2, <3>1, <3>3, <3>4 DEF QueuesOrdered
  <2>4. CASE ~Sequential(Head(unread))
    <3>1. test_files' = Append(test_files, Head(unread)) /\ UNCHANGED sequentialTests
      BY <1>3, <2>4 DEF ReadConflicts
    <3>2. Range(test_files') = Range(test_files) \cup {Head(unread)}
      BY <1>1, <2>2, <3>1, RangeAppend
    <3>3. Ascending(test_files')
      <4>1. \A t \in Range(test_files) : SameKey(t, Head(unread)) => Before(t, Head(unread))
        BY <2>2 DEF QueuesOrdered, Ahead
      <4> QED
        BY <1>1, <2>1, <2>2, <3>1, <4>1, AscendingAppend DEF QueuesOrdered
    <3>4. Ahead(test_files', unread')
      BY <2>2, <3>2 DEF QueuesOrdered, Ahead
    <3>5. \A k \in Key : /\ Ahead(waitingTests[k], unread')
                         /\ Ahead(waitingTests[k], test_files')
      BY <2>2, <3>2 DEF QueuesOrdered, Ahead
    <3>6. \A k \in Key : Ascending(waitingTests[k])
      BY DEF QueuesOrdered
    <3>7. QueuesByKey'
      BY <2>1, <3>1 DEF QueuesByKey
    <3> QED
      BY <2>1, <2>2, <3>3, <3>4, <3>5, <3>6, <3>7 DEF QueuesOrdered
  <2> QED
    BY <2>3, <2>4
<1>4. CASE OrderTests
  <2>1. /\ pc = "classify" /\ pc' = "spawn" /\ test_files' = Reverse(test_files)
        /\ UNCHANGED <<unread, waitingTests, sequentialTests>>
    BY <1>4 DEF OrderTests, queues
  <2>2. Range(test_files') = Range(test_files) /\ Descending(test_files')
    BY <1>1, <2>1, RangeReverse, ReverseOrder DEF QueuesOrdered
  <2>3. QueuesByKey'
    BY <2>1 DEF QueuesByKey
  <2>4. Ahead(test_files', unread) /\ \A k \in Key : Ahead(waitingTests[k], test_files')
    BY <2>2, AheadLess DEF QueuesOrdered
  <2> QED
    BY <2>1, <2>2, <2>3, <2>4 DEF QueuesOrdered
<1>5. CASE \E k \in Key : Release(k)
  <2>1. PICK k \in Key : Release(k)
    BY <1>5
  <2>2. /\ test_files' = test_files \o Reverse(waitingTests[k])
        /\ waitingTests' = [waitingTests EXCEPT ![k] = <<>>]
        /\ pc = "release" /\ UNCHANGED <<pc, unread, sequentialTests>>
    BY <2>1 DEF Release, PopAll
  <2>3. /\ Reverse(waitingTests[k]) \in Seq(Test)
        /\ Range(Reverse(waitingTests[k])) = Range(waitingTests[k])
        /\ Descending(Reverse(waitingTests[k]))
    BY <1>1, ReverseType, RangeReverse, ReverseOrder DEF QueuesOrdered
  <2>4. Range(test_files') = Range(test_files) \cup Range(waitingTests[k])
    BY <1>1, <2>2, <2>3, RangeConcat
  <2>5. Descending(test_files')
    <3>1. Ahead(Reverse(waitingTests[k]), test_files)
      BY <2>3, AheadLess DEF QueuesOrdered
    <3>2. Descending(test_files)
      BY <2>2 DEF QueuesOrdered
    <3> QED
      BY <1>1, <2>2, <2>3, <3>1, <3>2, DescendingConcat
  <2>6. /\ waitingTests'[k] = <<>> /\ Range(waitingTests'[k]) = {}
        /\ \A j \in Key \ {k} : waitingTests'[j] = waitingTests[j]
    BY <1>2, <2>2 DEF TypeOK
  <2>7. ASSUME NEW j \in Key
        PROVE  /\ Ascending(waitingTests'[j]) /\ Ahead(waitingTests'[j], unread)
               /\ Ahead(waitingTests'[j], test_files')
               /\ \A t \in Range(waitingTests'[j]) : j \in Keys(t)
    <3>1. CASE j = k
      BY <1>2, <2>6, <3>1 DEF Ahead
    <3>2. CASE j # k
      <4>1. waitingTests'[j] = waitingTests[j]
        BY <2>6, <3>2
      <4>2. \A t \in Range(waitingTests[j]) : j \in Keys(t)
        BY DEF QueuesByKey
      <4>3. \A t \in Range(waitingTests[k]) : k \in Keys(t)
        BY DEF QueuesByKey
      <4>4. Ahead(waitingTests[j], test_files')
        <5> SUFFICES ASSUME NEW t \in Range(waitingTests[j]), NEW u \in Range(test_files'),
                            SameKey(t, u)
                     PROVE  Before(t, u)
          BY DEF Ahead
        <5>1. CASE u \in Range(test_files)
          BY <5>1 DEF QueuesOrdered, Ahead
        <5>2. CASE u \in Range(waitingTests[k])
          BY <3>2, <4>2, <4>3, <5>2, SameKeyOne
        <5> QED
          BY <2>4, <5>1, <5>2
      <4> QED
        BY <4>1, <4>2, <4>4 DEF QueuesOrdered
    <3> QED
      BY <3>1, <3>2
  <2>8. Ahead(test_files', unread')
    BY <2>2, <2>4 DEF QueuesOrdered, Ahead
  <2>9. Ascending(unread)
    BY DEF QueuesOrdered
  <2>10. QueuesByKey'
    BY <2>2, <2>7 DEF QueuesByKey
  <2> QED
    BY <2>2, <2>5, <2>7, <2>8, <2>9, <2>10 DEF QueuesOrdered
<1>6. CASE ReadReady \/ FallThrough
  <2>1. StartBatch /\ pc # "classify" /\ pc' = "batch" /\ files' = <<>>
    BY <1>6 DEF ReadReady, FallThrough, Reading, StartBatch
  <2>2. UNCHANGED <<unread, waitingTests>>
    BY <2>1 DEF StartBatch
  <2>3. /\ Descending(test_files')
        /\ \A t \in Range(test_files') : t \in Range(test_files) \/ Sequential(t)
        /\ Range(sequentialTests') \subseteq Range(sequentialTests)
    <3>1. CASE OneWorkerLeft
      <4>1. test_files' = test_files \o sequentialTests /\ sequentialTests' = <<>>
        BY <2>1, <3>1 DEF StartBatch
      <4>2. Range(test_files') = Range(test_files) \cup Range(sequentialTests)
        BY <1>1, <4>1, RangeConcat
      <4>3. \A t \in Range(sequentialTests) : Sequential(t)
        BY DEF QueuesByKey
      <4>4. ASSUME NEW t, NEW u \in Range(sequentialTests), SameKey(t, u) \/ SameKey(u, t)
            PROVE  FALSE
        BY <4>3, <4>4 DEF SameKey, Sequential
      <4>5. Ahead(sequentialTests, test_files)
        BY <4>4 DEF Ahead
      <4>6. Descending(sequentialTests)
        BY <4>4 DEF Descending, Range
      <4>7. Descending(test_files)
        BY <2>1 DEF QueuesOrdered
      <4> QED
        BY <1>1, <1>2, <4>1, <4>2, <4>3, <4>5, <4>6, <4>7, DescendingConcat
    <3>2. CASE ~OneWorkerLeft
      BY <2>1, <3>2 DEF StartBatch, QueuesOrdered
    <3> QED
      BY <3>1, <3>2
  <2>4. \A t, u : SameKey(t, u) => ~Sequential(t) /\ ~Sequential(u)
    BY DEF SameKey, Sequential
  <2>5. Ahead(test_files', unread)
    BY <2>3, <2>4 DEF QueuesOrdered, Ahead
  <2>6. \A k \in Key : Ahead(waitingTests[k], test_files')
    BY <2>3, <2>4 DEF QueuesOrdered, Ahead
  <2>7. Ahead(files', test_files')
    BY <1>2, <2>1 DEF Ahead
  <2>8. QueuesByKey'
    BY <2>2, <2>3 DEF QueuesByKey
  <2> QED
    BY <2>1, <2>2, <2>3, <2>5, <2>6, <2>7, <2>8 DEF QueuesOrdered
<1>7. CASE PopFree \/ PopBlocked
  <2>1. /\ test_files # <<>> /\ test_files' = Front(test_files) /\ pc = "batch"
        /\ UNCHANGED <<pc, unread, sequentialTests>>
    BY <1>7 DEF PopFree, PopBlocked, MorePops
  <2>2. /\ Range(test_files) = Range(test_files') \cup {Last(test_files)}
        /\ Last(test_files) \in Test /\ Last(test_files) \in Range(test_files)
        /\ Descending(test_files')
        /\ \A t \in Range(test_files') :
             SameKey(Last(test_files), t) => Before(Last(test_files), t)
    BY <1>1, <2>1, RangeFrontLast, DescendingFront, FrontLastType DEF QueuesOrdered
  <2>3. /\ Ahead(test_files', unread') /\ Ascending(unread')
        /\ \A k \in Key : Ahead(waitingTests[k], test_files')
        /\ Ahead(files, test_files')
    BY <2>1, <2>2, AheadLess DEF QueuesOrdered
  <2>4. CASE PopFree
    <3>1. files' = Append(files, Last(test_files)) /\ UNCHANGED waitingTests
      BY <2>4 DEF PopFree
    <3>2. Range(files') = Range(files) \cup {Last(test_files)}
      BY <1>1, <2>2, <3>1, RangeAppend
    <3>3. Ahead(files', test_files')
      BY <2>2, <2>3, <3>2 DEF Ahead
    <3>4. \A k \in Key : Ascending(waitingTests[k]) /\ Ahead(waitingTests[k], unread)
      BY DEF QueuesOrdered
    <3>5. QueuesByKey'
      BY <2>1, <3>1 DEF QueuesByKey
    <3> QED
      BY <2>1, <2>2, <2>3, <3>1, <3>3, <3>4, <3>5 DEF QueuesOrdered
  <2>5. CASE PopBlocked
    <3>1. PICK k \in Keys(Last(test_files)) :
            waitingTests' = [waitingTests EXCEPT ![k] = Append(@, Last(test_files))]
      <4>1. PICK n \in InUse(Last(test_files)) :
              waitingTests' = [waitingTests EXCEPT ![fileConflictsWith[Last(test_files)][n]]
                                 = Append(@, Last(test_files))]
        BY <2>5 DEF PopBlocked
      <4>2. fileConflictsWith[Last(test_files)][n] \in Keys(Last(test_files))
        BY DEF InUse, Keys, Range
      <4> QED
        BY <4>1, <4>2
    <3>2. k \in Key
      BY <2>2, TestsAssumption DEF Keys, Range
    <3>3. /\ waitingTests'[k] = Append(waitingTests[k], Last(test_files))
          /\ \A j \in Key \ {k} : waitingTests'[j] = waitingTests[j]
      BY <3>1, <3>2 DEF TypeOK
    <3>4. Range(waitingTests'[k]) = Range(waitingTests[k]) \cup {Last(test_files)}
      BY <1>1, <2>2, <3>2, <3>3, RangeAppend
    <3>5. Ascending(waitingTests'[k])
      <4>1. \A t \in Range(waitingTests[k]) :
              SameKey(t, Last(test_files)) => Before(t, Last(test_files))
        BY <2>2, <3>2 DEF QueuesOrdered, Ahead
      <4> QED
        BY <1>1, <2>2, <3>2, <3>3, <4>1, AscendingAppend DEF QueuesOrdered
    <3>6. ASSUME NEW j \in Key
          PROVE  /\ Ascending(waitingTests'[j]) /\ Ahead(waitingTests'[j], unread)
                 /\ Ahead(waitingTests'[j], test_files')
                 /\ \A t \in Range(waitingTests'[j]) : j \in Keys(t)
      <4>1. CASE j = k
        <5>1. Ahead(waitingTests'[k], unread)
          BY <2>2, <3>2, <3>4 DEF QueuesOrdered, Ahead
        <5>2. Ahead(waitingTests'[k], test_files')
          BY <2>2, <2>3, <3>2, <3>4 DEF Ahead
        <5> QED
          BY <3>1, <3>2, <3>4, <3>5, <4>1, <5>1, <5>2 DEF QueuesByKey
      <4>2. CASE j # k
        BY <2>3, <3>3, <4>2 DEF QueuesOrdered, QueuesByKey
      <4> QED
        BY <4>1, <4>2
    <3>7. files' = files
      BY <2>5 DEF PopBlocked
    <3>8. QueuesByKey'
      BY <2>1, <3>6 DEF QueuesByKey
    <3> QED
      BY <2>1, <2>2, <2>3, <3>6, <3>7, <3>8 DEF QueuesOrdered
  <2> QED
    BY <1>7, <2>4, <2>5
<1> QED
  BY <1>3, <1>4, <1>5, <1>6, <1>7

(* All other steps leave the order alone.                                  *)
LEMMA OrderAlone ==
  ASSUME [Next]_vars, QueuesOrdered, QueuesByKey, ~ReadConflicts, ~OrderTests,
         ~(\E k \in Key : Release(k)), ~ReadReady, ~FallThrough, ~PopFree, ~PopBlocked
  PROVE  QueuesOrdered' /\ QueuesByKey'
<1>1. /\ UNCHANGED <<unread, test_files, sequentialTests, waitingTests>>
      /\ \/ UNCHANGED <<pc, files>>
         \/ pc # "classify" /\ pc' \notin {"classify", "batch"}
  <2>1. CASE ~Parent
    BY <2>1, WorkerFrame DEF parentVars
  <2>2. CASE Parent
    <3>1. CASE SpawnFails \/ AcceptFails \/ ReplyFails \/ Finish \/ ReadPhpError
               \/ \E w \in Worker : TakeSocket(w)
      BY <3>1 DEF SpawnFails, AcceptFails, ReplyFails, Finish, ReadPhpError, TakeSocket, Abort,
         Reading, queues
    <3>2. CASE Spawn \/ (\E w \in Worker : Accept(w)) \/ ReadReply \/ Select \/ Drained
               \/ ReadResult \/ ReadFinished \/ Dispatch \/ Retire
      BY <3>2 DEF Spawn, Accept, ReadReply, Select, Drained, ReadResult, ReadFinished, Dispatch,
         Retire, Reading, queues
    <3> QED
      BY <2>2, <3>1, <3>2 DEF Parent
  <2> QED
    BY <2>1, <2>2
<1> QED
  BY <1>1 DEF QueuesOrdered, QueuesByKey

(* The tests of a batch are handed out in order: none that is before one   *)
(* of them and has the same only key is left in a queue.                   *)
LEMMA DispatchInOrder ==
  ASSUME RunInv, KeptOnce, QueuesOrdered, QueuesByKey, SameKeyInOrder, Dispatch
  PROVE  SameKeyInOrder'
<1> USE DEF RunInv, IndInv
<1>1. Pending' = Pending \ Range(files) /\ Range(files) \subseteq Pending
  BY DispatchTakes
<1>2. pc = "batch" /\ unread = <<>>
  BY DEF Dispatch, WorkInv, QueuesDrained
<1>3. ASSUME NEW t \in Pending \ Range(files), NEW u \in Range(files),
             SameKey(t, u), Before(t, u)
      PROVE  FALSE
  <2>1. PICK k \in Key \ {All} : Keys(t) = {k} /\ Keys(u) = {k}
    BY <1>3 DEF SameKey
  <2>2. t \notin Range(test_files)
    <3>1. Ahead(files, test_files)
      BY <1>2 DEF QueuesOrdered
    <3> QED
      BY <1>3, <3>1, SameKeySym, BeforeOnce DEF Ahead
  <2>3. t \notin Range(sequentialTests)
    BY <2>1 DEF QueuesByKey, Sequential
  <2>4. ASSUME NEW j \in Key, t \in Range(waitingTests[j])
        PROVE  FALSE
    <3>1. j = k
      BY <2>1, <2>4 DEF QueuesByKey
    <3>2. k \in DOMAIN activeConflicts
      BY <2>4, <3>1 DEF WorkInv, WaitingForUsed, Range
    <3>3. k \notin DOMAIN activeConflicts
      BY <1>2, <2>1 DEF LeaseInv, BatchFree, Range
    <3> QED
      BY <3>2, <3>3
  <2>5. t \notin Range(unread)
    BY <1>2 DEF Range
  <2> QED
    BY <1>2, <2>2, <2>3, <2>4, <2>5 DEF Pending
<1>4. ASSUME NEW m \in DOMAIN TestList, NEW n \in DOMAIN TestList, m < n,
             \E k \in Key \ {All} : Keys(TestList[m]) = {k} /\ Keys(TestList[n]) = {k},
             TestList[m] \in Pending', TestList[n] \notin Pending'
      PROVE  FALSE
  <2>1. SameKey(TestList[m], TestList[n]) /\ Before(TestList[m], TestList[n])
    BY <1>4 DEF SameKey, Before
  <2>2. TestList[n] \in Pending
    BY <1>1, <1>4 DEF SameKeyInOrder
  <2> QED
    BY <1>1, <1>3, <1>4, <2>1, <2>2
<1> QED
  BY <1>4 DEF SameKeyInOrder

LEMMA OrderInit == Init => OrderInv
<1> SUFFICES ASSUME Init PROVE OrderInv
  OBVIOUS
<1>1. Range(<<>>) = {} /\ Ascending(<<>>)
  BY DEF Range, Ascending
<1>2. /\ unread = TestList /\ test_files = <<>> /\ sequentialTests = <<>> /\ pc = "classify"
      /\ \A k \in Key : waitingTests[k] = <<>>
  BY DEF Init
<1>3. Ascending(TestList)
  BY DEF Ascending, Before
<1>4. QueuesOrdered /\ QueuesByKey
  BY <1>1, <1>2, <1>3 DEF QueuesOrdered, QueuesByKey, Ahead
<1>5. \A n \in DOMAIN TestList : TestList[n] \in Pending
  BY <1>2 DEF Pending, Range
<1> QED
  BY <1>4, <1>5 DEF OrderInv, SameKeyInOrder

LEMMA OrderStep ==
  ASSUME RunInv, KeptOnce, ~Shuffle, OrderInv, [Next]_vars
  PROVE  OrderInv'
<1>1. QueuesOrdered' /\ QueuesByKey'
  BY QueuesInOrder, OrderAlone DEF OrderInv
<1>2. SameKeyInOrder'
  <2>1. CASE Dispatch
    BY <2>1, DispatchInOrder DEF OrderInv
  <2>2. CASE ~Dispatch
    <3>1. Pending' = Pending
      BY <2>2, QueuesMove, QueuesAlone DEF RunInv, IndInv
    <3> QED
      BY <3>1 DEF OrderInv, SameKeyInOrder
  <2> QED
    BY <2>1, <2>2
<1> QED
  BY <1>1, <1>2 DEF OrderInv

(* Without --shuffle, tests whose only key is the same one are handed out  *)
(* in the order of the list, whatever waits and is released in between.    *)
THEOREM StartedInOrder == ASSUME ~Shuffle PROVE Spec => []SameKeyInOrder
<1>1. Init => KeptOnce /\ OrderInv
  BY PoolInit, OrderInit
<1>2. RunInv /\ RunInv' /\ KeptOnce /\ OrderInv /\ [Next]_vars => KeptOnce' /\ OrderInv'
  BY PoolStep, OrderStep
<1>3. OrderInv => SameKeyInOrder
  BY DEF OrderInv
<1> QED
  BY <1>1, <1>2, <1>3, WorkInductive, PTL DEF Spec

-------------------------------------------------------------------------------
(* The parent never waits for nobody: what is said is kept until it is     *)
(* heard.                                                                  *)

(* A message put on the connection to the parent is sent, and leaves the   *)
(* others sent.                                                            *)
LEMMA SentMore ==
  ASSUME TypeOK, NEW v \in Worker, NEW msg \in ToParentMsg, SendParent(v, msg),
         NEW w \in Worker, NEW type
  PROVE  /\ Sent(w, type) => Sent(w, type)'
         /\ Sent(v, msg.type)'
         /\ Sent(w, type)' => Sent(w, type) \/ (w = v /\ type = msg.type)
<1>1. /\ \A u \in Worker \ {v} : toParent'[u] = toParent[u]
      /\ DOMAIN toParent'[v] = 1 .. Len(toParent[v]) + 1
      /\ DOMAIN toParent[v] = 1 .. Len(toParent[v])
      /\ Len(toParent[v]) \in Nat
      /\ \A n \in 1 .. Len(toParent[v]) : toParent'[v][n] = toParent[v][n]
      /\ toParent'[v][Len(toParent[v]) + 1] = msg
  BY SentAppend
<1>2. /\ Len(toParent[v]) + 1 \in DOMAIN toParent'[v]
      /\ \A n \in DOMAIN toParent[v] : n \in DOMAIN toParent'[v]
      /\ \A n \in DOMAIN toParent'[v] : n \in DOMAIN toParent[v] \/ n = Len(toParent[v]) + 1
  BY <1>1
<1>3. CASE w = v
  BY <1>1, <1>2, <1>3 DEF Sent
<1>4. CASE w # v
  BY <1>1, <1>2, <1>4 DEF Sent
<1> QED
  BY <1>3, <1>4

(* Taking a message leaves those of other types.                           *)
LEMMA SentRest ==
  ASSUME TypeOK, reading \in Worker, toParent[reading] # <<>>, TakeMessage,
         NEW w \in Worker, NEW type, Sent(w, type),
         w = reading => Head(toParent[reading]).type # type
  PROVE  Sent(w, type)'
<1>1. /\ \A v \in Worker \ {reading} : toParent'[v] = toParent[v]
      /\ DOMAIN toParent'[reading] = 1 .. Len(toParent[reading]) - 1
      /\ DOMAIN toParent[reading] = 1 .. Len(toParent[reading])
      /\ Len(toParent[reading]) \in Nat \ {0}
      /\ \A n \in 1 .. Len(toParent[reading]) - 1 :
           toParent'[reading][n] = toParent[reading][n + 1]
      /\ Head(toParent[reading]) = toParent[reading][1]
  BY SentTail
<1>2. CASE w # reading
  BY <1>1, <1>2 DEF Sent
<1>3. CASE w = reading
  <2>1. PICK n \in DOMAIN toParent[reading] : toParent[reading][n].type = type
    BY <1>3 DEF Sent
  <2>2. n # 1
    BY <1>1, <1>3, <2>1
  <2>3. n - 1 \in DOMAIN toParent'[reading] /\ (n - 1) + 1 = n
    BY <1>1, <2>1, <2>2
  <2>4. toParent'[reading][n - 1] = toParent[reading][n]
    BY <1>1, <2>3
  <2> QED
    BY <1>3, <2>1, <2>3, <2>4 DEF Sent
<1> QED
  BY <1>2, <1>3

(* What a worker has said in a step, and that it takes nothing back.       *)
LEMMA Says ==
  ASSUME TypeOK, NEW v \in Worker, Work(v) \/ ReportPhpError(v) \/ Crash(v)
  PROVE  \/ UNCHANGED toParent
         \/ Greet(v)
         \/ \E msg \in ToParentMsg :
              /\ SendParent(v, msg)
              /\ msg.type \in {"test_result", "tests_finished", "php_error"}
              /\ ~Greet(v)
              /\ wpc[v] \in {"greeted", "running"}
              /\ FinishBatch(v) => msg.type = "tests_finished"
<1>1. CASE RunTest(v)
  <2>1. Head(todo[v]) \in Test
    BY <1>1, HeadType DEF RunTest, TypeOK
  <2>2. [type |-> "test_result", name |-> Head(todo[v])] \in ToParentMsg
    BY <2>1 DEF ToParentMsg
  <2>3. ~Greet(v) /\ ~FinishBatch(v)
    BY <1>1 DEF RunTest, Greet, FinishBatch, WorkerStep
  <2> QED
    BY <1>1, <2>2, <2>3 DEF RunTest
<1>2. CASE FinishBatch(v)
  <2>1. [type |-> "tests_finished"] \in ToParentMsg /\ ~Greet(v) /\ wpc[v] = "running"
    BY <1>2 DEF ToParentMsg, Greet, FinishBatch, WorkerStep
  <2> QED
    BY <1>2, <2>1 DEF FinishBatch
<1>3. CASE ReportPhpError(v)
  <2>1. [type |-> "php_error"] \in ToParentMsg /\ wpc[v] \in {"greeted", "running"}
    BY <1>3 DEF ToParentMsg, ReportPhpError
  <2>2. wpc' = wpc
    BY <1>3 DEF ReportPhpError
  <2>3. ~Greet(v) /\ ~FinishBatch(v)
    BY <2>2 DEF Greet, FinishBatch, WorkerStep, TypeOK
  <2> QED
    BY <1>3, <2>1, <2>3 DEF ReportPhpError
<1>4. CASE Greet(v)
  BY <1>4
<1>5. CASE ~RunTest(v) /\ ~FinishBatch(v) /\ ~ReportPhpError(v) /\ ~Greet(v)
  BY <1>5 DEF Work, Connect, ReadGreeting, TakeBatch, Redirect, HangUp, Terminate, Crash
<1> QED
  BY <1>1, <1>2, <1>3, <1>4, <1>5

(* A list with two more at its end.                                        *)
LEMMA TwoMore ==
  ASSUME NEW S, NEW s \in Seq(S), NEW x \in S, NEW y \in S
  PROVE  /\ DOMAIN s = 1 .. Len(s) /\ Len(s) \in Nat
         /\ DOMAIN (s \o <<x, y>>) = 1 .. Len(s) + 2
         /\ \A n \in 1 .. Len(s) : (s \o <<x, y>>)[n] = s[n]
         /\ (s \o <<x, y>>)[Len(s) + 1] = x
         /\ (s \o <<x, y>>)[Len(s) + 2] = y
<1>1. <<x, y>> \in Seq(S) /\ Len(<<x, y>>) = 2
  OBVIOUS
<1>2. /\ s \o <<x, y>> \in Seq(S)
      /\ Len(s \o <<x, y>>) = Len(s) + 2
      /\ \A n \in 1 .. Len(s) + 2 : (s \o <<x, y>>)[n] =
            IF n <= Len(s) THEN s[n] ELSE <<x, y>>[n - Len(s)]
  BY <1>1, ConcatProperties
<1>3. PICK L \in Nat : L = Len(s)
  OBVIOUS
<1>4. /\ \A n \in 1 .. L : n \in 1 .. L + 2 /\ n <= L
      /\ L + 1 \in 1 .. L + 2 /\ ~(L + 1 <= L) /\ (L + 1) - L = 1
      /\ L + 2 \in 1 .. L + 2 /\ ~(L + 2 <= L) /\ (L + 2) - L = 2
  OBVIOUS
<1>5. <<x, y>>[1] = x /\ <<x, y>>[2] = y
  OBVIOUS
<1>6. DOMAIN s = 1 .. Len(s) /\ DOMAIN (s \o <<x, y>>) = 1 .. Len(s) + 2
  BY <1>2, LenProperties, Zenon
<1>7. /\ \A n \in 1 .. L : (s \o <<x, y>>)[n] = s[n]
      /\ (s \o <<x, y>>)[L + 1] = <<x, y>>[1]
      /\ (s \o <<x, y>>)[L + 2] = <<x, y>>[2]
  <2> DEFINE c == s \o <<x, y>>
             r == <<x, y>>
  <2>1. \A n \in 1 .. L + 2 : c[n] = IF n <= L THEN s[n] ELSE r[n - L]
    BY <1>2, <1>3
  <2> HIDE DEF c, r
  <2>2. \A n \in 1 .. L : c[n] = s[n]
    BY <1>4, <2>1
  <2>3. c[L + 1] = r[1] /\ c[L + 2] = r[2]
    BY <1>4, <2>1
  <2> QED
    BY <2>2, <2>3 DEF c, r
<1> QED
  BY <1>3, <1>5, <1>6, <1>7

(* What Greet adds.                                                        *)
LEMMA GreetSends ==
  ASSUME TypeOK, NEW v \in Worker, Greet(v)
  PROVE  /\ \A u \in Worker \ {v} : toParent'[u] = toParent[u]
         /\ DOMAIN toParent'[v] = 1 .. Len(toParent[v]) + 2
         /\ DOMAIN toParent[v] = 1 .. Len(toParent[v])
         /\ Len(toParent[v]) \in Nat
         /\ \A n \in 1 .. Len(toParent[v]) : toParent'[v][n] = toParent[v][n]
         /\ toParent'[v][Len(toParent[v]) + 1] = [type |-> "hello_reply"]
         /\ toParent'[v][Len(toParent[v]) + 2] = [type |-> "ready"]
<1>1. /\ toParent[v] \in Seq(ToParentMsg)
      /\ [type |-> "hello_reply"] \in ToParentMsg /\ [type |-> "ready"] \in ToParentMsg
  BY DEF TypeOK, ToParentMsg
<1>2. /\ toParent'[v] = toParent[v] \o <<[type |-> "hello_reply"], [type |-> "ready"]>>
      /\ \A u \in Worker \ {v} : toParent'[u] = toParent[u]
  BY DEF TypeOK, Greet
<1>3. PICK s \in Seq(ToParentMsg) : s = toParent[v]
  BY <1>1
<1>4. PICK x \in ToParentMsg, y \in ToParentMsg :
        x = [type |-> "hello_reply"] /\ y = [type |-> "ready"]
  BY <1>1
<1>5. toParent'[v] = s \o <<x, y>>
  BY <1>2, <1>3, <1>4
<1>6. /\ DOMAIN s = 1 .. Len(s) /\ Len(s) \in Nat
      /\ DOMAIN (s \o <<x, y>>) = 1 .. Len(s) + 2
      /\ \A n \in 1 .. Len(s) : (s \o <<x, y>>)[n] = s[n]
      /\ (s \o <<x, y>>)[Len(s) + 1] = x
      /\ (s \o <<x, y>>)[Len(s) + 2] = y
  BY TwoMore
<1> QED
  BY <1>2, <1>3, <1>4, <1>5, <1>6, Zenon

(* Greet sends the reply and "ready", and takes nothing back.              *)
LEMMA GreetSent ==
  ASSUME TypeOK, NEW v \in Worker, Greet(v), NEW w \in Worker, NEW type
  PROVE  /\ Sent(w, type) => Sent(w, type)'
         /\ Sent(v, "hello_reply")' /\ Sent(v, "ready")'
         /\ Sent(w, type)' => Sent(w, type) \/ (w = v /\ type \in {"hello_reply", "ready"})
<1>1. /\ \A u \in Worker \ {v} : toParent'[u] = toParent[u]
      /\ DOMAIN toParent'[v] = 1 .. Len(toParent[v]) + 2
      /\ DOMAIN toParent[v] = 1 .. Len(toParent[v])
      /\ Len(toParent[v]) \in Nat
      /\ \A n \in 1 .. Len(toParent[v]) : toParent'[v][n] = toParent[v][n]
      /\ toParent'[v][Len(toParent[v]) + 1] = [type |-> "hello_reply"]
      /\ toParent'[v][Len(toParent[v]) + 2] = [type |-> "ready"]
  BY GreetSends
<1>2. /\ Len(toParent[v]) + 1 \in DOMAIN toParent'[v]
      /\ Len(toParent[v]) + 2 \in DOMAIN toParent'[v]
      /\ \A n \in DOMAIN toParent[v] : n \in DOMAIN toParent'[v]
      /\ \A n \in DOMAIN toParent'[v] : \/ n \in DOMAIN toParent[v]
                                        \/ n = Len(toParent[v]) + 1 \/ n = Len(toParent[v]) + 2
  BY <1>1
<1>3. CASE w = v
  <2>1. Sent(w, type) => Sent(w, type)'
    BY <1>1, <1>2, <1>3 DEF Sent
  <2>2. Sent(v, "hello_reply")' /\ Sent(v, "ready")'
    BY <1>1, <1>2, <1>3 DEF Sent
  <2>3. ASSUME NEW n \in DOMAIN toParent'[v], toParent'[v][n].type = type
        PROVE  Sent(w, type) \/ type \in {"hello_reply", "ready"}
    <3>1. CASE n \in DOMAIN toParent[v]
      BY <1>1, <1>3, <2>3, <3>1 DEF Sent
    <3>2. CASE n = Len(toParent[v]) + 1 \/ n = Len(toParent[v]) + 2
      BY <1>1, <2>3, <3>2
    <3> QED
      BY <1>2, <3>1, <3>2
  <2> QED
    BY <1>3, <2>1, <2>2, <2>3 DEF Sent
<1>4. CASE w # v
  <2>1. Sent(v, "hello_reply")' /\ Sent(v, "ready")'
    BY <1>1, <1>2 DEF Sent
  <2> QED
    BY <1>1, <1>4, <2>1 DEF Sent
<1> QED
  BY <1>3, <1>4

(* Workers only add to what they have said: Greet the reply and "ready",   *)
(* and FinishBatch that the batch is over.                                 *)
LEMMA SaysMore ==
  ASSUME TypeOK, NEW v \in Worker, Work(v) \/ ReportPhpError(v) \/ Crash(v),
         NEW w \in Worker
  PROVE  /\ \A type : Sent(w, type) => Sent(w, type)'
         /\ Sent(w, "hello_reply")' => Sent(w, "hello_reply") \/ (w = v /\ Greet(v))
         /\ Sent(w, "ready")' => Sent(w, "ready") \/ (w = v /\ Greet(v))
         /\ FinishBatch(v) => Sent(v, "tests_finished")'
         /\ toParent[w] # <<>> => toParent'[w] # <<>>
<1>1. CASE UNCHANGED toParent
  <2>1. ~FinishBatch(v)
    <3>1. ASSUME FinishBatch(v) PROVE FALSE
      <4>1. SendParent(v, [type |-> "tests_finished"]) /\ [type |-> "tests_finished"] \in ToParentMsg
        BY <3>1 DEF FinishBatch, ToParentMsg
      <4>2. Len(toParent[v]) \in Nat /\ DOMAIN toParent'[v] = 1 .. Len(toParent[v]) + 1
            /\ DOMAIN toParent[v] = 1 .. Len(toParent[v])
        BY <4>1, SentAppend
      <4>3. Len(toParent[v]) + 1 \in DOMAIN toParent'[v] /\ Len(toParent[v]) + 1 \notin DOMAIN toParent[v]
        BY <4>2
      <4> QED
        BY <1>1, <4>3
    <3> QED
      BY <3>1
  <2> QED
    BY <1>1, <2>1 DEF Sent
<1>2. CASE Greet(v)
  <2>1. ~FinishBatch(v)
    BY <1>2 DEF Greet, FinishBatch, WorkerStep
  <2>2. toParent[w] # <<>> => toParent'[w] # <<>>
    <3>1. toParent[w] \in Seq(ToParentMsg)
      BY DEF TypeOK
    <3>2. CASE w = v
      <4>1. 1 \in DOMAIN toParent'[v]
        BY <1>2, GreetSends
      <4> QED
        BY <3>2, <4>1
    <3>3. CASE w # v
      BY <1>2, <3>3, GreetSends
    <3> QED
      BY <3>2, <3>3
  <2>3. \A type : /\ Sent(w, type) => Sent(w, type)'
    BY <1>2, GreetSent
  <2>4. /\ Sent(w, "hello_reply")' => Sent(w, "hello_reply") \/ w = v
        /\ Sent(w, "ready")' => Sent(w, "ready") \/ w = v
    BY <1>2, GreetSent
  <2> QED
    BY <1>2, <2>1, <2>2, <2>3, <2>4
<1>3. ASSUME NEW msg \in ToParentMsg, SendParent(v, msg), ~Greet(v),
             msg.type \in {"test_result", "tests_finished", "php_error"},
             FinishBatch(v) => msg.type = "tests_finished"
      PROVE  /\ \A type : Sent(w, type) => Sent(w, type)'
             /\ Sent(w, "hello_reply")' => Sent(w, "hello_reply") \/ (w = v /\ Greet(v))
             /\ Sent(w, "ready")' => Sent(w, "ready") \/ (w = v /\ Greet(v))
             /\ FinishBatch(v) => Sent(v, "tests_finished")'
             /\ toParent[w] # <<>> => toParent'[w] # <<>>
  <2>1. \A type : /\ Sent(w, type) => Sent(w, type)'
                  /\ Sent(w, type)' => Sent(w, type) \/ (w = v /\ type = msg.type)
    BY <1>3, SentMore
  <2>2. Sent(v, msg.type)'
    BY <1>3, SentMore
  <2>3. toParent[w] # <<>> => toParent'[w] # <<>>
    <3>1. CASE w = v
      <4>1. 1 \in DOMAIN toParent'[v]
        BY <1>3, SentAppend
      <4> QED
        BY <3>1, <4>1
    <3>2. CASE w # v
      BY <1>3, <3>2, SentAppend
    <3> QED
      BY <3>1, <3>2
  <2> QED
    BY <1>3, <2>1, <2>2, <2>3
<1> QED
  BY <1>1, <1>2, <1>3, Says

(* What the parent sends, and to whom.                                     *)
LEMMA Posts ==
  ASSUME Parent, ~(\E v \in Worker : Accept(v)), ~Dispatch
  PROVE  UNCHANGED <<backlog, toWorker>>
BY DEF Parent, ReadConflicts, OrderTests, Spawn, SpawnFails, AcceptFails, ReadReply, ReplyFails,
   Select, TakeSocket, Drained, ReadResult, ReadPhpError, ReadFinished, Release, ReadReady,
   FallThrough, StartBatch, PopFree, PopBlocked, Retire, Finish, Abort

(* Only Connect queues a worker, and only Greet lets it leave its greeting.*)
LEMMA GreetingsParent ==
  ASSUME RunInv, AttendInv, Parent, NEW w \in Worker
  PROVE  /\ Early(w)' => toWorker'[w] = IF wpc'[w] = "waiting" /\ w \notin backlog'
                                          THEN <<[type |-> "hello"]>> ELSE <<>>
         /\ wpc'[w] \in {"idle", "running"} =>
              \A n \in DOMAIN toWorker'[w] : toWorker'[w][n].type = "run_tests"
<1> USE DEF RunInv, IndInv
<1>0. /\ Early(w) => toWorker[w] = IF wpc[w] = "waiting" /\ w \notin backlog
                                     THEN <<[type |-> "hello"]>> ELSE <<>>
      /\ wpc[w] \in {"idle", "running"} =>
           \A n \in DOMAIN toWorker[w] : toWorker[w][n].type = "run_tests"
  BY DEF AttendInv, Greetings
<1>1. ASSUME NEW v \in Worker, Accept(v)
      PROVE  /\ Early(w)' => toWorker'[w] = IF wpc'[w] = "waiting" /\ w \notin backlog'
                                              THEN <<[type |-> "hello"]>> ELSE <<>>
             /\ wpc'[w] \in {"idle", "running"} =>
                  \A n \in DOMAIN toWorker'[w] : toWorker'[w][n].type = "run_tests"
  <2>1. /\ wpc' = wpc /\ backlog' = backlog \ {v} /\ v \in backlog
        /\ toWorker'[v] = Append(toWorker[v], [type |-> "hello"])
        /\ w # v => toWorker'[w] = toWorker[w]
    BY <1>1 DEF Accept, SendTo, TypeOK
  <2>2. CASE w # v
    BY <1>0, <2>1, <2>2 DEF Early
  <2>3. CASE w = v
    <3>1. wpc[v] \in {"waiting", "crashed", "exited"}
      BY <2>1 DEF AttendInv, Queueing
    <3>2. Early(w) => toWorker[w] = <<>>
      BY <1>0, <2>1, <2>3
    <3>3. Append(<<>>, [type |-> "hello"]) = <<[type |-> "hello"]>>
      OBVIOUS
    <3>4. Early(w)' => toWorker'[w] = <<[type |-> "hello"]>> /\ wpc'[w] = "waiting"
      BY <2>1, <2>3, <3>1, <3>2, <3>3 DEF Early
    <3> QED
      BY <2>1, <2>3, <3>1, <3>4
  <2> QED
    BY <2>2, <2>3
<1>2. CASE Dispatch
  <2>1. /\ wpc' = wpc /\ backlog' = backlog /\ reading \in workerSocks /\ reading \in Worker
        /\ toWorker'[reading] =
             Append(toWorker[reading], [type |-> "run_tests", test_files |-> files])
        /\ w # reading => toWorker'[w] = toWorker[w]
    BY <1>2 DEF Dispatch, SendTo, TypeOK, ProtocolInv, Listening
  <2>2. CASE w # reading
    BY <1>0, <2>1, <2>2 DEF Early
  <2>3. CASE w = reading
    <3>1. ~Early(w)'
      BY <2>1, <2>3 DEF ProtocolInv, EarlyQuiet, Early
    <3>2. toWorker[w] \in Seq(ToWorkerMsg)
      BY DEF TypeOK
    <3>3. [type |-> "run_tests", test_files |-> files] \in ToWorkerMsg
      BY DEF TypeOK, ToWorkerMsg
    <3>4. \A n \in DOMAIN toWorker'[w] :
            \/ n \in DOMAIN toWorker[w] /\ toWorker'[w][n] = toWorker[w][n]
            \/ toWorker'[w][n].type = "run_tests"
      <4> DEFINE msg == [type |-> "run_tests", test_files |-> files]
      <4>1. msg.type = "run_tests"
        OBVIOUS
      <4> HIDE DEF msg
      <4>2. toWorker'[w] = Append(toWorker[w], msg) /\ msg \in ToWorkerMsg
        BY <2>1, <2>3, <3>3 DEF msg
      <4> QED
        BY <3>2, <4>1, <4>2
    <3> QED
      BY <1>0, <2>1, <3>1, <3>4
  <2> QED
    BY <2>2, <2>3
<1>3. CASE Spawn
  <2>1. PICK v \in Worker : wpc[v] = "unborn" /\ wpc' = [wpc EXCEPT ![v] = "connecting"]
    BY <1>3, SpawnUnborn
  <2>2. UNCHANGED <<backlog, toWorker>>
    BY <1>3 DEF Spawn
  <2> QED
    BY <1>0, <2>1, <2>2 DEF Early, TypeOK
<1>4. CASE ~(\E v \in Worker : Accept(v)) /\ ~Dispatch /\ ~Spawn
  <2>1. UNCHANGED <<backlog, toWorker, wpc>>
    BY <1>4, Posts, ParentFrame
  <2> QED
    BY <1>0, <2>1 DEF Early
<1> QED
  BY <1>1, <1>2, <1>3, <1>4

(* A worker reads the greeting in its turn, and then batches only.         *)
LEMMA GreetingsWorker ==
  ASSUME RunInv, AttendInv, NEW v \in Worker, Work(v) \/ ReportPhpError(v) \/ Crash(v),
         NEW w \in Worker
  PROVE  /\ Early(w)' => toWorker'[w] = IF wpc'[w] = "waiting" /\ w \notin backlog'
                                          THEN <<[type |-> "hello"]>> ELSE <<>>
         /\ wpc'[w] \in {"idle", "running"} =>
              \A n \in DOMAIN toWorker'[w] : toWorker'[w][n].type = "run_tests"
<1> USE DEF RunInv, IndInv
<1>0. /\ Early(w) => toWorker[w] = IF wpc[w] = "waiting" /\ w \notin backlog
                                     THEN <<[type |-> "hello"]>> ELSE <<>>
      /\ wpc[w] \in {"idle", "running"} =>
           \A n \in DOMAIN toWorker[w] : toWorker[w][n].type = "run_tests"
  BY DEF AttendInv, Greetings
<1>1. w # v => w \in backlog' <=> w \in backlog
  <2>1. CASE Connect(v)
    BY <2>1 DEF Connect
  <2>2. CASE ~Connect(v)
    BY <2>2 DEF Work, ReadGreeting, Greet, TakeBatch, RunTest, Redirect, FinishBatch, HangUp,
       Terminate, ReportPhpError, Crash
  <2> QED
    BY <2>1, <2>2
<1>2. CASE w # v
  <2>1. wpc'[w] = wpc[w] /\ toWorker'[w] = toWorker[w]
    BY <1>2, OtherWorker
  <2> QED
    BY <1>0, <1>1, <1>2, <2>1 DEF Early
<1>3. CASE w = v /\ Connect(v)
  <2>1. wpc[w] = "connecting" /\ wpc'[w] = "waiting" /\ w \in backlog' /\ toWorker' = toWorker
    BY <1>3 DEF Connect, WorkerStep, TypeOK
  <2> QED
    BY <1>0, <2>1 DEF Early
<1>4. CASE w = v /\ ReadGreeting(v)
  <2>1. /\ wpc[w] = "waiting" /\ wpc'[w] = "greeted" /\ toWorker[w] # <<>>
        /\ toWorker'[w] = Tail(toWorker[w])
    BY <1>4 DEF ReadGreeting, WorkerStep, TypeOK
  <2>2. toWorker[w] = <<[type |-> "hello"]>>
    BY <1>0, <2>1 DEF Early
  <2>3. toWorker'[w] = <<>>
    BY <2>1, <2>2
  <2> QED
    BY <2>1, <2>3
<1>5. CASE w = v /\ Greet(v)
  <2>1. wpc[w] = "greeted" /\ wpc'[w] = "idle" /\ toWorker' = toWorker
    BY <1>5 DEF Greet, WorkerStep, TypeOK
  <2>2. toWorker'[w] = <<>>
    BY <1>0, <2>1 DEF Early
  <2> QED
    BY <2>1, <2>2 DEF Early
<1>6. CASE w = v /\ TakeBatch(v)
  <2>1. /\ wpc[w] = "idle" /\ wpc'[w] = "running" /\ toWorker[w] # <<>>
        /\ toWorker'[w] = Tail(toWorker[w])
    BY <1>6 DEF TakeBatch, WorkerStep, TypeOK
  <2>2. toWorker[w] \in Seq(ToWorkerMsg)
    BY DEF TypeOK
  <2>3. \A n \in DOMAIN toWorker'[w] : /\ n + 1 \in DOMAIN toWorker[w]
                                       /\ toWorker'[w][n] = toWorker[w][n + 1]
    <3>1. /\ toWorker'[w] \in Seq(ToWorkerMsg)
          /\ Len(toWorker'[w]) = Len(toWorker[w]) - 1
          /\ \A n \in 1 .. Len(toWorker[w]) - 1 : toWorker'[w][n] = toWorker[w][n + 1]
      BY <2>1, <2>2, HeadType
    <3>2. /\ DOMAIN toWorker[w] = 1 .. Len(toWorker[w]) /\ Len(toWorker[w]) \in Nat
          /\ DOMAIN toWorker'[w] = 1 .. Len(toWorker'[w])
      BY <2>2, <3>1, LenProperties
    <3> QED
      BY <3>1, <3>2
  <2> QED
    BY <1>0, <2>1, <2>3 DEF Early
<1>7. CASE w = v /\ (RunTest(v) \/ Redirect(v) \/ ReportPhpError(v) \/ FinishBatch(v))
  <2>1. /\ toWorker' = toWorker /\ backlog' = backlog
        /\ \/ wpc'[w] = wpc[w]
           \/ wpc[w] = "running" /\ wpc'[w] = "idle"
    BY <1>7 DEF RunTest, Redirect, ReportPhpError, FinishBatch, WorkerStep, TypeOK
  <2> QED
    BY <1>0, <2>1 DEF Early
<1>8. CASE w = v /\ (HangUp(v) \/ Terminate(v) \/ Crash(v))
  <2>1. wpc'[w] \in {"crashed", "exited"}
    BY <1>8 DEF HangUp, Terminate, Crash, WorkerStep, TypeOK
  <2> QED
    BY <2>1 DEF Early
<1> QED
  BY <1>2, <1>3, <1>4, <1>5, <1>6, <1>7, <1>8 DEF Work

(* So the greeting is there to be read when it is expected.                *)
LEMMA GreetingsStep == RunInv /\ AttendInv /\ [Next]_vars => Greetings'
<1> SUFFICES ASSUME RunInv, AttendInv, [Next]_vars PROVE Greetings'
  OBVIOUS
<1>1. CASE Parent
  BY <1>1, GreetingsParent DEF Greetings
<1>2. CASE UNCHANGED vars
  BY <1>2 DEF vars, AttendInv, Greetings, Early
<1>3. ASSUME NEW v \in Worker, Work(v) \/ ReportPhpError(v) \/ Crash(v)
      PROVE  Greetings'
  BY <1>3, GreetingsWorker DEF Greetings
<1> QED
  BY <1>1, <1>2, <1>3, WorkerFrame

(* Only a worker that connects is queued, only Accept takes it off.        *)
LEMMA QueueingStep == RunInv /\ AttendInv /\ [Next]_vars => Queueing'
<1> SUFFICES ASSUME RunInv, AttendInv, [Next]_vars PROVE Queueing'
  OBVIOUS
<1> USE DEF RunInv, IndInv
<1>0. /\ \A w \in backlog : wpc[w] \in {"waiting", "crashed", "exited"} /\ w \notin workerSocks
      /\ pc = "greet" => /\ reading \notin workerSocks /\ reading \notin backlog
                         /\ wpc[reading] \notin {"unborn", "connecting"}
  BY DEF AttendInv, Queueing
<1>1. CASE Spawn
  <2>1. PICK v \in Worker : wpc[v] = "unborn" /\ wpc' = [wpc EXCEPT ![v] = "connecting"]
    BY <1>1, SpawnUnborn
  <2>2. \A w \in backlog : w \in Worker /\ wpc[w] # "unborn"
    BY DEF ProtocolInv, Started, TypeOK
  <2>3. UNCHANGED <<backlog, workerSocks>> /\ pc' # "greet"
    BY <1>1 DEF Spawn
  <2> QED
    BY <1>0, <2>1, <2>2, <2>3 DEF Queueing, TypeOK
<1>2. ASSUME NEW v \in Worker, Accept(v) PROVE Queueing'
  BY <1>0, <1>2 DEF Accept, Queueing
<1>3. CASE ReadReply
  BY <1>0, <1>3 DEF ReadReply, Queueing
<1>4. CASE Parent /\ ~Spawn /\ ~(\E v \in Worker : Accept(v)) /\ ~ReadReply
  BY <1>0, <1>4 DEF Parent, ReadConflicts, OrderTests, SpawnFails, AcceptFails,
     ReplyFails, Select, TakeSocket, Drained, ReadResult, ReadPhpError, ReadFinished, Release,
     ReadReady, FallThrough, StartBatch, PopFree, PopBlocked, Dispatch, Retire, Unset, Finish,
     Abort, Reading, Queueing
<1>5. CASE UNCHANGED vars
  BY <1>0, <1>5 DEF vars, Queueing
<1>6. ASSUME NEW v \in Worker, Work(v) \/ ReportPhpError(v) \/ Crash(v), ~Parent
      PROVE  Queueing'
  <2>1. UNCHANGED <<pc, reading, workerSocks>>
    BY <1>6, WorkerFrame
  <2>2. CASE Connect(v)
    <3>1. v \notin workerSocks
      BY <2>2 DEF Connect, WorkerStep, ProtocolInv, EarlyQuiet, Early
    <3>2. /\ wpc[v] = "connecting" /\ wpc' = [wpc EXCEPT ![v] = "waiting"]
          /\ backlog' = backlog \cup {v}
      BY <2>2 DEF Connect, WorkerStep
    <3> QED
      BY <1>0, <2>1, <3>1, <3>2 DEF Queueing, TypeOK
  <2>3. CASE ~Connect(v)
    <3>1. backlog' = backlog
      BY <1>6, <2>3 DEF Work, ReadGreeting, Greet, TakeBatch, RunTest, Redirect, FinishBatch,
         HangUp, Terminate, ReportPhpError, Crash
    <3>2. \A w \in Worker : wpc'[w] \in {"unborn", "connecting"} => wpc'[w] = wpc[w]
      BY <1>6, <2>3 DEF Work, ReadGreeting, Greet, TakeBatch, RunTest, Redirect, FinishBatch,
         HangUp, Terminate, ReportPhpError, Crash, WorkerStep, TypeOK
    <3>3. ASSUME NEW w \in backlog PROVE wpc'[w] \in {"waiting", "crashed", "exited"}
      <4>1. w \in Worker
        BY DEF TypeOK
      <4>2. CASE w # v
        BY <1>0, <1>6, <4>1, <4>2, OtherWorker
      <4>3. CASE w = v
        <5>1. ~ReadGreeting(v)
          BY <4>3 DEF ReadGreeting, WorkerStep, AttendInv, Greetings, Early
        <5>2. wpc[v] \in {"waiting", "crashed", "exited"}
          BY <1>0, <4>3
        <5> QED
          BY <1>6, <2>3, <4>3, <5>1, <5>2 DEF Work, Greet, TakeBatch, RunTest, Redirect,
             FinishBatch, HangUp, Terminate, ReportPhpError, Crash, WorkerStep, TypeOK
      <4> QED
        BY <4>2, <4>3
    <3>4. pc = "greet" => reading \in Worker
      BY DEF TypeOK
    <3> QED
      BY <1>0, <2>1, <3>1, <3>2, <3>3, <3>4 DEF Queueing
  <2> QED
    BY <2>2, <2>3
<1> QED
  BY <1>1, <1>2, <1>3, <1>4, <1>5, <1>6, WorkerFrame

(* Until the loop every worker is greeted once, in the order in which they *)
(* connect, and none is forgotten.                                         *)
LEMMA TurnComesStep == RunInv /\ AttendInv /\ [Next]_vars => TurnComes'
<1> SUFFICES ASSUME RunInv, AttendInv, [Next]_vars PROVE TurnComes'
  OBVIOUS
<1> USE DEF RunInv, IndInv
<1>0. /\ pc \in {"classify", "spawn"} => workerSocks = {}
      /\ pc \in {"accept", "greet"} => workerSocks # workerProcs
      /\ pc \in {"classify", "spawn", "accept", "greet"} =>
           \A w \in workerProcs : \/ w \in workerSocks \cup backlog
                                  \/ wpc[w] \in {"connecting", "crashed"}
                                  \/ pc = "greet" /\ w = reading
  BY DEF AttendInv, TurnComes
<1>1. CASE Spawn
  <2>1. PICK v \in Worker : /\ wpc' = [wpc EXCEPT ![v] = "connecting"]
                            /\ workerProcs' = workerProcs \cup {v}
    BY <1>1, SpawnUnborn
  <2>2. UNCHANGED <<backlog, workerSocks>> /\ pc = "spawn" /\ pc' \in {"spawn", "accept"}
    BY <1>1 DEF Spawn
  <2>3. wpc'[v] = "connecting" /\ \A w \in Worker : w # v => wpc'[w] = wpc[w]
    BY <2>1 DEF TypeOK
  <2>4. ASSUME NEW w \in workerProcs'
        PROVE  w \in workerSocks' \cup backlog' \/ wpc'[w] \in {"connecting", "crashed"}
    <3>1. workerProcs \subseteq Worker
      BY DEF TypeOK
    <3>2. CASE w = v
      BY <2>3, <3>2
    <3>3. CASE w # v
      <4>1. w \in workerProcs /\ wpc'[w] = wpc[w]
        BY <2>1, <2>3, <2>4, <3>1, <3>3
      <4> QED
        BY <1>0, <2>2, <4>1
    <3> QED
      BY <3>2, <3>3
  <2> QED
    BY <1>0, <2>1, <2>2, <2>4 DEF TurnComes
<1>2. ASSUME NEW v \in Worker, Accept(v) PROVE TurnComes'
  BY <1>0, <1>2 DEF Accept, TurnComes
<1>3. CASE ReadReply
  <2>1. /\ UNCHANGED <<workerProcs, backlog, wpc>>
        /\ workerSocks' = workerSocks \cup {reading}
        /\ pc = "greet"
        /\ pc' = IF Cardinality(workerSocks') = workers THEN "loop" ELSE "accept"
    BY <1>3 DEF ReadReply
  <2>2. workerProcs = 1 .. workers
    BY <2>1 DEF WorkInv, AllGreeted
  <2>3. Cardinality(workerProcs) = workers
    BY <2>2, WorkersBound, FS_Interval
  <2> QED
    BY <1>0, <2>1, <2>3 DEF TurnComes
<1>4. CASE Parent /\ ~Spawn /\ ~(\E v \in Worker : Accept(v)) /\ ~ReadReply
  BY <1>0, <1>4 DEF Parent, ReadConflicts, OrderTests, SpawnFails, AcceptFails,
     ReplyFails, Select, TakeSocket, Drained, ReadResult, ReadPhpError, ReadFinished, Release,
     ReadReady, FallThrough, StartBatch, PopFree, PopBlocked, Dispatch, Retire, Finish,
     Abort, Reading, TurnComes
<1>5. CASE UNCHANGED vars
  BY <1>0, <1>5 DEF vars, TurnComes
<1>6. ASSUME NEW v \in Worker, Work(v) \/ ReportPhpError(v) \/ Crash(v), ~Parent
      PROVE  TurnComes'
  <2>1. UNCHANGED <<pc, reading, workerSocks, workerProcs>>
    BY <1>6, WorkerFrame
  <2>2. backlog \subseteq backlog' /\ (Connect(v) => v \in backlog')
    BY <1>6 DEF Work, Connect, ReadGreeting, Greet, TakeBatch, RunTest, Redirect, FinishBatch,
       HangUp, Terminate, ReportPhpError, Crash
  <2>3. ASSUME pc \in {"classify", "spawn", "accept", "greet"}, ~Connect(v),
               NEW w \in Worker, wpc[w] \in {"connecting", "crashed"}
        PROVE  wpc'[w] \in {"connecting", "crashed"}
    <3>1. CASE w # v
      BY <1>6, <2>3, <3>1, OtherWorker
    <3>2. CASE w = v
      <4>1. ~HangUp(v) /\ ~Terminate(v)
        BY <2>3 DEF HangUp, ParentOver, Terminate, WorkInv, GivenUp
      <4> QED
        BY <1>6, <2>3, <3>2, <4>1 DEF Work, ReadGreeting, Greet, TakeBatch, RunTest,
           Redirect, FinishBatch, ReportPhpError, Crash, Alive, WorkerStep, TypeOK
    <3> QED
      BY <3>1, <3>2
  <2>4. workerProcs \subseteq Worker
    BY DEF TypeOK
  <2>5. CASE Connect(v)
    <3>1. \A w \in Worker : w # v => wpc'[w] = wpc[w]
      BY <1>6, OtherWorker
    <3> QED
      BY <1>0, <2>1, <2>2, <2>4, <2>5, <3>1 DEF TurnComes
  <2>6. CASE ~Connect(v)
    BY <1>0, <2>1, <2>2, <2>3, <2>4, <2>6 DEF TurnComes
  <2> QED
    BY <2>5, <2>6
<1> QED
  BY <1>1, <1>2, <1>3, <1>4, <1>5, <1>6, WorkerFrame

(* Taking a message off makes no two replies of one.                       *)
LEMMA OneReplyLess ==
  ASSUME TypeOK, NEW w \in Worker, w = reading, toParent[w] # <<>>, TakeMessage,
         OneReply(w)
  PROVE  /\ OneReply(w)'
         /\ Head(toParent[w]).type = "hello_reply" => ~Sent(w, "hello_reply")'
<1>1. /\ DOMAIN toParent'[w] = 1 .. Len(toParent[w]) - 1
      /\ DOMAIN toParent[w] = 1 .. Len(toParent[w])
      /\ Len(toParent[w]) \in Nat \ {0}
      /\ \A n \in 1 .. Len(toParent[w]) - 1 :
           toParent'[w][n] = toParent[w][n + 1]
      /\ Head(toParent[w]) = toParent[w][1]
  BY SentTail
<1>2. ASSUME NEW n \in DOMAIN toParent'[w]
      PROVE  /\ n + 1 \in DOMAIN toParent[w] /\ n + 1 # 1 /\ n \in Int
             /\ 1 \in DOMAIN toParent[w]
             /\ toParent'[w][n] = toParent[w][n + 1]
  BY <1>1
<1>3. ASSUME NEW m \in DOMAIN toParent'[w], NEW n \in DOMAIN toParent'[w],
             toParent'[w][m].type = "hello_reply", toParent'[w][n].type = "hello_reply"
      PROVE  m = n
  <2>1. m + 1 = n + 1
    BY <1>2, <1>3 DEF OneReply
  <2> QED
    BY <1>2, <2>1
<1>4. ASSUME Head(toParent[w]).type = "hello_reply", NEW n \in DOMAIN toParent'[w]
      PROVE  toParent'[w][n].type # "hello_reply"
  BY <1>1, <1>2, <1>4 DEF OneReply
<1> QED
  BY <1>3, <1>4 DEF OneReply, Sent

(* Greet replies once, and nothing else does.                              *)
LEMMA OneReplyWorker ==
  ASSUME RunInv, AttendInv, NEW v \in Worker, Work(v) \/ ReportPhpError(v) \/ Crash(v),
         NEW w \in Worker
  PROVE  OneReply(w)'
<1> USE DEF RunInv, IndInv
<1>0. OneReply(w)
  BY DEF AttendInv, Replies
<1>1. CASE toParent'[w] = toParent[w]
  BY <1>0, <1>1 DEF OneReply
<1>2. CASE w = v /\ Greet(v)
  <2>1. \A n \in DOMAIN toParent[v] : toParent[v][n].type # "hello_reply"
    BY <1>2 DEF Greet, WorkerStep, ProtocolInv, EarlyQuiet, Early, Sent
  <2>2. /\ DOMAIN toParent'[v] = 1 .. Len(toParent[v]) + 2
        /\ DOMAIN toParent[v] = 1 .. Len(toParent[v])
        /\ Len(toParent[v]) \in Nat
        /\ \A n \in 1 .. Len(toParent[v]) : toParent'[v][n] = toParent[v][n]
        /\ toParent'[v][Len(toParent[v]) + 2] = [type |-> "ready"]
    BY <1>2, GreetSends
  <2>3. \A n \in DOMAIN toParent'[v] : \/ n \in DOMAIN toParent[v]
                                       \/ n = Len(toParent[v]) + 1
                                       \/ n = Len(toParent[v]) + 2
    BY <2>2
  <2>4. \A n \in DOMAIN toParent'[v] :
          toParent'[v][n].type = "hello_reply" => n = Len(toParent[v]) + 1
    BY <2>1, <2>2, <2>3
  <2> QED
    BY <1>2, <2>4 DEF OneReply
<1>3. ASSUME NEW msg \in ToParentMsg, SendParent(v, msg), msg.type # "hello_reply", w = v
      PROVE  OneReply(w)'
  <2>1. /\ DOMAIN toParent'[v] = 1 .. Len(toParent[v]) + 1
        /\ DOMAIN toParent[v] = 1 .. Len(toParent[v])
        /\ Len(toParent[v]) \in Nat
        /\ \A n \in 1 .. Len(toParent[v]) : toParent'[v][n] = toParent[v][n]
        /\ toParent'[v][Len(toParent[v]) + 1] = msg
    BY <1>3, SentAppend
  <2>2. \A n \in DOMAIN toParent'[v] : n \in DOMAIN toParent[v] \/ n = Len(toParent[v]) + 1
    BY <2>1
  <2>3. \A n \in DOMAIN toParent'[v] : toParent'[v][n].type = "hello_reply" =>
          n \in DOMAIN toParent[v] /\ toParent[v][n].type = "hello_reply"
    BY <1>3, <2>1, <2>2
  <2> QED
    BY <1>0, <1>3, <2>3 DEF OneReply
<1>4. w # v => toParent'[w] = toParent[w]
  BY OtherWorker
<1>5. \/ UNCHANGED toParent \/ Greet(v)
      \/ \E msg \in ToParentMsg : SendParent(v, msg) /\ msg.type # "hello_reply"
  BY Says
<1> QED
  BY <1>1, <1>2, <1>3, <1>4, <1>5

(* The first message on a connection has been sent.                        *)
LEMMA HeadSent ==
  ASSUME TypeOK, NEW w \in Worker, toParent[w] # <<>>
  PROVE  Sent(w, Head(toParent[w]).type)
<1>1. toParent[w] \in Seq(ToParentMsg)
  BY DEF TypeOK
<1>2. 1 \in DOMAIN toParent[w] /\ Head(toParent[w]) = toParent[w][1]
  BY <1>1, EmptySeq, HeadType
<1> QED
  BY <1>2 DEF Sent

(* The parent takes the reply when it lists the worker's socket, and at no *)
(* other time.                                                             *)
LEMMA RepliesParent ==
  ASSUME RunInv, AttendInv, Parent, NEW w \in Worker
  PROVE  /\ OneReply(w)'
         /\ Sent(w, "hello_reply")' => Sent(w, "ready")' /\ w \notin workerSocks'
         /\ /\ pc' \in {"classify", "spawn", "accept", "greet"}
            /\ w \notin workerSocks'
            /\ wpc'[w] \in {"idle", "running"}
            => Sent(w, "hello_reply")'
<1> USE DEF RunInv, IndInv
<1>0. /\ OneReply(w)
      /\ Sent(w, "hello_reply") => Sent(w, "ready") /\ w \notin workerSocks
      /\ /\ pc \in {"classify", "spawn", "accept", "greet"}
         /\ w \notin workerSocks
         /\ wpc[w] \in {"idle", "running"}
         => Sent(w, "hello_reply")
  BY DEF AttendInv, Replies
<1>1. CASE w = reading /\ (ReadReply \/ ReadResult \/ ReadFinished \/ ReadReady)
  <2>1. toParent[w] # <<>> /\ TakeMessage
    BY <1>1 DEF ReadReply, ReadResult, ReadFinished, ReadReady, Reading
  <2>2. OneReply(w)' /\ (Head(toParent[w]).type = "hello_reply" => ~Sent(w, "hello_reply")')
    BY <1>0, <1>1, <2>1, OneReplyLess
  <2>3. ~Sent(w, "hello_reply")'
    <3>1. CASE ReadReply
      BY <1>1, <2>2, <3>1 DEF ReadReply
    <3>2. CASE ~ReadReply
      <4>1. w \in workerSocks
        BY <1>1, <3>2 DEF ReadResult, ReadFinished, ReadReady, Reading, ProtocolInv, Listening
      <4>2. ~Sent(w, "hello_reply")
        BY <1>0, <4>1
      <4> QED
        BY <4>2, ParentSentLess
    <3> QED
      BY <3>1, <3>2
  <2>4. pc' \in {"classify", "spawn", "accept", "greet"} => w \in workerSocks'
    BY <1>1 DEF ReadReply, ReadResult, ReadFinished, ReadReady, StartBatch, Reading
  <2> QED
    BY <2>2, <2>3, <2>4
<1>2. CASE ~(w = reading /\ (ReadReply \/ ReadResult \/ ReadFinished \/ ReadReady))
  <2>1. toParent'[w] = toParent[w]
    <3>1. CASE ReadReply \/ ReadResult \/ ReadFinished \/ ReadReady
      BY <1>2, <3>1 DEF ReadReply, ReadResult, ReadFinished, ReadReady, TakeMessage, TypeOK
    <3>2. CASE ~(ReadReply \/ ReadResult \/ ReadFinished \/ ReadReady)
      BY <3>2 DEF Parent, ReadConflicts, OrderTests, Spawn, SpawnFails, Accept, AcceptFails,
         ReplyFails, Select, TakeSocket, Drained, ReadPhpError, Release, FallThrough, PopFree,
         PopBlocked, Dispatch, Retire, Finish, Abort
    <3> QED
      BY <3>1, <3>2
  <2>2. w \in workerSocks' => w \in workerSocks
    <3>1. CASE ReadReply
      BY <1>2, <3>1 DEF ReadReply
    <3>2. CASE ~ReadReply
      BY <3>2 DEF Parent, ReadConflicts, OrderTests, Spawn, SpawnFails, Accept, AcceptFails,
         ReplyFails, Select, TakeSocket, Drained, ReadResult, ReadPhpError, ReadFinished,
         Release, ReadReady, FallThrough, StartBatch, PopFree, PopBlocked, Dispatch, Retire,
         Unset, Finish, Abort
    <3> QED
      BY <3>1, <3>2
  <2>3. pc' \in {"classify", "spawn", "accept", "greet"} =>
          /\ pc \in {"classify", "spawn", "accept", "greet"}
          /\ w \notin workerSocks' => w \notin workerSocks
    BY DEF Parent, ReadConflicts, OrderTests, Spawn, SpawnFails, Accept, AcceptFails,
       ReadReply, ReplyFails, Select, TakeSocket, Drained, ReadResult, ReadPhpError,
       ReadFinished, Release, ReadReady, FallThrough, StartBatch, PopFree, PopBlocked, Dispatch,
       Retire, Finish, Abort, Reading
  <2>4. wpc'[w] \in {"idle", "running"} => wpc'[w] = wpc[w]
    <3>1. CASE Spawn
      BY <3>1, SpawnUnborn DEF TypeOK
    <3> QED
      BY <3>1, ParentFrame
  <2> QED
    BY <1>0, <2>1, <2>2, <2>3, <2>4 DEF OneReply, Sent
<1> QED
  BY <1>1, <1>2

(* So a worker that the parent waits for has its reply under way.          *)
LEMMA RepliesStep == RunInv /\ AttendInv /\ [Next]_vars => Replies'
<1> SUFFICES ASSUME RunInv, AttendInv, [Next]_vars PROVE Replies'
  OBVIOUS
<1>1. CASE Parent
  BY <1>1, RepliesParent DEF Replies
<1>2. CASE UNCHANGED vars
  BY <1>2 DEF vars, AttendInv, Replies, OneReply, Sent
<1>3. ASSUME NEW v \in Worker, Work(v) \/ ReportPhpError(v) \/ Crash(v), ~Parent,
             NEW w \in Worker
      PROVE  /\ OneReply(w)'
             /\ Sent(w, "hello_reply")' => Sent(w, "ready")' /\ w \notin workerSocks'
             /\ /\ pc' \in {"classify", "spawn", "accept", "greet"}
                /\ w \notin workerSocks'
                /\ wpc'[w] \in {"idle", "running"}
                => Sent(w, "hello_reply")'
  <2> USE DEF RunInv, IndInv
  <2>1. UNCHANGED <<pc, workerSocks>>
    BY <1>3, WorkerFrame
  <2>2. OneReply(w)'
    BY <1>3, OneReplyWorker
  <2>3. /\ \A type : Sent(w, type) => Sent(w, type)'
        /\ Sent(w, "hello_reply")' => Sent(w, "hello_reply") \/ (w = v /\ Greet(v))
    BY <1>3, SaysMore
  <2>4. w = v /\ Greet(v) => Sent(w, "ready")' /\ w \notin workerSocks /\ Sent(w, "hello_reply")'
    <3>1. Greet(v) => Sent(v, "ready")' /\ Sent(v, "hello_reply")'
      BY GreetSent
    <3>2. Greet(v) => v \notin workerSocks
      BY DEF Greet, WorkerStep, ProtocolInv, EarlyQuiet, Early
    <3> QED
      BY <3>1, <3>2
  <2>5. wpc'[w] \in {"idle", "running"} => wpc[w] \in {"idle", "running"} \/ (w = v /\ Greet(v))
    <3>1. CASE w # v
      BY <1>3, <3>1, OtherWorker
    <3>2. CASE w = v
      BY <1>3, <3>2 DEF Work, Connect, ReadGreeting, TakeBatch, RunTest, Redirect,
         FinishBatch, HangUp, Terminate, ReportPhpError, Crash, WorkerStep, TypeOK
    <3> QED
      BY <3>1, <3>2
  <2>6. /\ Sent(w, "hello_reply") => Sent(w, "ready") /\ w \notin workerSocks
        /\ /\ pc \in {"classify", "spawn", "accept", "greet"}
           /\ w \notin workerSocks
           /\ wpc[w] \in {"idle", "running"}
           => Sent(w, "hello_reply")
    BY DEF AttendInv, Replies
  <2> QED
    BY <2>1, <2>2, <2>3, <2>4, <2>5, <2>6
<1> QED
  BY <1>1, <1>2, <1>3, WorkerFrame DEF Replies

(* Whatever the parent reads, it is told of what the worker does next, or  *)
(* tells the worker.                                                       *)
LEMMA AttendedParent ==
  ASSUME RunInv, AttendInv, Parent, NEW w \in workerSocks'
  PROVE  \/ Sent(w, "ready")' \/ Sent(w, "tests_finished")' \/ Ordered(w)'
         \/ wpc'[w] = "running" \/ Closed(w)'
         \/ pc' \in {"release", "batch"} /\ w = reading'
<1> USE DEF RunInv, IndInv
<1>0. /\ workerSocks \subseteq Worker /\ workerSocks' \subseteq workerSocks \cup {reading}
      /\ w \in workerSocks => \/ Sent(w, "ready") \/ Sent(w, "tests_finished") \/ Ordered(w)
                              \/ wpc[w] = "running" \/ Closed(w)
                              \/ pc \in {"release", "batch"} /\ w = reading
  <2>1. workerSocks' \subseteq workerSocks \cup {reading}
    BY DEF Parent, ReadConflicts, OrderTests, Spawn, SpawnFails, Accept, AcceptFails,
       ReadReply, ReplyFails, Select, TakeSocket, Drained, ReadResult, ReadPhpError,
       ReadFinished, Release, ReadReady, FallThrough, StartBatch, PopFree, PopBlocked, Dispatch,
       Retire, Unset, Finish, Abort
  <2> QED
    BY <2>1 DEF TypeOK, AttendInv, Attended
<1>1. CASE ReadReply
  <2>1. /\ reading \in Worker /\ toParent[reading] # <<>> /\ TakeMessage
        /\ Head(toParent[reading]).type = "hello_reply"
        /\ UNCHANGED <<toWorker, wpc>> /\ pc = "greet"
    BY <1>1 DEF ReadReply, TypeOK
  <2>2. CASE w = reading
    <3>1. Sent(w, "hello_reply")
      BY <2>1, <2>2, HeadSent
    <3>2. Sent(w, "ready")
      BY <2>1, <2>2, <3>1 DEF AttendInv, Replies
    <3> QED
      BY <2>1, <2>2, <3>2, SentRest
  <2>3. CASE w # reading
    <3>1. w \in workerSocks /\ w \in Worker
      BY <1>0, <2>3
    <3>2. toParent'[w] = toParent[w]
      BY <2>1, <2>3, <3>1, SentTail
    <3> QED
      BY <1>0, <2>1, <3>1, <3>2 DEF Sent, Ordered, Closed
  <2> QED
    BY <2>2, <2>3
<1>2. CASE ReadResult
  <2>1. /\ reading \in Worker /\ toParent[reading] # <<>> /\ TakeMessage
        /\ Head(toParent[reading]).type = "test_result"
        /\ UNCHANGED <<toWorker, wpc, workerSocks, pc>> /\ pc = "drain" /\ reading \in workerSocks
    BY <1>2 DEF ReadResult, Reading, TypeOK, ProtocolInv, Listening
  <2>2. w \in workerSocks /\ w \in Worker
    BY <1>0, <2>1
  <2>3. /\ Sent(w, "ready") => Sent(w, "ready")'
        /\ Sent(w, "tests_finished") => Sent(w, "tests_finished")'
    BY <2>1, <2>2, SentRest
  <2> QED
    BY <1>0, <2>1, <2>2, <2>3 DEF Ordered, Closed
<1>3. CASE ReadFinished \/ ReadReady
  <2>1. /\ reading \in Worker /\ toParent[reading] # <<>> /\ TakeMessage
        /\ UNCHANGED <<toWorker, wpc, workerSocks, reading>> /\ pc = "drain"
        /\ pc' \in {"release", "batch"}
    BY <1>3 DEF ReadFinished, ReadReady, StartBatch, Reading, TypeOK, ProtocolInv, Listening
  <2>2. CASE w = reading
    BY <2>1, <2>2
  <2>3. CASE w # reading
    <3>1. w \in workerSocks /\ w \in Worker
      BY <1>0, <2>1
    <3>2. toParent'[w] = toParent[w]
      BY <2>1, <2>3, <3>1, SentTail
    <3> QED
      BY <1>0, <2>1, <3>1, <3>2, <2>3 DEF Sent, Ordered, Closed
  <2> QED
    BY <2>2, <2>3
<1>4. CASE Dispatch
  <2>1. /\ UNCHANGED <<toParent, wpc, workerSocks>> /\ reading \in workerSocks
        /\ reading \in Worker
        /\ toWorker'[reading] =
             Append(toWorker[reading], [type |-> "run_tests", test_files |-> files])
        /\ w # reading => toWorker'[w] = toWorker[w]
    BY <1>0, <1>4 DEF Dispatch, SendTo, TypeOK, ProtocolInv, Listening
  <2>2. CASE w = reading
    <3> DEFINE msg == [type |-> "run_tests", test_files |-> files]
    <3>1. msg.type = "run_tests" /\ msg \in ToWorkerMsg
      BY DEF TypeOK, ToWorkerMsg
    <3>2. toWorker'[w] = Append(toWorker[w], msg) /\ toWorker[w] \in Seq(ToWorkerMsg)
      BY <2>1, <2>2 DEF TypeOK
    <3> HIDE DEF msg
    <3>3. Len(toWorker[w]) + 1 \in DOMAIN toWorker'[w]
          /\ toWorker'[w][Len(toWorker[w]) + 1] = msg
      BY <3>1, <3>2
    <3> QED
      BY <3>1, <3>3 DEF Ordered
  <2>3. CASE w # reading
    BY <1>0, <2>1, <2>3 DEF Sent, Ordered, Closed
  <2> QED
    BY <2>2, <2>3
<1>5. ASSUME NEW v \in Worker, Accept(v)
      PROVE  \/ Sent(w, "ready")' \/ Sent(w, "tests_finished")' \/ Ordered(w)'
             \/ wpc'[w] = "running" \/ Closed(w)'
  <2>1. /\ UNCHANGED <<toParent, wpc, workerSocks>> /\ pc = "accept"
        /\ toWorker'[v] = Append(toWorker[v], [type |-> "hello"])
        /\ w # v => toWorker'[w] = toWorker[w]
    BY <1>0, <1>5 DEF Accept, SendTo, TypeOK
  <2>2. w # v
    BY <1>5, <2>1 DEF Accept, AttendInv, Queueing
  <2> QED
    BY <1>0, <2>1, <2>2 DEF Sent, Ordered, Closed
<1>6. CASE Spawn
  <2>1. workerSocks' = {}
    BY <1>6 DEF Spawn, AttendInv, TurnComes
  <2> QED
    BY <2>1
<1>7. CASE Retire
  <2>1. /\ w \in workerSocks /\ w # reading /\ UNCHANGED <<toParent, toWorker, wpc>>
    BY <1>7 DEF Retire, Unset
  <2> QED
    BY <1>0, <2>1 DEF Sent, Ordered, Closed
<1>8. CASE Parent /\ ~ReadReply /\ ~ReadResult /\ ~ReadFinished /\ ~ReadReady /\ ~Dispatch
           /\ ~(\E v \in Worker : Accept(v)) /\ ~Spawn /\ ~Retire
  <2>1. UNCHANGED <<toParent, toWorker, wpc>>
    BY <1>8 DEF Parent, ReadConflicts, OrderTests, SpawnFails, AcceptFails, ReplyFails, Select,
       TakeSocket, Drained, ReadPhpError, Release, FallThrough, StartBatch, PopFree, PopBlocked,
       Finish, Abort
  <2>2. /\ workerSocks' = workerSocks
        /\ pc \in {"release", "batch"} => pc' \in {"release", "batch"} /\ reading' = reading
    BY <1>8 DEF Parent, ReadConflicts, OrderTests, SpawnFails, AcceptFails, ReplyFails, Select,
       TakeSocket, Drained, ReadPhpError, Reading, Release, FallThrough, StartBatch, PopFree,
       PopBlocked, Finish, Abort
  <2> QED
    BY <1>0, <2>1, <2>2 DEF Sent, Ordered, Closed
<1> QED
  BY <1>1, <1>2, <1>3, <1>4, <1>5, <1>6, <1>7, <1>8

(* A worker that has an order takes it, and says when it is done with it.  *)
LEMMA AttendedStep == RunInv /\ AttendInv /\ [Next]_vars => Attended'
<1> SUFFICES ASSUME RunInv, AttendInv, [Next]_vars PROVE Attended'
  OBVIOUS
<1>1. CASE Parent
  BY <1>1, AttendedParent DEF Attended
<1>2. CASE UNCHANGED vars
  BY <1>2 DEF vars, AttendInv, Attended, Sent, Ordered, Closed
<1>3. ASSUME NEW v \in Worker, Work(v) \/ ReportPhpError(v) \/ Crash(v), ~Parent,
             NEW w \in workerSocks'
      PROVE  \/ Sent(w, "ready")' \/ Sent(w, "tests_finished")' \/ Ordered(w)'
             \/ wpc'[w] = "running" \/ Closed(w)'
             \/ pc' \in {"release", "batch"} /\ w = reading'
  <2> USE DEF RunInv, IndInv
  <2>1. UNCHANGED <<pc, workerSocks, reading>> /\ w \in Worker
    BY <1>3, WorkerFrame DEF TypeOK
  <2>2. \/ Sent(w, "ready") \/ Sent(w, "tests_finished") \/ Ordered(w)
        \/ wpc[w] = "running" \/ Closed(w)
        \/ pc \in {"release", "batch"} /\ w = reading
    BY <1>3, <2>1 DEF AttendInv, Attended
  <2>3. /\ Sent(w, "ready") => Sent(w, "ready")'
        /\ Sent(w, "tests_finished") => Sent(w, "tests_finished")'
        /\ FinishBatch(v) => Sent(v, "tests_finished")'
    BY <1>3, <2>1, SaysMore
  <2>4. CASE w # v
    BY <1>3, <2>1, <2>2, <2>3, <2>4, OtherWorker DEF Ordered, Closed
  <2>5. CASE w = v
    <3>1. CASE FinishBatch(v)
      BY <2>3, <2>5, <3>1
    <3>2. CASE TakeBatch(v)
      BY <2>5, <3>2 DEF TakeBatch, WorkerStep, TypeOK
    <3>3. CASE ReadGreeting(v)
      BY <1>3, <2>1, <2>5, <3>3 DEF ReadGreeting, WorkerStep, ProtocolInv, EarlyQuiet, Early
    <3>4. CASE HangUp(v) \/ Terminate(v) \/ Crash(v)
      BY <2>5, <3>4 DEF HangUp, Terminate, Crash, WorkerStep, Closed, TypeOK
    <3>5. CASE Connect(v) \/ Greet(v)
      BY <1>3, <2>1, <2>5, <3>5 DEF Connect, Greet, WorkerStep, ProtocolInv, EarlyQuiet, Early
    <3>6. CASE RunTest(v) \/ Redirect(v) \/ ReportPhpError(v)
      <4>1. UNCHANGED <<wpc, toWorker>>
        BY <3>6 DEF RunTest, Redirect, ReportPhpError
      <4> QED
        BY <2>1, <2>2, <2>3, <4>1 DEF Ordered, Closed
    <3> QED
      BY <1>3, <3>1, <3>2, <3>3, <3>4, <3>5, <3>6 DEF Work
  <2> QED
    BY <2>4, <2>5
<1> QED
  BY <1>1, <1>2, <1>3, WorkerFrame DEF Attended

(* A socket said to be readable stays so until its turn.                   *)
LEMMA TurnsKeptStep == RunInv /\ AttendInv /\ [Next]_vars => TurnsKept'
<1> SUFFICES ASSUME RunInv, AttendInv, [Next]_vars PROVE TurnsKept'
  OBVIOUS
<1> USE DEF RunInv, IndInv
<1>0. /\ pc \in {"read", "drain", "release", "batch"} =>
           \A w \in toRead : toParent[w] # <<>> \/ Closed(w)
      /\ pc \in {"drain", "release", "batch"} => reading \notin toRead
      /\ pc = "read" => toRead # {}
      /\ toRead \subseteq Worker
  BY DEF AttendInv, TurnsKept, TypeOK
<1>1. CASE ReadResult \/ ReadFinished \/ ReadReady
  <2>1. /\ pc = "drain" /\ pc' \in {"drain", "release", "batch"}
        /\ UNCHANGED <<toRead, reading, wpc>>
        /\ toParent' = [toParent EXCEPT ![reading] = Tail(@)]
    BY <1>1 DEF ReadResult, ReadFinished, ReadReady, StartBatch, Reading, TakeMessage
  <2>2. \A w \in toRead : toParent'[w] = toParent[w]
    BY <1>0, <2>1 DEF TypeOK
  <2> QED
    BY <1>0, <2>1, <2>2 DEF TurnsKept, Closed
<1>2. CASE ReadReply \/ Spawn
  <2>1. pc' \in {"accept", "loop", "spawn"}
    BY <1>2 DEF ReadReply, Spawn
  <2> QED
    BY <2>1 DEF TurnsKept
<1>3. CASE Parent /\ ~ReadResult /\ ~ReadFinished /\ ~ReadReady /\ ~ReadReply /\ ~Spawn
  <2>1. UNCHANGED <<toParent, wpc>>
    BY <1>3 DEF Parent, ReadConflicts, OrderTests, SpawnFails, Accept, AcceptFails,
       ReplyFails, Select, TakeSocket, Drained, ReadPhpError, Release, FallThrough, StartBatch,
       PopFree, PopBlocked, Dispatch, Retire, Finish, Abort
  <2>2. CASE Select
    BY <2>1, <2>2 DEF Select, TurnsKept, Closed
  <2>3. CASE \E w \in Worker : TakeSocket(w)
    BY <1>0, <2>1, <2>3 DEF TakeSocket, Abort, TurnsKept, Closed
  <2>4. CASE ~Select /\ ~(\E w \in Worker : TakeSocket(w))
    <3>1. /\ pc' \in {"read", "drain", "release", "batch"} =>
               /\ pc \in {"drain", "release", "batch"}
               /\ UNCHANGED <<toRead, reading>>
          /\ pc' = "read" => toRead # {}
      BY <1>3, <2>4 DEF Parent, ReadConflicts, OrderTests, SpawnFails, Accept, AcceptFails,
         ReplyFails, Drained, ReadPhpError, Reading, Release, FallThrough, StartBatch,
         PopFree, PopBlocked, Dispatch, Retire, Finish, Abort
    <3> QED
      BY <1>0, <2>1, <3>1 DEF TurnsKept, Closed
  <2> QED
    BY <2>2, <2>3, <2>4
<1>4. CASE UNCHANGED vars
  BY <1>0, <1>4 DEF vars, TurnsKept, Closed
<1>5. ASSUME NEW v \in Worker, Work(v) \/ ReportPhpError(v) \/ Crash(v), ~Parent
      PROVE  TurnsKept'
  <2>1. UNCHANGED <<pc, toRead, reading>>
    BY <1>5, WorkerFrame
  <2>2. \A w \in Worker : toParent[w] # <<>> => toParent'[w] # <<>>
    BY <1>5, SaysMore
  <2>3. ASSUME NEW w \in Worker, Closed(w) PROVE Closed(w)'
    <3>1. CASE w # v
      BY <1>5, <2>3, <3>1, OtherWorker DEF Closed
    <3>2. CASE w = v
      BY <1>5, <2>3, <3>2 DEF Closed, Work, Connect, ReadGreeting, Greet, TakeBatch, RunTest,
         Redirect, FinishBatch, HangUp, Terminate, ReportPhpError, Crash, WorkerStep, Alive
    <3> QED
      BY <3>1, <3>2
  <2> QED
    BY <1>0, <2>1, <2>2, <2>3 DEF TurnsKept
<1> QED
  BY <1>1, <1>2, <1>3, <1>4, <1>5, WorkerFrame

(* At the start nothing is sent and nobody is listened to.                 *)
LEMMA AttendInit == Init => AttendInv
<1> SUFFICES ASSUME Init PROVE AttendInv
  OBVIOUS
<1> USE DEF Init
<1>1. Greetings /\ Queueing /\ TurnComes /\ Attended /\ TurnsKept
  BY DEF Greetings, Early, Queueing, TurnComes, Attended, TurnsKept
<1>2. Replies
  BY DEF Replies, OneReply, Sent
<1> QED
  BY <1>1, <1>2 DEF AttendInv

(* What the parent may wait for is kept by every step.                     *)
LEMMA AttendStep == RunInv /\ AttendInv /\ [Next]_vars => AttendInv'
BY GreetingsStep, QueueingStep, TurnComesStep, RepliesStep, AttendedStep, TurnsKeptStep
   DEF AttendInv

(* Where the parent waits, who it waits for.                               *)
LEMMA AttendWaits == RunInv /\ AttendInv => WaitsForSomeone
<1> SUFFICES ASSUME RunInv, AttendInv PROVE WaitsForSomeone
  OBVIOUS
<1> USE DEF RunInv, IndInv
<1>1. ASSUME pc = "accept"
      PROVE  backlog # {} \/ \E w \in workerProcs : wpc[w] \in {"connecting", "crashed"}
  <2>1. PICK w \in workerProcs : w \notin workerSocks
    BY <1>1 DEF AttendInv, TurnComes, ProtocolInv, Listening
  <2> QED
    BY <1>1, <2>1 DEF AttendInv, TurnComes
<1>2. ASSUME pc = "greet"
      PROVE  toParent[reading] # <<>> \/ wpc[reading] = "crashed" \/ CanGo(reading)
  <2>1. reading \in Worker /\ reading \notin workerSocks /\ reading \notin backlog
        /\ wpc[reading] \in {"waiting", "greeted", "idle", "running", "crashed", "exited"}
    BY <1>2 DEF TypeOK, AttendInv, Queueing
  <2>2. wpc[reading] # "exited"
    BY <1>2, <2>1 DEF WorkInv, GivenUp, ParentOver
  <2>3. CASE wpc[reading] = "waiting"
    <3>1. toWorker[reading] = <<[type |-> "hello"]>>
      BY <2>1, <2>3 DEF AttendInv, Greetings, Early
    <3> QED
      BY <2>3, <3>1 DEF CanGo
  <2>4. CASE wpc[reading] \in {"idle", "running"}
    <3>1. Sent(reading, "hello_reply")
      BY <1>2, <2>1, <2>4 DEF AttendInv, Replies
    <3> QED
      BY <3>1 DEF Sent
  <2> QED
    BY <2>1, <2>2, <2>3, <2>4 DEF CanGo
<1>3. ASSUME pc = "loop", MoreToDo
      PROVE  \E w \in workerSocks : toParent[w] # <<>> \/ Closed(w) \/ CanGo(w)
  <2>1. PICK w \in workerSocks : TRUE
    BY <1>3 DEF WorkInv, NeverStranded
  <2>2. w \in Worker /\ ~Early(w)
    <3>1. w \in Worker
      BY DEF TypeOK
    <3> QED
      BY <3>1 DEF ProtocolInv, EarlyQuiet
  <2>3. \/ Sent(w, "ready") \/ Sent(w, "tests_finished") \/ Ordered(w)
        \/ wpc[w] = "running" \/ Closed(w)
    BY <1>3 DEF AttendInv, Attended
  <2>4. Sent(w, "ready") \/ Sent(w, "tests_finished") => toParent[w] # <<>>
    BY DEF Sent
  <2>5. ASSUME Ordered(w), wpc[w] = "idle"
        PROVE  toWorker[w] # <<>> /\ Head(toWorker[w]).type = "run_tests"
    <3>1. toWorker[w] \in Seq(ToWorkerMsg) /\ toWorker[w] # <<>>
      BY <2>2, <2>5 DEF Ordered, TypeOK
    <3>2. 1 \in DOMAIN toWorker[w] /\ Head(toWorker[w]) = toWorker[w][1]
      BY <3>1, EmptySeq, HeadType
    <3> QED
      BY <2>2, <2>5, <3>1, <3>2 DEF AttendInv, Greetings
  <2>6. wpc[w] \in {"idle", "running", "crashed", "exited"}
    BY <2>2 DEF Early, TypeOK
  <2> QED
    BY <2>3, <2>4, <2>5, <2>6 DEF CanGo, Closed
<1>4. ASSUME pc = "drain", toParent[reading] # <<>>
      PROVE  Head(toParent[reading]).type
               \in {"test_result", "php_error", "tests_finished", "ready"}
  <2>1. reading \in Worker /\ reading \in workerSocks
    BY <1>4 DEF TypeOK, ProtocolInv, Listening
  <2>2. Sent(reading, Head(toParent[reading]).type)
    BY <1>4, <2>1, HeadSent
  <2>3. ~Sent(reading, "hello_reply")
    BY <2>1 DEF AttendInv, Replies
  <2>4. Head(toParent[reading]) \in ToParentMsg
    BY <1>4, <2>1, HeadType DEF TypeOK
  <2>5. Head(toParent[reading]).type
          \in {"hello_reply", "ready", "tests_finished", "php_error", "test_result"}
    BY <2>4 DEF ToParentMsg
  <2> QED
    BY <2>2, <2>3, <2>5
<1> QED
  BY <1>1, <1>2, <1>3, <1>4 DEF WaitsForSomeone, AttendInv, TurnsKept

(* The parent never waits for nobody: wherever it waits, for a connection, *)
(* a reply, a message or a readable socket, there is one, or a worker that *)
(* can go on without it, or one that is gone, and the worker it reads from *)
(* has said something it knows. So no step of the protocol leaves parent   *)
(* and workers waiting on one another.                                     *)
THEOREM NeverWaitsForNobody == Spec => []WaitsForSomeone
<1>1. Init => AttendInv
  BY AttendInit
<1>2. RunInv /\ AttendInv /\ [Next]_vars => AttendInv'
  BY AttendStep
<1>3. RunInv /\ AttendInv => WaitsForSomeone
  BY AttendWaits
<1> QED
  BY <1>1, <1>2, <1>3, WorkInductive, PTL DEF Spec

-------------------------------------------------------------------------------
(* Every step uses up some of what is left to do.                          *)

(* A set of natural numbers has a least.                                   *)
LEMMA LeastNumber ==
  ASSUME NEW S, S \subseteq Nat, S # {}
  PROVE  \E x \in S : \A y \in S : x <= y
<1>1. PICK x \in S : \A y \in S : ~(<<y, x>> \in OpToRel(<, Nat))
  BY NatLessThanWellFounded, WFMin, Zenon
<1>2. \A y \in S : ~(y < x)
  BY <1>1, Zenon DEF OpToRel
<1> QED
  BY <1>2

(* It is enough that one number falls and that none before it rises.       *)
LEMMA LowerAt ==
  ASSUME NEW L \in Nat, NEW s \in [1 .. L -> Nat], NEW t \in [1 .. L -> Nat],
         NEW n \in 1 .. L, s[n] < t[n], \A m \in 1 .. n - 1 : s[m] <= t[m]
  PROVE  Lower(s, t)
<1> DEFINE S == {m \in 1 .. L : s[m] < t[m]}
<1>1. S \subseteq Nat /\ n \in S
  OBVIOUS
<1>2. PICK m \in S : \A k \in S : m <= k
  <2> HIDE DEF S
  <2> QED
    BY <1>1, LeastNumber
<1>3. m <= n /\ m \in 1 .. L /\ s[m] < t[m]
  BY <1>1, <1>2
<1>4. \A k \in 1 .. m - 1 : s[k] = t[k]
  <2> TAKE k \in 1 .. m - 1
  <2>1. k \in 1 .. L /\ k \in 1 .. n - 1 /\ ~(m <= k)
    BY <1>3
  <2>2. ~(s[k] < t[k])
    BY <1>2, <2>1
  <2>3. s[k] <= t[k] /\ s[k] \in Nat /\ t[k] \in Nat
    BY <2>1
  <2> QED
    BY <2>2, <2>3
<1>5. DOMAIN t = 1 .. L
  OBVIOUS
<1> HIDE DEF S
<1> QED
  BY <1>3, <1>4, <1>5 DEF Lower

(* Lists of natural numbers do not fall for ever: the first number changes *)
(* only so often, after its last change neither does the second one, and   *)
(* so on.                                                                  *)
LEMMA NoEndlessDescent ==
  ASSUME NEW L \in Nat, NEW f \in [Nat -> [1 .. L -> Nat]]
  PROVE  \E n \in Nat : ~Lower(f[n + 1], f[n])
<1> SUFFICES ASSUME \A n \in Nat : Lower(f[n + 1], f[n]) PROVE FALSE
  OBVIOUS
<1> DEFINE Stays(k, N) == \A n \in Nat : n >= N => \A m \in 1 .. k : f[n + 1][m] = f[n][m]
           S == {j \in 0 .. L : \E N \in Nat : Stays(L - j, N)}
<1>0. \A n \in Nat : f[n] \in [1 .. L -> Nat] /\ f[n + 1] \in [1 .. L -> Nat]
  OBVIOUS
<1>1. \A n \in Nat : \E l \in 1 .. L : /\ f[n + 1][l] < f[n][l]
                                        /\ \A m \in 1 .. l - 1 : f[n + 1][m] = f[n][m]
  <2> TAKE n \in Nat
  <2>1. Lower(f[n + 1], f[n]) /\ DOMAIN f[n] = 1 .. L
    BY <1>0
  <2> QED
    BY <2>1 DEF Lower
<1>2. S \subseteq Nat /\ L \in S
  <2>1. Stays(L - L, 0)
    OBVIOUS
  <2> HIDE DEF Stays
  <2> QED
    BY <2>1
<1>3. PICK j \in S : \A i \in S : j <= i
  <2> HIDE DEF S
  <2> QED
    BY <1>2, LeastNumber
<1>4. PICK N \in Nat : Stays(L - j, N)
  <2> HIDE DEF Stays
  <2> QED
    OBVIOUS
<1>5. j \in 1 .. L
  <2>1. SUFFICES ASSUME j = 0 PROVE FALSE
    BY DEF S
  <2>2. PICK l \in 1 .. L : f[N + 1][l] < f[N][l]
    BY <1>1
  <2>3. f[N + 1][l] = f[N][l]
    BY <1>4, <2>1
  <2>4. PICK x \in Nat : f[N][l] = x
    BY <1>0
  <2> QED
    BY <2>2, <2>3, <2>4
<1> DEFINE c == L - j + 1
           V == {f[n][c] : n \in {n \in Nat : n >= N}}
<1>6. c \in 1 .. L /\ L - (j - 1) = c /\ j - 1 \in 0 .. L /\ L - j = c - 1
  BY <1>5
<1> HIDE DEF c
<1>7. \A n \in Nat : /\ f[n][c] \in Nat /\ f[n + 1][c] \in Nat
                     /\ n >= N => f[n + 1][c] <= f[n][c]
  <2> TAKE n \in Nat
  <2>1. f[n][c] \in Nat /\ f[n + 1][c] \in Nat
    BY <1>0, <1>6
  <2>2. PICK x \in Nat, y \in Nat : f[n][c] = x /\ f[n + 1][c] = y
    BY <2>1
  <2>3. SUFFICES ASSUME n >= N PROVE y <= x
    BY <2>2
  <2>4. PICK l \in 1 .. L : /\ f[n + 1][l] < f[n][l]
                            /\ \A m \in 1 .. l - 1 : f[n + 1][m] = f[n][m]
    BY <1>1
  <2>5. \A m \in 1 .. c - 1 : f[n + 1][m] = f[n][m]
    BY <1>4, <1>6, <2>3
  <2>6. CASE l < c
    <3>1. f[n + 1][l] = f[n][l]
      BY <1>6, <2>5, <2>6
    <3>2. PICK z \in Nat : f[n][l] = z
      BY <1>0
    <3> QED
      BY <2>4, <3>1, <3>2
  <2>7. CASE l = c
    <3>1. y < x
      BY <2>2, <2>4, <2>7
    <3> QED
      BY <3>1
  <2>8. CASE l > c
    <3>1. c \in 1 .. l - 1
      BY <1>6, <2>8
    <3>2. y = x
      BY <2>2, <2>4, <3>1
    <3> QED
      BY <3>2
  <2> QED
    BY <1>6, <2>6, <2>7, <2>8
<1>8. PICK v \in V : \A u \in V : v <= u
  <2>1. V \subseteq Nat
    <3>1. SUFFICES ASSUME NEW n \in Nat, n >= N PROVE f[n][c] \in Nat
      OBVIOUS
    <3> QED
      BY <1>7
  <2>2. f[N][c] \in V
    OBVIOUS
  <2> HIDE DEF V
  <2> QED
    BY <2>1, <2>2, LeastNumber
<1>9. PICK n0 \in Nat : n0 >= N /\ f[n0][c] = v
  OBVIOUS
<1>10. \A n \in Nat : n >= n0 => f[n][c] = v
  <2> DEFINE T == {n \in Nat : n >= n0 /\ f[n][c] # v}
  <2>1. SUFFICES T = {}
    OBVIOUS
  <2>2. SUFFICES ASSUME T # {} PROVE FALSE
    OBVIOUS
  <2>3. PICK n \in T : \A i \in T : n <= i
    <3>1. T \subseteq Nat
      OBVIOUS
    <3> HIDE DEF T
    <3> QED
      BY <2>2, <3>1, LeastNumber
  <2>4. n \in Nat /\ n > n0 /\ f[n][c] # v
    <3>1. n \in Nat /\ n >= n0 /\ f[n][c] # v
      OBVIOUS
    <3>2. n # n0
      BY <1>9, <3>1
    <3> HIDE DEF T
    <3> QED
      BY <1>9, <3>1, <3>2
  <2>5. n - 1 \in Nat /\ n - 1 >= n0 /\ n - 1 \notin T /\ n - 1 + 1 = n
    <3>1. n - 1 \in Nat /\ n - 1 >= n0 /\ n - 1 + 1 = n /\ ~(n <= n - 1)
      BY <1>9, <2>4
    <3> HIDE DEF T
    <3> QED
      BY <2>3, <3>1
  <2>6. f[n - 1][c] = v
    BY <2>5
  <2>7. f[n - 1 + 1][c] <= f[n - 1][c] /\ f[n - 1 + 1][c] \in Nat
    <3>1. n - 1 >= N
      BY <1>9, <2>5
    <3> QED
      BY <1>7, <2>5, <3>1
  <2>8. v <= f[n][c]
    <3>1. n >= N
      BY <1>9, <2>4
    <3> HIDE DEF T
    <3>2. f[n][c] \in V
      BY <2>4, <3>1
    <3> QED
      BY <1>8, <3>2
  <2>9. v \in Nat
    BY <1>7, <1>9
  <2>10. PICK x \in Nat : f[n][c] = x
    BY <2>5, <2>7
  <2>11. x <= v /\ v <= x /\ x # v
    BY <2>4, <2>5, <2>6, <2>7, <2>8, <2>10
  <2> HIDE DEF T
  <2> QED
    BY <2>9, <2>11
<1>11. Stays(c, n0)
  <2> SUFFICES ASSUME NEW n \in Nat, n >= n0, NEW m \in 1 .. c PROVE f[n + 1][m] = f[n][m]
    OBVIOUS
  <2>1. CASE m = c
    <3>1. n + 1 \in Nat /\ n + 1 >= n0
      BY <1>9
    <3> QED
      BY <1>10, <2>1, <3>1
  <2>2. CASE m # c
    <3>1. n >= N /\ m \in 1 .. c - 1
      BY <1>6, <1>9, <2>2
    <3> QED
      BY <1>4, <1>6, <3>1
  <2> QED
    BY <2>1, <2>2
<1>12. j - 1 \in S
  <2> HIDE DEF Stays
  <2> QED
    BY <1>6, <1>9, <1>11
<1> HIDE DEF S
<1> QED
  BY <1>3, <1>5, <1>12

(* The places below the numbers of the workers are finitely many.          *)
LEMMA PlacesFinite ==
  ASSUME NEW f \in [Worker -> Nat]
  PROVE  IsFiniteSet(Places(f))
<1> DEFINE Col(w) == {w} \X (1 .. f[w])
           cols == [w \in Worker |-> Col(w)]
           C == {Col(w) : w \in Worker}
<1>1. IsFiniteSet(Worker)
  BY OptionsAssumption, FS_Interval DEF Worker
<1>2. \A w \in Worker : IsFiniteSet(Col(w))
  <2> TAKE w \in Worker
  <2>1. IsFiniteSet({w})
    BY FS_Singleton
  <2>2. IsFiniteSet(1 .. f[w])
    BY FS_Interval
  <2>3. IsFiniteSet({w} \X (1 .. f[w]))
    BY <2>1, <2>2, FS_Product
  <2> QED
    BY <2>3
<1>3. cols \in Surjection(Worker, C)
  <2> HIDE DEF Col
  <2> QED
    BY DEF Surjection
<1>4. IsFiniteSet(C)
  <2> HIDE DEF C, cols
  <2> QED
    BY <1>1, <1>3, FS_Surjection
<1>5. \A T \in C : IsFiniteSet(T)
  <2> HIDE DEF Col
  <2> QED
    BY <1>2
<1>6. IsFiniteSet(UNION C)
  <2> HIDE DEF C
  <2> QED
    BY <1>4, <1>5, FS_UNION
<1> QED
  BY <1>6 DEF Places

(* A total is a number, which grows with the numbers it is the total of.   *)
LEMMA TotalMore ==
  ASSUME NEW f \in [Worker -> Nat], NEW g \in [Worker -> Nat],
         \A w \in Worker : f[w] <= g[w]
  PROVE  /\ Total(f) \in Nat /\ Total(g) \in Nat
         /\ Total(f) <= Total(g)
         /\ (\E w \in Worker : f[w] < g[w]) => Total(f) < Total(g)
<1>1. Places(f) \in SUBSET Places(g)
  <2> SUFFICES ASSUME NEW w \in Worker PROVE 1 .. f[w] \subseteq 1 .. g[w]
    BY DEF Places
  <2>1. PICK a \in Nat, b \in Nat : f[w] = a /\ g[w] = b
    OBVIOUS
  <2>2. a <= b
    BY <2>1
  <2> QED
    BY <2>1, <2>2
<1>2. IsFiniteSet(Places(f)) /\ IsFiniteSet(Places(g))
  BY PlacesFinite
<1>3. /\ Total(f) \in Nat /\ Total(g) \in Nat /\ Total(f) <= Total(g)
      /\ Total(f) = Total(g) => Places(f) = Places(g)
  BY <1>1, <1>2, FS_Subset, FS_CardinalityType DEF Total
<1>4. ASSUME NEW w \in Worker, f[w] < g[w] PROVE Places(f) # Places(g)
  <2>1. PICK a \in Nat, b \in Nat : f[w] = a /\ g[w] = b
    OBVIOUS
  <2>2. a < b /\ b \in Nat \ {0} /\ ~(b <= a)
    BY <1>4, <2>1
  <2>3. <<w, b>> \in Places(g)
    BY <2>1, <2>2 DEF Places
  <2>4. <<w, b>> \notin Places(f)
    BY <2>1, <2>2 DEF Places
  <2> QED
    BY <2>3, <2>4
<1> QED
  BY <1>3, <1>4

(* The places of the redirecting tests are among those of all tests.       *)
LEMMA RedirectsFinite ==
  ASSUME NEW c \in [Worker -> Seq(Test)]
  PROVE  IsFiniteSet(RedirectsIn(c))
<1> DEFINE f == [w \in Worker |-> Len(c[w])]
<1>1. f \in [Worker -> Nat]
  OBVIOUS
<1>2. RedirectsIn(c) \in SUBSET Places(f)
  <2> SUFFICES ASSUME NEW w \in Worker PROVE RedirectsOf(c[w]) \subseteq 1 .. f[w]
    BY DEF Places, RedirectsIn
  <2> QED
    BY DEF RedirectsOf
<1>3. IsFiniteSet(Places(f))
  BY <1>1, PlacesFinite
<1> QED
  BY <1>2, <1>3, FS_Subset

(* A list has finitely many members.                                       *)
LEMMA RangeFinite ==
  ASSUME NEW S, NEW s \in Seq(S)
  PROVE  IsFiniteSet(Range(s))
<1>1. s \in [1 .. Len(s) -> S] /\ Len(s) \in Nat
  BY LenProperties
<1>2. s \in Surjection(1 .. Len(s), Range(s))
  BY <1>1 DEF Surjection, Range
<1>3. IsFiniteSet(1 .. Len(s))
  BY <1>1, FS_Interval
<1> QED
  BY <1>2, <1>3, FS_Surjection

(* What is left to do is counted in natural numbers.                       *)
LEMMA LeftTypes ==
  RunInv /\ Counted =>
    /\ Stage[pc] \in Nat /\ Setup \in Nat /\ Cardinality(Pending) \in Nat
    /\ Cardinality(workerProcs) \in Nat /\ ToldWorkers \in Nat
    /\ Cardinality(Redirects) \in Nat /\ Total(Chores) \in Nat /\ ToldParent \in Nat
    /\ Errand \in Nat /\ Rounds \in Nat
<1> SUFFICES ASSUME RunInv, Counted
             PROVE  /\ Stage[pc] \in Nat /\ Setup \in Nat /\ Cardinality(Pending) \in Nat
                    /\ Cardinality(workerProcs) \in Nat /\ ToldWorkers \in Nat
                    /\ Cardinality(Redirects) \in Nat /\ Total(Chores) \in Nat
                    /\ ToldParent \in Nat /\ Errand \in Nat /\ Rounds \in Nat
  OBVIOUS
<1>0. TypeOK
  BY DEF RunInv, IndInv
<1>1. Stage[pc] \in Nat
  BY <1>0 DEF Stage, TypeOK, Pcs
<1>2. IsFiniteSet(Worker) /\ Cardinality(Worker) = NWorkers
  BY OptionsAssumption, FS_Interval DEF Worker
<1>3. /\ IsFiniteSet(workerProcs) /\ Cardinality(workerProcs) \in 0 .. NWorkers
      /\ Cardinality(workerSocks) \in 0 .. NWorkers
  <2>1. workerProcs \in SUBSET Worker /\ workerSocks \in SUBSET Worker
    BY <1>0 DEF TypeOK
  <2> QED
    BY <1>2, <2>1, FS_Subset, FS_CardinalityType, OptionsAssumption
<1>4. Setup \in Nat
  <2>1. Len(unread) \in Nat
    BY <1>0 DEF TypeOK
  <2> QED
    BY <1>3, <2>1, OptionsAssumption DEF Setup
<1>5. Cardinality(Pending) \in Nat
  BY RangeFinite, TestsAssumption, FS_Subset, FS_CardinalityType DEF Counted, Tests
<1>6. ToldWorkers \in Nat /\ ToldParent \in Nat
  <2>1. /\ [w \in Worker |-> Len(toWorker[w])] \in [Worker -> Nat]
        /\ [w \in Worker |-> Len(toParent[w])] \in [Worker -> Nat]
    BY <1>0 DEF TypeOK
  <2>2. \A f \in [Worker -> Nat] : \A w \in Worker : f[w] <= f[w]
    OBVIOUS
  <2>3. \A f \in [Worker -> Nat] : Total(f) \in Nat
    BY <2>2, TotalMore
  <2> QED
    BY <2>1, <2>3 DEF ToldWorkers, ToldParent
<1>7. Cardinality(Redirects) \in Nat
  BY <1>0, RedirectsFinite, FS_CardinalityType DEF TypeOK, Redirects
<1>8. Total(Chores) \in Nat
  <2>1. Chores \in [Worker -> Nat]
    <3>1. \A w \in Worker : Rank[wpc[w]] \in Nat
      BY <1>0 DEF Rank, TypeOK
    <3>2. \A w \in Worker : Len(todo[w]) \in Nat
      BY <1>0 DEF TypeOK
    <3> QED
      BY <3>1, <3>2 DEF Chores
  <2> HIDE DEF Chores
  <2>2. \A w \in Worker : Chores[w] <= Chores[w]
    BY <2>1
  <2> QED
    BY <2>1, <2>2, TotalMore
<1>9. Errand \in Nat
  BY DEF Errand
<1>10. Rounds \in Nat
  <2>1. Len(test_files) \in Nat
    BY <1>0 DEF TypeOK
  <2>2. Cardinality(DOMAIN activeConflicts) \in Nat
    BY FS_CardinalityType DEF Counted
  <2> QED
    BY <2>1, <2>2 DEF Rounds
<1> QED
  BY <1>1, <1>3, <1>4, <1>5, <1>6, <1>7, <1>8, <1>9, <1>10

(* Left is a list of ten numbers.                                          *)
LEMMA LeftAt ==
  RunInv /\ Counted =>
    /\ Left \in [1 .. 10 -> Nat]
    /\ Left[1] = Stage[pc] /\ Left[2] = Setup /\ Left[3] = Cardinality(Pending)
    /\ Left[4] = Cardinality(workerProcs) /\ Left[5] = ToldWorkers
    /\ Left[6] = Cardinality(Redirects) /\ Left[7] = Total(Chores)
    /\ Left[8] = ToldParent /\ Left[9] = Errand /\ Left[10] = Rounds
<1> SUFFICES ASSUME RunInv /\ Counted
             PROVE  /\ Left \in [1 .. 10 -> Nat]
                    /\ Left[1] = Stage[pc] /\ Left[2] = Setup /\ Left[3] = Cardinality(Pending)
                    /\ Left[4] = Cardinality(workerProcs) /\ Left[5] = ToldWorkers
                    /\ Left[6] = Cardinality(Redirects) /\ Left[7] = Total(Chores)
                    /\ Left[8] = ToldParent /\ Left[9] = Errand /\ Left[10] = Rounds
  OBVIOUS
<1>1. PICK a1 \in Nat, a2 \in Nat, a3 \in Nat, a4 \in Nat, a5 \in Nat :
        /\ a1 = Stage[pc] /\ a2 = Setup /\ a3 = Cardinality(Pending)
        /\ a4 = Cardinality(workerProcs) /\ a5 = ToldWorkers
  BY LeftTypes
<1>2. PICK a6 \in Nat, a7 \in Nat, a8 \in Nat, a9 \in Nat, a10 \in Nat :
        /\ a6 = Cardinality(Redirects) /\ a7 = Total(Chores)
        /\ a8 = ToldParent /\ a9 = Errand /\ a10 = Rounds
  BY LeftTypes
<1>3. Left = <<a1, a2, a3, a4, a5, a6, a7, a8, a9, a10>>
  BY <1>1, <1>2 DEF Left
<1>4. /\ Left \in [1 .. 10 -> Nat]
      /\ Left[1] = a1 /\ Left[2] = a2 /\ Left[3] = a3 /\ Left[4] = a4 /\ Left[5] = a5
      /\ Left[6] = a6 /\ Left[7] = a7 /\ Left[8] = a8 /\ Left[9] = a9 /\ Left[10] = a10
  BY <1>3
<1> QED
  BY <1>1, <1>2, <1>4

(* Step by step down the list: one number falls, none before it rises.     *)
LEMMA LeftLower ==
  ASSUME RunInv /\ Counted, (RunInv /\ Counted)',
         \/ Stage[pc'] < Stage[pc]
         \/ /\ Stage[pc'] <= Stage[pc]
            /\ \/ Setup' < Setup
               \/ /\ Setup' <= Setup
                  /\ \/ Cardinality(Pending') < Cardinality(Pending)
                     \/ /\ Cardinality(Pending') <= Cardinality(Pending)
                        /\ \/ Cardinality(workerProcs') < Cardinality(workerProcs)
                           \/ /\ Cardinality(workerProcs') <= Cardinality(workerProcs)
                              /\ \/ ToldWorkers' < ToldWorkers
                                 \/ /\ ToldWorkers' <= ToldWorkers
                                    /\ \/ Cardinality(Redirects') < Cardinality(Redirects)
                                       \/ /\ Cardinality(Redirects') <= Cardinality(Redirects)
                                          /\ \/ Total(Chores') < Total(Chores)
                                             \/ /\ Total(Chores') <= Total(Chores)
                                                /\ \/ ToldParent' < ToldParent
                                                   \/ /\ ToldParent' <= ToldParent
                                                      /\ \/ Errand' < Errand
                                                         \/ /\ Errand' <= Errand
                                                            /\ Rounds' < Rounds
  PROVE  Lower(Left', Left)
<1>1. /\ Left \in [1 .. 10 -> Nat]
      /\ Left[1] = Stage[pc] /\ Left[2] = Setup /\ Left[3] = Cardinality(Pending)
      /\ Left[4] = Cardinality(workerProcs) /\ Left[5] = ToldWorkers
      /\ Left[6] = Cardinality(Redirects) /\ Left[7] = Total(Chores)
      /\ Left[8] = ToldParent /\ Left[9] = Errand /\ Left[10] = Rounds
  BY LeftAt
<1>2. (/\ Left \in [1 .. 10 -> Nat]
       /\ Left[1] = Stage[pc] /\ Left[2] = Setup /\ Left[3] = Cardinality(Pending)
       /\ Left[4] = Cardinality(workerProcs) /\ Left[5] = ToldWorkers
       /\ Left[6] = Cardinality(Redirects) /\ Left[7] = Total(Chores)
       /\ Left[8] = ToldParent /\ Left[9] = Errand /\ Left[10] = Rounds)'
  BY LeftAt, PTL
<1>3. \E n \in 1 .. 10 : Left'[n] < Left[n] /\ \A m \in 1 .. n - 1 : Left'[m] <= Left[m]
  BY <1>1, <1>2
<1> QED
  BY <1>1, <1>2, <1>3, LowerAt

(* Only a batch that is sent takes tests out of the queues, and it does.   *)
LEMMA PendingLess ==
  ASSUME RunInv, KeptOnce, Counted, [Next]_vars
  PROVE  /\ Pending' \subseteq Pending
         /\ Cardinality(Pending') <= Cardinality(Pending)
         /\ Dispatch => Cardinality(Pending') < Cardinality(Pending)
<1> USE DEF RunInv, IndInv
<1>1. CASE Dispatch
  <2>1. /\ Pending' = Pending \ Range(files) /\ Range(files) \subseteq Pending
    BY <1>1, DispatchTakes
  <2>2. Range(files) # {}
    <3>1. files # <<>> /\ files \in Seq(Test)
      BY <1>1 DEF Dispatch, TypeOK
    <3>2. Len(files) \in Nat \ {0} /\ DOMAIN files = 1 .. Len(files)
      BY <3>1, EmptySeq, LenProperties
    <3>3. 1 \in DOMAIN files
      BY <3>2
    <3> QED
      BY <3>3 DEF Range
  <2>3. IsFiniteSet(Pending)
    BY RangeFinite, TestsAssumption, FS_Subset DEF Counted, Tests
  <2>4. Pending' \in SUBSET Pending /\ Pending' # Pending
    BY <2>1, <2>2
  <2>5. /\ IsFiniteSet(Pending') /\ Cardinality(Pending') <= Cardinality(Pending)
        /\ Cardinality(Pending) = Cardinality(Pending') => Pending = Pending'
    BY <2>3, <2>4, FS_Subset
  <2> QED
    BY <2>3, <2>4, <2>5, FS_CardinalityType
<1>2. CASE ~Dispatch
  <2>1. Pending' = Pending
    BY <1>2, QueuesMove, QueuesAlone
  <2>2. Cardinality(Pending) \in Nat
    BY LeftTypes
  <2> QED
    BY <1>2, <2>1, <2>2
<1> QED
  BY <1>1, <1>2

(* At the start all tests are in the list and no key is in use.            *)
LEMMA CountedInit == Init => Counted
<1> SUFFICES ASSUME Init PROVE Counted
  OBVIOUS
<1>1. Pending = Tests
  <2>1. Range(<<>>) = {}
    BY DEF Range
  <2> QED
    BY <2>1 DEF Init, Pending, Tests
<1>2. DOMAIN activeConflicts = {}
  BY DEF Init
<1> QED
  BY <1>1, <1>2, FS_EmptySet DEF Counted

(* A batch has finitely many keys.                                         *)
LEMMA KeysFinite ==
  ASSUME NEW s \in Seq(Test)
  PROVE  IsFiniteSet(UNION {Keys(t) : t \in Range(s)})
<1> DEFINE f == [n \in 1 .. Len(s) |-> Keys(s[n])]
           K == {Keys(t) : t \in Range(s)}
<1>1. Len(s) \in Nat /\ DOMAIN s = 1 .. Len(s) /\ Range(s) = {s[n] : n \in 1 .. Len(s)}
  BY LenProperties DEF Range
<1>2. f \in Surjection(1 .. Len(s), K)
  BY <1>1 DEF Surjection
<1>3. IsFiniteSet(1 .. Len(s))
  <2> HIDE DEF f, K
  <2>1. Len(s) \in Int
    BY <1>1
  <2> QED
    BY <2>1, FS_Interval
<1>4. IsFiniteSet(K)
  <2> HIDE DEF f, K
  <2> QED
    BY <1>2, <1>3, FS_Surjection
<1>5. \A T \in K : IsFiniteSet(T)
  <2> SUFFICES ASSUME NEW t \in Range(s) PROVE IsFiniteSet(Keys(t))
    OBVIOUS
  <2>1. t \in Test
    BY <1>1
  <2>2. fileConflictsWith[t] \in Seq(Key)
    BY <2>1, TestsAssumption
  <2> QED
    BY <2>2, RangeFinite DEF Keys
<1> HIDE DEF K
<1>6. IsFiniteSet(UNION K)
  BY <1>4, <1>5, FS_UNION
<1> QED
  BY <1>6 DEF K

(* No test is added, and only the keys of one batch at a time.             *)
LEMMA CountedStep == RunInv /\ KeptOnce /\ Counted /\ [Next]_vars => Counted'
<1> SUFFICES ASSUME RunInv, KeptOnce, Counted, [Next]_vars PROVE Counted'
  OBVIOUS
<1> USE DEF RunInv, IndInv
<1>1. Pending' \subseteq Tests
  BY PendingLess DEF Counted
<1>2. IsFiniteSet(DOMAIN activeConflicts')
  <2>1. CASE Dispatch
    <3> DEFINE K == UNION {Keys(t) : t \in Range(files)}
    <3>1. IsFiniteSet(K)
      BY KeysFinite DEF TypeOK
    <3>2. DOMAIN activeConflicts' = K \cup DOMAIN activeConflicts
      BY <2>1 DEF Dispatch
    <3> HIDE DEF K
    <3> QED
      BY <3>1, <3>2, FS_Union DEF Counted
  <2>2. CASE \E k \in Key : Release(k)
    <3>1. PICK k \in Key : DOMAIN activeConflicts' = DOMAIN activeConflicts \ {k}
      BY <2>2 DEF Release
    <3> QED
      BY <3>1, FS_RemoveElement DEF Counted
  <2>3. CASE ~Dispatch /\ ~(\E k \in Key : Release(k))
    <3>1. UNCHANGED activeConflicts
      <4>1. CASE Parent
        BY <2>3, <4>1 DEF Parent, ReadConflicts, OrderTests, Spawn, SpawnFails, Accept,
           AcceptFails, ReadReply, ReplyFails, Select, TakeSocket, Drained, ReadResult,
           ReadPhpError, ReadFinished, ReadReady, FallThrough, StartBatch, PopFree, PopBlocked,
           Retire, Finish, Abort
      <4>2. CASE ~Parent
        BY <4>2, WorkerFrame
      <4> QED
        BY <4>1, <4>2
    <3> QED
      BY <3>1 DEF Counted
  <2> QED
    BY <2>1, <2>2, <2>3
<1> QED
  BY <1>1, <1>2 DEF Counted

-------------------------------------------------------------------------------
(* What is not touched stays.                                              *)

(* The lengths of the connections are numbers.                             *)
LEMMA LensTypes ==
  TypeOK => /\ [w \in Worker |-> Len(toWorker[w])] \in [Worker -> Nat]
            /\ [w \in Worker |-> Len(toParent[w])] \in [Worker -> Nat]
BY DEF TypeOK

(* So are a worker's distance from its end and its tests.                  *)
LEMMA RankTypes == TypeOK => \A w \in Worker : Rank[wpc[w]] \in Nat /\ Len(todo[w]) \in Nat
BY DEF Rank, TypeOK

(* So is what a worker has still to do.                                    *)
LEMMA ChoresTypes == TypeOK => Chores \in [Worker -> Nat]
<1> SUFFICES ASSUME TypeOK PROVE Chores \in [Worker -> Nat]
  OBVIOUS
<1> QED
  BY RankTypes DEF Chores

(* A connection that is not used has as much to be read.                   *)
LEMMA ToldSame ==
  /\ UNCHANGED toWorker => ToldWorkers' = ToldWorkers
  /\ UNCHANGED toParent => ToldParent' = ToldParent
BY DEF ToldWorkers, ToldParent

(* So have the workers, while none gets or runs a test.                    *)
LEMMA RedirectsSame == UNCHANGED todo => Redirects' = Redirects
BY DEF Redirects

(* The workers' chores are the same while the parent reads what is no      *)
(* report of an error.                                                     *)
LEMMA ChoresSame ==
  ASSUME TypeOK, TypeOK', UNCHANGED workerVars,
         \/ UNCHANGED toParent
         \/ /\ reading \in Worker /\ toParent[reading] # <<>> /\ TakeMessage
            /\ Head(toParent[reading]).type # "php_error"
  PROVE  Total(Chores') <= Total(Chores)
<1>1. \A w \in Worker : Sent(w, "php_error") => Sent(w, "php_error")'
  <2> TAKE w \in Worker
  <2>1. CASE UNCHANGED toParent
    BY <2>1 DEF Sent
  <2>2. CASE /\ reading \in Worker /\ toParent[reading] # <<>> /\ TakeMessage
             /\ Head(toParent[reading]).type # "php_error"
    <3> HAVE Sent(w, "php_error")
    <3> QED
      BY <2>2, SentRest
  <2> QED
    BY <2>1, <2>2
<1>2. Chores \in [Worker -> Nat] /\ Chores' \in [Worker -> Nat]
  <2>1. (Chores \in [Worker -> Nat])'
    BY ChoresTypes, PTL
  <2> QED
    BY <2>1, ChoresTypes
<1>3. \A w \in Worker : Chores'[w] <= Chores[w]
  <2> TAKE w \in Worker
  <2>1. PICK a \in Nat, b \in Nat : a = Rank[wpc[w]] /\ b = Len(todo[w])
    BY RankTypes
  <2>2. Chores[w] = a + b + (IF Sent(w, "php_error") THEN 0 ELSE 1)
    BY <2>1 DEF Chores
  <2>3. Chores'[w] = a + b + (IF Sent(w, "php_error")' THEN 0 ELSE 1)
    BY <2>1 DEF Chores
  <2> QED
    BY <1>1, <2>2, <2>3
<1> QED
  BY <1>2, <1>3, TotalMore

(* One list of those that the workers have loses its first.                *)
LEMMA TotalTail ==
  ASSUME NEW S, NEW c \in [Worker -> Seq(S)], NEW d \in [Worker -> Seq(S)],
         NEW x \in Worker, c[x] # <<>>, d[x] = Tail(c[x]),
         \A w \in Worker \ {x} : d[w] = c[w]
  PROVE  Total([w \in Worker |-> Len(d[w])]) < Total([w \in Worker |-> Len(c[w])])
<1> DEFINE f == [w \in Worker |-> Len(c[w])]
           g == [w \in Worker |-> Len(d[w])]
<1>1. f \in [Worker -> Nat] /\ g \in [Worker -> Nat]
  OBVIOUS
<1>2. PICK n \in Nat : n = Len(c[x]) /\ n # 0 /\ Len(d[x]) = n - 1
  BY HeadType, EmptySeq
<1>3. \A w \in Worker : g[w] <= f[w]
  <2> TAKE w \in Worker
  <2>1. CASE w = x
    BY <1>2, <2>1
  <2>2. CASE w # x
    <3>1. g[w] = f[w] /\ f[w] \in Nat
      BY <1>1, <2>2
    <3> QED
      BY <3>1
  <2> QED
    BY <2>1, <2>2
<1>4. g[x] < f[x]
  BY <1>2
<1> HIDE DEF f, g
<1>5. Total(g) < Total(f)
  BY <1>1, <1>3, <1>4, TotalMore
<1> QED
  BY <1>5 DEF f, g

(* A message that is read is read once.                                    *)
LEMMA ReadLess ==
  ASSUME TypeOK, TypeOK', reading \in Worker, toParent[reading] # <<>>, TakeMessage
  PROVE  ToldParent' < ToldParent
<1>1. /\ toParent'[reading] = Tail(toParent[reading])
      /\ \A w \in Worker \ {reading} : toParent'[w] = toParent[w]
  BY DEF TypeOK, TakeMessage
<1>2. toParent \in [Worker -> Seq(ToParentMsg)] /\ toParent' \in [Worker -> Seq(ToParentMsg)]
  BY DEF TypeOK
<1>3. PICK c \in [Worker -> Seq(ToParentMsg)], d \in [Worker -> Seq(ToParentMsg)] :
        c = toParent /\ d = toParent'
  BY <1>2
<1>4. /\ c[reading] # <<>> /\ d[reading] = Tail(c[reading])
      /\ \A w \in Worker \ {reading} : d[w] = c[w]
  BY <1>1, <1>3
<1>5. Total([w \in Worker |-> Len(d[w])]) < Total([w \in Worker |-> Len(c[w])])
  BY <1>4, TotalTail
<1> QED
  BY <1>3, <1>5 DEF ToldParent

(* The same for a worker that reads.                                       *)
LEMMA ToldLess ==
  ASSUME TypeOK, TypeOK', NEW w \in Worker, toWorker[w] # <<>>,
         toWorker' = [toWorker EXCEPT ![w] = Tail(@)]
  PROVE  ToldWorkers' < ToldWorkers
<1>1. /\ toWorker'[w] = Tail(toWorker[w])
      /\ \A v \in Worker \ {w} : toWorker'[v] = toWorker[v]
  BY DEF TypeOK
<1>2. toWorker \in [Worker -> Seq(ToWorkerMsg)] /\ toWorker' \in [Worker -> Seq(ToWorkerMsg)]
  BY DEF TypeOK
<1>3. PICK c \in [Worker -> Seq(ToWorkerMsg)], d \in [Worker -> Seq(ToWorkerMsg)] :
        c = toWorker /\ d = toWorker'
  BY <1>2
<1>4. /\ c[w] # <<>> /\ d[w] = Tail(c[w])
      /\ \A v \in Worker \ {w} : d[v] = c[v]
  BY <1>1, <1>3
<1>5. Total([v \in Worker |-> Len(d[v])]) < Total([v \in Worker |-> Len(c[v])])
  BY <1>4, TotalTail
<1> QED
  BY <1>3, <1>5 DEF ToldWorkers

(* While the parent handles messages it uses up messages, or goes on with  *)
(* the one it has read.                                                    *)
LEMMA LoopLowers ==
  ASSUME RunInv /\ Counted, (RunInv /\ Counted)', AttendInv, KeptOnce, Parent,
         pc \in {"loop", "read", "drain", "release", "batch"},
         pc' \in {"loop", "read", "drain", "release", "batch"},
         ~Dispatch, ~Retire
  PROVE  Lower(Left', Left)
<1> USE DEF RunInv, IndInv
<1>0. \/ Select \/ (\E w \in Worker : TakeSocket(w)) \/ Drained
      \/ ReadResult \/ ReadFinished \/ (\E k \in Key : Release(k))
      \/ ReadReady \/ FallThrough \/ PopFree \/ PopBlocked
  BY DEF Parent, ReadConflicts, OrderTests, Spawn, SpawnFails, Accept, AcceptFails, ReadReply,
     ReplyFails, Finish, Abort, ReadPhpError
<1>1. Stage[pc'] = 1 /\ Stage[pc] = 1 /\ Setup' = 0 /\ Setup = 0
  BY DEF Stage, Setup
<1>2. Cardinality(Pending') <= Cardinality(Pending)
  <2>1. [Next]_vars
    BY DEF Next
  <2> QED
    BY <2>1, PendingLess
<1>3. UNCHANGED <<workerProcs, toWorker, wpc, todo>>
  BY <1>0 DEF Select, TakeSocket, Drained, ReadResult, ReadFinished, Release, ReadReady,
     FallThrough, StartBatch, PopFree, PopBlocked, Abort
<1>4. \/ UNCHANGED toParent
      \/ /\ reading \in Worker /\ toParent[reading] # <<>> /\ TakeMessage
         /\ Head(toParent[reading]).type # "php_error"
  <2>1. CASE ReadResult \/ ReadFinished \/ ReadReady
    BY <2>1 DEF ReadResult, ReadFinished, ReadReady, Reading, TypeOK
  <2>2. CASE ~(ReadResult \/ ReadFinished \/ ReadReady)
    BY <1>0, <2>2 DEF Select, TakeSocket, Drained, Release, FallThrough, PopFree, PopBlocked,
       Abort
  <2> QED
    BY <2>1, <2>2
<1>5. /\ Cardinality(workerProcs') = Cardinality(workerProcs)
      /\ ToldWorkers' = ToldWorkers /\ Redirects' = Redirects
      /\ Total(Chores') <= Total(Chores)
  BY <1>3, <1>4, ToldSame, RedirectsSame, ChoresSame
<1>6. /\ Cardinality(workerProcs) \in Nat /\ ToldWorkers \in Nat
      /\ Cardinality(Redirects) \in Nat /\ ToldParent \in Nat
  BY LeftTypes
<1>7. \/ ToldParent' < ToldParent
      \/ /\ ToldParent' <= ToldParent
         /\ Errand' < Errand \/ (Errand' <= Errand /\ Rounds' < Rounds)
  <2>1. CASE ReadResult \/ ReadFinished \/ ReadReady
    <3>1. reading \in Worker /\ toParent[reading] # <<>> /\ TakeMessage
      BY <2>1 DEF ReadResult, ReadFinished, ReadReady, Reading, TypeOK
    <3> QED
      BY <3>1, ReadLess
  <2>2. CASE ~(ReadResult \/ ReadFinished \/ ReadReady)
    <3>1. UNCHANGED toParent
      BY <1>0, <2>2 DEF Select, TakeSocket, Drained, Release, FallThrough, PopFree,
         PopBlocked, Abort
    <3>2. ToldParent' = ToldParent
      BY <3>1, ToldSame
    <3>3. CASE Select
      BY <1>6, <3>2, <3>3 DEF Select, Errand
    <3>4. ASSUME NEW w \in Worker, TakeSocket(w) PROVE Errand' < Errand
      <4>1. w \in toRead /\ pc = "read" /\ pc' = "drain" /\ reading' = w
            /\ ~(Closed(w) /\ toParent[w] = <<>>)
        BY <3>4 DEF TakeSocket, Abort
      <4>2. toParent[w] # <<>>
        BY <4>1 DEF AttendInv, TurnsKept
      <4> QED
        BY <3>1, <4>1, <4>2 DEF Errand
    <3>5. CASE Drained
      BY <1>6, <3>2, <3>5 DEF Drained, Errand
    <3>6. ASSUME NEW k \in Key, Release(k) PROVE Errand' = Errand /\ Rounds' < Rounds
      <4>1. /\ pc = "release" /\ pc' = "release" /\ k \in DOMAIN activeConflicts
            /\ DOMAIN activeConflicts' = DOMAIN activeConflicts \ {k}
        BY <3>6 DEF Release
      <4>2. Cardinality(DOMAIN activeConflicts') = Cardinality(DOMAIN activeConflicts) - 1
            /\ Cardinality(DOMAIN activeConflicts) \in Nat
        BY <4>1, FS_RemoveElement, FS_CardinalityType DEF Counted
      <4> QED
        BY <4>1, <4>2 DEF Errand, Rounds
    <3>7. CASE FallThrough
      BY <1>6, <3>2, <3>7 DEF FallThrough, StartBatch, Errand
    <3>8. CASE PopFree \/ PopBlocked
      <4>1. /\ pc = "batch" /\ pc' = "batch" /\ test_files # <<>>
            /\ test_files' = Front(test_files) /\ test_files \in Seq(Test)
        BY <3>8 DEF PopFree, PopBlocked, MorePops, TypeOK
      <4>2. Len(test_files') = Len(test_files) - 1 /\ Len(test_files) \in Nat
        BY <4>1, FrontLastType, EmptySeq
      <4> QED
        BY <1>6, <3>2, <4>1, <4>2 DEF Errand, Rounds
    <3>9. Errand \in Nat /\ Errand' = Errand => Errand' <= Errand
      OBVIOUS
    <3>10. Errand \in Nat
      BY LeftTypes
    <3> QED
      BY <1>0, <1>6, <2>2, <3>2, <3>3, <3>4, <3>5, <3>6, <3>7, <3>8, <3>9, <3>10
  <2> QED
    BY <2>1, <2>2
<1> QED
  <2>1. /\ Stage[pc'] <= Stage[pc] /\ Setup' <= Setup
        /\ Cardinality(workerProcs') <= Cardinality(workerProcs)
        /\ ToldWorkers' <= ToldWorkers
        /\ Cardinality(Redirects') <= Cardinality(Redirects)
    BY <1>1, <1>5, <1>6
  <2> QED
    BY <1>2, <1>5, <1>7, <2>1, LeftLower

(* Before the loop, at a batch and at the end the parent comes nearer to   *)
(* its end, to the end of the list, or to a pool with no workers.          *)
LEMMA OnceLowers ==
  ASSUME RunInv /\ Counted, (RunInv /\ Counted)', AttendInv, KeptOnce, Parent,
         \/ pc \notin {"loop", "read", "drain", "release", "batch"}
         \/ pc' \notin {"loop", "read", "drain", "release", "batch"}
         \/ Dispatch \/ Retire
  PROVE  Lower(Left', Left)
<1> USE DEF RunInv, IndInv
<1>0. \/ ReadConflicts \/ OrderTests \/ Spawn \/ (\E w \in Worker : Accept(w)) \/ ReadReply
      \/ pc \notin {"done", "failed"} /\ pc' \in {"done", "failed"}
      \/ Dispatch \/ Retire
  BY DEF Parent, SpawnFails, AcceptFails, ReplyFails, Select, TakeSocket, Drained, ReadResult,
     ReadPhpError, ReadFinished, Release, ReadReady, FallThrough, StartBatch, PopFree,
     PopBlocked, Finish, Abort, Reading
<1>1. Cardinality(Pending') <= Cardinality(Pending)
  <2>1. [Next]_vars
    BY DEF Next
  <2> QED
    BY <2>1, PendingLess
<1>2. IsFiniteSet(Worker) /\ Cardinality(Worker) = NWorkers
  BY OptionsAssumption, FS_Interval DEF Worker
<1>3. /\ IsFiniteSet(workerProcs) /\ Cardinality(workerProcs) \in 0 .. NWorkers
      /\ IsFiniteSet(workerSocks) /\ Cardinality(workerSocks) \in 0 .. NWorkers
  <2>1. workerProcs \in SUBSET Worker /\ workerSocks \in SUBSET Worker
    BY DEF TypeOK
  <2> QED
    BY <1>2, <2>1, FS_Subset, FS_CardinalityType, OptionsAssumption
<1>4. NWorkers \in Nat
  BY OptionsAssumption
<1>5. Setup \in Nat /\ Setup' \in Nat
  <2>1. (Setup \in Nat)'
    BY LeftTypes, PTL
  <2> QED
    BY <2>1, LeftTypes
<1>6. CASE ReadConflicts
  <2>1. /\ pc = "classify" /\ pc' = "classify" /\ unread # <<>> /\ unread \in Seq(Test)
        /\ unread' = Tail(unread)
    BY <1>6 DEF ReadConflicts, TypeOK
  <2>2. Len(unread') = Len(unread) - 1 /\ Len(unread) \in Nat
    BY <2>1, HeadType
  <2>3. Stage[pc'] <= Stage[pc] /\ Setup' < Setup
    BY <2>1, <2>2 DEF Stage, Setup
  <2> QED
    BY <2>3, LeftLower
<1>7. CASE OrderTests
  <2>1. Stage[pc'] < Stage[pc]
    BY <1>7 DEF OrderTests, Stage
  <2> QED
    BY <2>1, LeftLower
<1>8. CASE Spawn
  <2>1. pc = "spawn" /\ pc' \in {"spawn", "accept"}
    BY <1>8 DEF Spawn
  <2>2. CASE pc' = "accept"
    <3>1. Stage[pc'] < Stage[pc]
      BY <2>1, <2>2 DEF Stage
    <3> QED
      BY <3>1, LeftLower
  <2>3. CASE pc' = "spawn"
    <3>1. PICK v \in Worker : v \notin workerProcs /\ workerProcs' = workerProcs \cup {v}
      BY <1>8, SpawnUnborn
    <3>2. Cardinality(workerProcs') = Cardinality(workerProcs) + 1
      BY <1>3, <3>1, FS_AddElement
    <3>3. Stage[pc'] <= Stage[pc] /\ Setup' < Setup
      BY <1>3, <1>4, <2>1, <2>3, <3>2 DEF Stage, Setup
    <3> QED
      BY <3>3, LeftLower
  <2> QED
    BY <2>1, <2>2, <2>3
<1>9. ASSUME NEW w \in Worker, Accept(w) PROVE Lower(Left', Left)
  <2>1. pc = "accept" /\ pc' = "greet" /\ UNCHANGED workerSocks
    BY <1>9 DEF Accept
  <2>2. Stage[pc'] <= Stage[pc] /\ Setup' < Setup
    BY <1>3, <1>4, <2>1 DEF Stage, Setup
  <2> QED
    BY <2>2, LeftLower
<1>10. CASE ReadReply
  <2>1. /\ pc = "greet" /\ pc' \in {"loop", "accept"} /\ reading \notin workerSocks
        /\ workerSocks' = workerSocks \cup {reading}
    BY <1>10 DEF ReadReply, AttendInv, Queueing
  <2>2. CASE pc' = "loop"
    <3>1. Stage[pc'] < Stage[pc]
      BY <2>1, <2>2 DEF Stage
    <3> QED
      BY <3>1, LeftLower
  <2>3. CASE pc' = "accept"
    <3>1. Cardinality(workerSocks') = Cardinality(workerSocks) + 1
      BY <1>3, <2>1, FS_AddElement
    <3>2. Stage[pc'] <= Stage[pc] /\ Setup' < Setup
      BY <1>3, <1>4, <2>1, <2>3, <3>1 DEF Stage, Setup
    <3> QED
      BY <3>2, LeftLower
  <2> QED
    BY <2>1, <2>2, <2>3
<1>11. CASE pc \notin {"done", "failed"} /\ pc' \in {"done", "failed"}
  <2>1. Stage[pc'] = 0
    BY <1>11 DEF Stage
  <2>2. Stage[pc] \in 1 .. 4
    <3>1. pc \in Pcs \ {"done", "failed"}
      BY <1>11 DEF TypeOK
    <3> QED
      BY <3>1 DEF Stage, Pcs
  <2>3. Stage[pc'] < Stage[pc]
    BY <2>1, <2>2
  <2> QED
    BY <2>3, LeftLower
<1>12. CASE Dispatch
  <2>1. pc = "batch" /\ pc' = "drain"
    BY <1>12 DEF Dispatch
  <2>2. Stage[pc'] <= Stage[pc] /\ Setup' <= Setup
    BY <2>1 DEF Stage, Setup
  <2>3. Cardinality(Pending') < Cardinality(Pending)
    <3>1. [Next]_vars
      BY DEF Next
    <3> QED
      BY <1>12, <3>1, PendingLess
  <2> QED
    BY <2>2, <2>3, LeftLower
<1>13. CASE Retire
  <2>0. pc = "batch" /\ pc' = "loop" /\ workerProcs' = workerProcs \ {reading}
    BY <1>13 DEF Retire, Unset
  <2>1. /\ pc = "batch" /\ pc' = "loop" /\ workerProcs' = workerProcs \ {reading}
        /\ reading \in workerProcs
    BY <2>0 DEF ProtocolInv, Listening
  <2>2. Cardinality(workerProcs') = Cardinality(workerProcs) - 1
    BY <1>3, <2>1, FS_RemoveElement
  <2>3. Stage[pc'] <= Stage[pc] /\ Setup' <= Setup
    BY <2>1 DEF Stage, Setup
  <2>4. Cardinality(workerProcs') < Cardinality(workerProcs)
    BY <1>3, <2>2
  <2> QED
    BY <1>1, <2>3, <2>4, LeftLower
<1> QED
  BY <1>0, <1>6, <1>7, <1>8, <1>9, <1>10, <1>11, <1>12, <1>13

-------------------------------------------------------------------------------
(* A worker's steps.                                                       *)

(* One worker has less to do, and the others as much as before.            *)
LEMMA ChoresLess ==
  ASSUME TypeOK, TypeOK', NEW w \in Worker, Chores'[w] < Chores[w],
         \A v \in Worker \ {w} : /\ wpc'[v] = wpc[v] /\ todo'[v] = todo[v]
                                 /\ toParent'[v] = toParent[v]
  PROVE  Total(Chores') < Total(Chores)
<1>1. Chores \in [Worker -> Nat] /\ (Chores \in [Worker -> Nat])'
  BY ChoresTypes, PTL
<1>2. \A v \in Worker : Chores'[v] <= Chores[v]
  <2> TAKE v \in Worker
  <2>1. CASE v = w
    <3>1. Chores'[w] \in Nat /\ Chores[w] \in Nat
      BY <1>1
    <3> QED
      BY <2>1, <3>1
  <2>2. CASE v # w
    <3>1. Chores'[v] = Chores[v]
      BY <2>2 DEF Chores, Sent
    <3>2. Chores[v] \in Nat
      BY <1>1
    <3> QED
      BY <3>1, <3>2
  <2> QED
    BY <2>1, <2>2
<1> QED
  BY <1>1, <1>2, TotalMore

(* The front of a list is taken, or tests that redirect nowhere are put in *)
(* its place: the others keep their places from the end.                   *)
LEMMA RedirectsFront ==
  ASSUME NEW s \in Seq(Test), s # <<>>, NEW r \in Seq(Test),
         \A n \in DOMAIN r : Redirected[r[n]] = <<>>
  PROVE  /\ RedirectsOf(Tail(s)) \subseteq RedirectsOf(s)
         /\ RedirectsOf(r \o Tail(s)) \subseteq RedirectsOf(s) \ {Len(s)}
         /\ Redirected[Head(s)] # <<>> => Len(s) \in RedirectsOf(s)
<1>1. /\ Tail(s) \in Seq(Test) /\ Len(Tail(s)) = Len(s) - 1 /\ Head(s) = s[1]
      /\ \A n \in 1 .. Len(s) - 1 : Tail(s)[n] = s[n + 1]
  BY HeadType
<1>2. PICK l \in Nat : l = Len(s) /\ l # 0
  BY EmptySeq
<1>3. PICK k \in Nat : k = Len(r) /\ DOMAIN r = 1 .. k
  BY LenProperties
<1>4. /\ Len(r \o Tail(s)) = k + l - 1
      /\ \A n \in 1 .. k : (r \o Tail(s))[n] = r[n]
      /\ \A n \in k + 1 .. k + l - 1 : (r \o Tail(s))[n] = Tail(s)[n - k]
  BY <1>1, <1>2, <1>3, ConcatProperties
<1>5. RedirectsOf(Tail(s)) \subseteq RedirectsOf(s)
  <2> SUFFICES ASSUME NEW m \in RedirectsOf(Tail(s)) PROVE m \in RedirectsOf(s)
    OBVIOUS
  <2>1. m \in 1 .. l - 1 /\ Redirected[Tail(s)[l - 1 + 1 - m]] # <<>>
    BY <1>1, <1>2 DEF RedirectsOf
  <2>2. l - 1 + 1 - m \in 1 .. l - 1 /\ l - 1 + 1 - m + 1 = l + 1 - m /\ m \in 1 .. l
    BY <2>1
  <2>3. Tail(s)[l - 1 + 1 - m] = s[l + 1 - m]
    BY <1>1, <1>2, <2>2
  <2> QED
    BY <1>2, <2>1, <2>2, <2>3 DEF RedirectsOf
<1>6. RedirectsOf(r \o Tail(s)) \subseteq RedirectsOf(s) \ {Len(s)}
  <2> SUFFICES ASSUME NEW m \in RedirectsOf(r \o Tail(s))
               PROVE  m \in RedirectsOf(s) /\ m # Len(s)
    OBVIOUS
  <2> DEFINE j == k + l - 1 + 1 - m
  <2>1. m \in 1 .. k + l - 1 /\ Redirected[(r \o Tail(s))[j]] # <<>>
    BY <1>4 DEF RedirectsOf
  <2>2. j \in 1 .. k + l - 1 /\ j = k + l - m
    BY <2>1
  <2> HIDE DEF j
  <2>3. ~(j \in 1 .. k)
    <3>1. SUFFICES ASSUME j \in 1 .. k PROVE FALSE
      OBVIOUS
    <3>2. (r \o Tail(s))[j] = r[j] /\ j \in DOMAIN r
      BY <1>3, <1>4, <3>1
    <3> QED
      BY <2>1, <3>2
  <2>4. j \in k + 1 .. k + l - 1 /\ j - k \in 1 .. l - 1 /\ j - k + 1 = l + 1 - m /\ m \in 1 .. l - 1
    BY <2>1, <2>2, <2>3
  <2>5. (r \o Tail(s))[j] = s[l + 1 - m]
    <3>1. (r \o Tail(s))[j] = Tail(s)[j - k]
      BY <1>4, <2>4
    <3>2. Tail(s)[j - k] = s[j - k + 1]
      BY <1>1, <1>2, <2>4
    <3> QED
      BY <2>4, <3>1, <3>2
  <2> QED
    BY <1>2, <2>1, <2>4, <2>5 DEF RedirectsOf
<1>7. Redirected[Head(s)] # <<>> => Len(s) \in RedirectsOf(s)
  <2>1. l + 1 - l = 1 /\ l \in 1 .. l
    BY <1>2
  <2> QED
    BY <1>1, <1>2, <2>1 DEF RedirectsOf
<1> QED
  BY <1>5, <1>6, <1>7

(* No worker gains a test that redirects but from the parent, and one that *)
(* redirects does so once.                                                 *)
LEMMA RedirectsLess ==
  ASSUME NEW c \in [Worker -> Seq(Test)], NEW d \in [Worker -> Seq(Test)],
         NEW w \in Worker, \A v \in Worker \ {w} : d[v] = c[v],
         RedirectsOf(d[w]) \subseteq RedirectsOf(c[w])
  PROVE  /\ Cardinality(RedirectsIn(d)) <= Cardinality(RedirectsIn(c))
         /\ (\E m \in RedirectsOf(c[w]) : m \notin RedirectsOf(d[w])) =>
              Cardinality(RedirectsIn(d)) < Cardinality(RedirectsIn(c))
<1>1. IsFiniteSet(RedirectsIn(c))
  BY RedirectsFinite
<1>2. RedirectsIn(d) \in SUBSET RedirectsIn(c)
  <2> SUFFICES ASSUME NEW v \in Worker PROVE RedirectsOf(d[v]) \subseteq RedirectsOf(c[v])
    BY DEF RedirectsIn
  <2>1. CASE v = w
    BY <2>1
  <2>2. CASE v # w
    BY <2>2
  <2> QED
    BY <2>1, <2>2
<1>3. /\ IsFiniteSet(RedirectsIn(d))
      /\ Cardinality(RedirectsIn(d)) <= Cardinality(RedirectsIn(c))
      /\ Cardinality(RedirectsIn(c)) = Cardinality(RedirectsIn(d))
           => RedirectsIn(c) = RedirectsIn(d)
  BY <1>1, <1>2, FS_Subset
<1>4. ASSUME NEW m \in RedirectsOf(c[w]), m \notin RedirectsOf(d[w])
      PROVE  RedirectsIn(c) # RedirectsIn(d)
  <2>1. <<w, m>> \in RedirectsIn(c)
    BY DEF RedirectsIn
  <2>2. <<w, m>> \notin RedirectsIn(d)
    BY <1>4 DEF RedirectsIn
  <2> QED
    BY <2>1, <2>2
<1> QED
  BY <1>1, <1>3, <1>4, FS_CardinalityType

(* A worker that moves on, or comes nearer to the end of its batch, or     *)
(* reports an error for the first time, has less to do.                    *)
LEMMA ChoresFall ==
  ASSUME TypeOK, TypeOK', NEW w \in Worker,
         Sent(w, "php_error") => Sent(w, "php_error")',
         \A v \in Worker \ {w} : /\ wpc'[v] = wpc[v] /\ todo'[v] = todo[v]
                                 /\ toParent'[v] = toParent[v],
         \/ Rank[wpc'[w]] + Len(todo'[w]) < Rank[wpc[w]] + Len(todo[w])
         \/ /\ wpc'[w] = wpc[w] /\ todo'[w] = todo[w]
            /\ ~Sent(w, "php_error") /\ Sent(w, "php_error")'
  PROVE  Total(Chores') < Total(Chores)
<1>1. Rank[wpc[w]] \in Nat /\ Len(todo[w]) \in Nat
  BY RankTypes
<1>2. Rank[wpc'[w]] \in Nat /\ Len(todo'[w]) \in Nat
  <2>1. /\ wpc'[w] \in {"unborn", "connecting", "waiting", "greeted", "idle", "running",
                        "crashed", "exited"}
        /\ todo'[w] \in Seq(Test)
    BY DEF TypeOK
  <2> QED
    BY <2>1 DEF Rank
<1>3. PICK a \in Nat, b \in Nat, c \in Nat, d \in Nat :
        a = Rank[wpc[w]] /\ b = Len(todo[w]) /\ c = Rank[wpc'[w]] /\ d = Len(todo'[w])
  BY <1>1, <1>2
<1>4. Chores[w] = a + b + (IF Sent(w, "php_error") THEN 0 ELSE 1)
  BY <1>3 DEF Chores
<1>5. Chores'[w] = c + d + (IF Sent(w, "php_error")' THEN 0 ELSE 1)
  BY <1>3 DEF Chores
<1>6. c + d < a + b \/ (c = a /\ d = b /\ ~Sent(w, "php_error") /\ Sent(w, "php_error")')
  BY <1>3
<1>7. Chores'[w] < Chores[w]
  BY <1>4, <1>5, <1>6
<1> QED
  BY <1>7, ChoresLess

(* Each step of a worker takes from what it is told, from its redirections *)
(* or from its chores.                                                     *)
LEMMA WorkLowers ==
  ASSUME RunInv /\ Counted, (RunInv /\ Counted)', NEW w \in Worker,
         Work(w) \/ ReportPhpError(w) \/ Crash(w)
  PROVE  Lower(Left', Left)
<1> USE DEF RunInv, IndInv
<1>1. UNCHANGED parentVars
  BY DEF Work, Connect, ReadGreeting, Greet, TakeBatch, RunTest, Redirect, FinishBatch,
     HangUp, Terminate, ReportPhpError, Crash
<1>2. /\ Stage[pc'] = Stage[pc] /\ Setup' = Setup /\ Pending' = Pending
      /\ workerProcs' = workerProcs
  BY <1>1 DEF Setup, Pending
<1>3. /\ Stage[pc] \in Nat /\ Setup \in Nat /\ Cardinality(Pending) \in Nat
      /\ Cardinality(workerProcs) \in Nat /\ ToldWorkers \in Nat
      /\ Cardinality(Redirects) \in Nat
  BY LeftTypes
<1>4. /\ Stage[pc'] <= Stage[pc] /\ Setup' <= Setup
      /\ Cardinality(Pending') <= Cardinality(Pending)
      /\ Cardinality(workerProcs') <= Cardinality(workerProcs)
  BY <1>2, <1>3
<1>5. \A v \in Worker \ {w} : /\ wpc'[v] = wpc[v] /\ todo'[v] = todo[v]
                              /\ toParent'[v] = toParent[v]
  BY OtherWorker
<1>6. Sent(w, "php_error") => Sent(w, "php_error")'
  BY SaysMore
<1>7. Rank[wpc[w]] \in Nat /\ Len(todo[w]) \in Nat
  BY RankTypes
<1>8. wpc \in [Worker -> DOMAIN Rank] /\ todo \in [Worker -> Seq(Test)]
      /\ todo' \in [Worker -> Seq(Test)]
  BY DEF TypeOK, Rank
<1> PICK c \in [Worker -> Seq(Test)], d \in [Worker -> Seq(Test)] : c = todo /\ d = todo'
  BY <1>8
<1> DEFINE less == RedirectsOf(d[w]) \subseteq RedirectsOf(c[w])
<1>14. less => Cardinality(Redirects') <= Cardinality(Redirects)
  <2>1. \A v \in Worker \ {w} : d[v] = c[v]
    BY <1>5
  <2>2. less => Cardinality(RedirectsIn(d)) <= Cardinality(RedirectsIn(c))
    BY <2>1, RedirectsLess
  <2> QED
    BY <2>2 DEF Redirects
<1>15. less /\ (\E m \in RedirectsOf(c[w]) : m \notin RedirectsOf(d[w])) =>
         Cardinality(Redirects') < Cardinality(Redirects)
  <2>1. \A v \in Worker \ {w} : d[v] = c[v]
    BY <1>5
  <2>2. less /\ (\E m \in RedirectsOf(c[w]) : m \notin RedirectsOf(d[w])) =>
          Cardinality(RedirectsIn(d)) < Cardinality(RedirectsIn(c))
    BY <2>1, RedirectsLess
  <2> QED
    BY <2>2 DEF Redirects
<1> HIDE DEF less
<1>9. CASE ReadGreeting(w) \/ TakeBatch(w)
  <2>1. ToldWorkers' < ToldWorkers
    BY <1>9, ToldLess DEF ReadGreeting, TakeBatch
  <2> QED
    BY <1>4, <2>1, LeftLower
<1>10. CASE Connect(w) \/ Greet(w) \/ FinishBatch(w) \/ HangUp(w) \/ Terminate(w) \/ Crash(w)
  <2>1. UNCHANGED <<toWorker, todo>>
    BY <1>10 DEF Connect, Greet, FinishBatch, HangUp, Terminate, Crash
  <2>2. /\ ToldWorkers' <= ToldWorkers
        /\ Cardinality(Redirects') <= Cardinality(Redirects)
    BY <1>3, <2>1, ToldSame, RedirectsSame
  <2>3. Rank[wpc'[w]] < Rank[wpc[w]] /\ Rank[wpc'[w]] \in Nat
    <3>1. CASE Connect(w)
      BY <1>8, <3>1 DEF Connect, WorkerStep, Rank
    <3>2. CASE Greet(w)
      BY <1>8, <3>2 DEF Greet, WorkerStep, Rank
    <3>3. CASE FinishBatch(w)
      BY <1>8, <3>3 DEF FinishBatch, WorkerStep, Rank
    <3>4. CASE HangUp(w)
      BY <1>8, <3>4 DEF HangUp, WorkerStep, Rank
    <3>5. CASE Terminate(w) \/ Crash(w)
      <4>1. /\ wpc[w] \in {"connecting", "waiting", "greeted", "idle", "running"}
            /\ wpc'[w] \in {"exited", "crashed"}
        BY <1>8, <3>5 DEF Terminate, Crash, Alive, Rank
      <4> QED
        BY <4>1 DEF Rank
    <3> QED
      BY <1>10, <3>1, <3>2, <3>3, <3>4, <3>5
  <2>4. Rank[wpc'[w]] + Len(todo'[w]) < Rank[wpc[w]] + Len(todo[w])
    BY <1>7, <2>1, <2>3
  <2>5. Total(Chores') < Total(Chores)
    BY <1>5, <1>6, <2>4, ChoresFall
  <2> QED
    BY <1>4, <2>2, <2>5, LeftLower
<1>11. CASE RunTest(w)
  <2>1. UNCHANGED <<toWorker, wpc>> /\ todo[w] # <<>> /\ todo'[w] = Tail(todo[w])
    BY <1>8, <1>11 DEF RunTest
  <2>2. ToldWorkers' <= ToldWorkers
    BY <1>3, <2>1, ToldSame
  <2>3. RedirectsOf(Tail(c[w])) \subseteq RedirectsOf(c[w])
    <3>1. <<>> \in Seq(Test) /\ \A n \in DOMAIN <<>> : Redirected[<<>>[n]] = <<>>
      OBVIOUS
    <3> QED
      BY <2>1, <3>1, RedirectsFront
  <2>4. Cardinality(Redirects') <= Cardinality(Redirects)
    BY <1>14, <2>1, <2>3 DEF less
  <2>5. Rank[wpc'[w]] + Len(todo'[w]) < Rank[wpc[w]] + Len(todo[w])
    <3>1. Len(todo'[w]) = Len(todo[w]) - 1
      BY <1>8, <2>1, HeadType
    <3> QED
      BY <1>7, <2>1, <3>1
  <2>6. Total(Chores') < Total(Chores)
    BY <1>5, <1>6, <2>5, ChoresFall
  <2> QED
    BY <1>4, <2>2, <2>4, <2>6, LeftLower
<1>12. CASE Redirect(w)
  <2>1. /\ UNCHANGED <<toWorker, wpc>> /\ todo[w] # <<>> /\ Redirected[Head(todo[w])] # <<>>
        /\ todo'[w] = Redirected[Head(todo[w])] \o Tail(todo[w])
    BY <1>8, <1>12 DEF Redirect
  <2>2. ToldWorkers' <= ToldWorkers
    BY <1>3, <2>1, ToldSame
  <2>3. less /\ Len(c[w]) \in RedirectsOf(c[w]) /\ Len(c[w]) \notin RedirectsOf(d[w])
    <3>1. Head(c[w]) \in Test
      BY <2>1, HeadType
    <3>2. PICK r \in Seq(Test) : /\ r = Redirected[Head(c[w])]
                                 /\ \A n \in DOMAIN r : Redirected[r[n]] = <<>>
      BY <3>1, TestsAssumption, RedirectAssumption
    <3>3. PICK s \in Seq(Test) : s = c[w] /\ s # <<>>
      BY <2>1
    <3>4. /\ RedirectsOf(r \o Tail(s)) \subseteq RedirectsOf(s) \ {Len(s)}
          /\ Redirected[Head(s)] # <<>> => Len(s) \in RedirectsOf(s)
      BY <3>2, <3>3, RedirectsFront
    <3>5. d[w] = r \o Tail(s) /\ Redirected[Head(s)] # <<>>
      BY <2>1, <3>2, <3>3
    <3> QED
      BY <3>3, <3>4, <3>5 DEF less
  <2>4. Cardinality(Redirects') < Cardinality(Redirects)
    BY <1>15, <2>3
  <2> QED
    BY <1>4, <2>2, <2>4, LeftLower
<1>13. CASE ReportPhpError(w)
  <2>1. /\ UNCHANGED <<toWorker, wpc, todo>> /\ ~Sent(w, "php_error")
        /\ SendParent(w, [type |-> "php_error"])
    BY <1>13 DEF ReportPhpError, Sent
  <2>2. /\ ToldWorkers' <= ToldWorkers
        /\ Cardinality(Redirects') <= Cardinality(Redirects)
    BY <1>3, <2>1, ToldSame, RedirectsSame
  <2>3. Sent(w, "php_error")'
    <3>1. PICK msg \in ToParentMsg : msg = [type |-> "php_error"] /\ msg.type = "php_error"
      <4>1. [type |-> "php_error"] \in ToParentMsg
        BY DEF ToParentMsg
      <4> QED
        BY <4>1
    <3>2. Sent(w, msg.type)'
      BY <2>1, <3>1, SentMore
    <3> QED
      BY <3>1, <3>2
  <2>4. Total(Chores') < Total(Chores)
    BY <1>5, <1>6, <2>1, <2>3, ChoresFall
  <2> QED
    BY <1>4, <2>2, <2>4, LeftLower
<1> QED
  BY <1>9, <1>10, <1>11, <1>12, <1>13 DEF Work

(* Every step of the system that changes anything uses up something.       *)
LEMMA EveryStepLowers ==
  ASSUME RunInv /\ Counted, (RunInv /\ Counted)', AttendInv, KeptOnce, [Next]_vars
  PROVE  [Lower(Left', Left)]_vars
<1>1. CASE Parent
  <2>1. CASE /\ pc \in {"loop", "read", "drain", "release", "batch"}
             /\ pc' \in {"loop", "read", "drain", "release", "batch"}
             /\ ~Dispatch /\ ~Retire
    BY <1>1, <2>1, LoopLowers
  <2>2. CASE \/ pc \notin {"loop", "read", "drain", "release", "batch"}
             \/ pc' \notin {"loop", "read", "drain", "release", "batch"}
             \/ Dispatch \/ Retire
    BY <1>1, <2>2, OnceLowers
  <2> QED
    BY <2>1, <2>2
<1>2. CASE ~Parent
  <2>1. \/ UNCHANGED vars
        \/ \E w \in Worker : Work(w) \/ ReportPhpError(w) \/ Crash(w)
    BY <1>2, WorkerFrame
  <2> QED
    BY <2>1, WorkLowers
<1> QED
  BY <1>1, <1>2

(* No run goes on for ever: Left is a list of natural numbers, and every   *)
(* step of the parent, of a worker or of the environment makes it a lower  *)
(* one.  Only so many are left, whatever order the parent and the workers  *)
(* move in, whatever crashes, comes late or reports an error: no list of   *)
(* waiting tests goes round, no batch comes back, no message is read twice.*)
THEOREM EveryStepCountsDown ==
  Spec => [](Left \in [1 .. 10 -> Nat]) /\ CountsDown
<1> DEFINE I == RunInv /\ AttendInv /\ KeptOnce /\ Counted
<1>1. Init => I
  BY RunInvInit, AttendInit, PoolInit, CountedInit
<1>2. I /\ RunInv' /\ [Next]_vars => I' /\ [Lower(Left', Left)]_vars
  <2> SUFFICES ASSUME I, RunInv', [Next]_vars PROVE I' /\ [Lower(Left', Left)]_vars
    OBVIOUS
  <2>1. AttendInv' /\ Counted'
    BY AttendStep, CountedStep
  <2>2. KeptOnce'
    BY PoolStep
  <2>3. [Lower(Left', Left)]_vars
    BY <2>1, EveryStepLowers
  <2> QED
    BY <2>1, <2>2, <2>3
<1>3. I => Left \in [1 .. 10 -> Nat]
  BY LeftAt
<1> HIDE DEF I
<1>4. I => RunInv
  BY DEF I
<1> QED
  BY <1>1, <1>2, <1>3, <1>4, WorkInductive, PTL DEF Spec, CountsDown
===============================================================================
