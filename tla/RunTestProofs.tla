------------------------------ MODULE RunTestProofs ------------------------------
(***************************************************************************)
(* Theorems about the tests of one process, for any tests, lists, options  *)
(* and answers, in a parent or in a worker, with redirections: how often   *)
(* and with what program a test is tried, in which directory it works,     *)
(* that it has one result and every failure is listed and told by the exit *)
(* status, that a cached skip answer is fresh, that merged reports are     *)
(* complete, that a report counts each test once, and that every step      *)
(* leaves less to do.                                                      *)
(***************************************************************************)
EXTENDS RunTest, SequenceTheorems, FiniteSetTheorems, TLAPS

Sapis == {"cli", "cgi", "phpdbg"}
Places == {"next", "parse", "SKIPIF", "zlib", "judge", "redirected"}
Test == Tests \cup {None}

\* The variables of a run_test, of which the proof needs the types of some.
Locals == {"test", "only", "at", "php", "orig_php", "rr", "preloads", "retried", "warn", "XFAIL",
           "flaky", "answer", "passed", "leaked", "failed_headers", "flakyOutput", "cleanOutput",
           "tries"}
IsRun(run) == /\ DOMAIN run = Locals
              /\ run.test \in Test /\ run.only \in Test
              /\ run.php \in Sapis
              /\ run.tries \in Seq(Sapis \X BOOLEAN)
              /\ run.preloads \in 0 .. 2 /\ run.preloads <= Len(run.tries)
              /\ run.answer \in Answers \cup {None}
              /\ run.warn => run.answer = "warn"
IsCall(call) == /\ DOMAIN call = {"todo", "run"}
                /\ call.todo \subseteq Tests \X Test

\* Before its program is run a test has been tried once if it is retried, else never;
\* the try that is judged is the last one.
Tried(run) ==
  /\ run.test \in Tests
  /\ Len(run.tries) = (IF run.retried THEN 1 ELSE 0) + (IF run.at = "judge" THEN 1 ELSE 0)
  /\ run.retried => ~run.tries[1][2]
  /\ run.at = "judge" /\ ~run.retried => run.tries[1][2] = run.passed
  /\ \A i \in DOMAIN run.tries : run.tries[i][1] = T[run.test].sapi

\* $php is the CLI until the test has chosen its program.
PhpChosen(run) ==
  /\ run.php \in {"cli", T[run.test].sapi}
  /\ run.at \in {"SKIPIF", "zlib", "judge"} => run.php = T[run.test].sapi

RunInv(run) == IsRun(run) /\ (run.at # "next" => Tried(run) /\ PhpChosen(run))

\* Only the last call is at work: the first waits for the redirection it made.
CallsInv ==
  /\ calls # <<>> /\ \E S : calls \in Seq(S)
  /\ \A n \in DOMAIN calls : IsCall(calls[n]) /\ RunInv(calls[n].run)
  /\ Len(calls) > 1 => calls[1].run.at = "redirected"

TriesInv == CallsInv /\ TriedAgain

\* The cache holds what SKIPIF scripts may answer.
AnswersKnown == \A k \in DOMAIN skips : skips[k] \in Answers

(***************************************************************************)
(* The stack of calls.                                                     *)
(***************************************************************************)

\* The current call is the last one.
LEMMA CurrentCall ==
  ASSUME CallsInv
  PROVE  /\ Len(calls) \in DOMAIN calls /\ 1 \in DOMAIN calls
         /\ DOMAIN calls = 1 .. Len(calls) /\ Len(calls) \in Nat \ {0}
         /\ IsCall(Call) /\ RunInv(Run)
<1>1. PICK S : calls \in Seq(S)
  BY DEF CallsInv
<1>2. DOMAIN calls = 1 .. Len(calls) /\ Len(calls) \in Nat \ {0}
  BY <1>1, EmptySeq DEF CallsInv
<1>3. Len(calls) \in DOMAIN calls /\ 1 \in DOMAIN calls
  BY <1>2
<1> QED
  BY <1>2, <1>3 DEF Call, Run, CallsInv

\* run_all_tests outside a test is well.
LEMMA IdleRun == RunInv(Idle)
<1>1. <<>> \in Seq(Sapis \X BOOLEAN)
  OBVIOUS
<1> QED
  BY <1>1 DEF RunInv, IsRun, Idle, Locals, Sapis, Test

\* The last call of the stack goes on.
LEMMA OneCall ==
  ASSUME CallsInv, NEW c, IsCall(c), RunInv(c.run),
         calls' = [calls EXCEPT ![Len(calls)] = c]
  PROVE  CallsInv'
<1>1. PICK S : calls \in Seq(S)
  BY DEF CallsInv
<1> DEFINE n == Len(calls)
<1>2. /\ calls \in Seq(S \cup {c}) /\ c \in S \cup {c}
      /\ n \in DOMAIN calls /\ n \in 1 .. Len(calls) /\ calls' = [calls EXCEPT ![n] = c]
  BY <1>1, CurrentCall, SeqMonotonic
<1>3. calls' \in Seq(S \cup {c}) /\ DOMAIN calls' = DOMAIN calls
  BY <1>2
<1>4. calls' # <<>>
  <2>1. DOMAIN calls' # {}
    BY <1>3
  <2> QED
    BY <2>1
<1>5. \A m \in DOMAIN calls : IsCall(calls'[m]) /\ RunInv(calls'[m].run)
  BY DEF CallsInv
<1>6. Len(calls') > 1 => calls'[1].run.at = "redirected"
  BY <1>2, <1>3 DEF CallsInv
<1> QED
  BY <1>3, <1>4, <1>5, <1>6 DEF CallsInv

\* A call with another run_test.
LEMMA RunReplaced ==
  ASSUME NEW c, IsCall(c), NEW run
  PROVE  IsCall([c EXCEPT !.run = run]) /\ [c EXCEPT !.run = run].run = run
BY DEF IsCall

\* The current test goes on.
LEMMA SetRunInv ==
  ASSUME CallsInv, NEW run, RunInv(run), SetRun(run)
  PROVE  CallsInv'
<1> DEFINE c == [calls[Len(calls)] EXCEPT !.run = run]
<1>1. IsCall(calls[Len(calls)]) /\ Len(calls) \in DOMAIN calls
  BY CurrentCall DEF Call
<1>2. IsCall(c) /\ c.run = run
  BY <1>1, RunReplaced
<1>3. calls' = [calls EXCEPT ![Len(calls)] = c]
  BY <1>1 DEF SetRun
<1> HIDE DEF c
<1> QED
  BY <1>1, <1>2, <1>3, OneCall

(***************************************************************************)
(* A run_test that returns, and one that goes on.                          *)
(***************************************************************************)

\* A step that leaves the tests that are over alone.
LEMMA StillTried ==
  ASSUME TriesInv, CallsInv', UNCHANGED done
  PROVE  TriesInv'
BY DEF TriesInv, TriedAgain

\* What is known of a test that is tried.
LEMMA TriedOnce ==
  ASSUME NEW run, IsRun(run), Tried(run)
  PROVE  /\ Len(run.tries) <= 2
         /\ Len(run.tries) = 2 => ~run.tries[1][2]
         /\ \A i \in DOMAIN run.tries : run.tries[i][1] = T[run.test].sapi
BY DEF Tried

\* A run_test of the stack returns: its tries are as they should be, and the calls
\* above it are gone.
LEMMA ReturnInv ==
  ASSUME TriesInv, NEW n \in DOMAIN calls, calls[n].run.at # "next",
         NEW first, NEW types, NEW entries, NEW report, NEW d,
         ReturnFrom(n, first, types, entries, report, d)
  PROVE  TriesInv'
<1> DEFINE run == calls[n].run
           via == IF n > 1 THEN calls[1].run.test ELSE None
           e == [test |-> run.test, via |-> via, only |-> run.only,
                 result |-> ResultOf[first], types |-> types, dir |-> d, run |-> run]
           below == SubSeq(calls, 1, n)
<1>1. PICK S : calls \in Seq(S)
  BY DEF TriesInv, CallsInv
<1>2. n \in 1 .. Len(calls) /\ Len(calls) \in Nat
  BY <1>1
<1>3. below \in Seq(S) /\ Len(below) = n /\ \A m \in 1 .. n : below[m] = calls[m]
  BY <1>1, <1>2, SubSeqProperties
<1>4. DOMAIN below = 1 .. n /\ n \in Nat /\ n # 0
  BY <1>2, <1>3
<1>5. CallsInv'
  <2> DEFINE c == [calls[n] EXCEPT !.run = Idle]
  <2>1. IsCall(c) /\ RunInv(c.run)
    <3>1. IsCall(calls[n])
      BY DEF TriesInv, CallsInv
    <3> QED
      BY <3>1, RunReplaced, IdleRun
  <2> HIDE DEF c
  <2>2. calls' = [below EXCEPT ![n] = c]
    <3>1. calls' = [below EXCEPT ![n].run = Idle]
      BY Zenon DEF ReturnFrom
    <3>2. below[n] = calls[n]
      BY <1>2, <1>3
    <3> QED
      BY <3>1, <3>2, <1>4 DEF c
  <2> HIDE DEF below
  <2>3. below \in Seq(S \cup {c})
    BY <1>3, SeqMonotonic
  <2>4. calls' \in Seq(S \cup {c}) /\ DOMAIN calls' = 1 .. n
    BY <2>2, <2>3, <1>4
  <2>5. calls' # <<>>
    <3>1. DOMAIN calls' # {}
      BY <2>4, <1>4
    <3> QED
      BY <3>1
  <2>6. \A m \in 1 .. n : IsCall(calls'[m]) /\ RunInv(calls'[m].run)
    <3> SUFFICES ASSUME NEW m \in 1 .. n
                 PROVE  IsCall(calls'[m]) /\ RunInv(calls'[m].run)
      OBVIOUS
    <3>1. CASE m = n
      BY <3>1, <2>1, <2>2, <1>4
    <3>2. CASE m # n
      <4>1. calls'[m] = calls[m] /\ m \in DOMAIN calls
        BY <3>2, <2>2, <1>1, <1>2, <1>3, <1>4
      <4> QED
        BY <4>1 DEF TriesInv, CallsInv
    <3> QED
      BY <3>1, <3>2
  <2>7. Len(calls') > 1 => calls'[1].run.at = "redirected"
    BY <2>2, <2>4, <1>1, <1>2, <1>3, <1>4 DEF TriesInv, CallsInv
  <2> QED
    BY <2>4, <2>5, <2>6, <2>7 DEF CallsInv
<1>6. done' = done \cup {e}
  BY Zenon DEF ReturnFrom
<1>7. e.run = run /\ e.test = run.test
  OBVIOUS
<1> HIDE DEF e
<1>8. IsRun(run) /\ Tried(run)
  BY DEF TriesInv, CallsInv, RunInv
<1> HIDE DEF run
<1>9. TriedAgain'
  BY <1>6, <1>7, <1>8, TriedOnce DEF TriesInv, TriedAgain
<1> QED
  BY <1>5, <1>9 DEF TriesInv

\* The current run_test returns.
LEMMA CurrentReturns ==
  ASSUME TriesInv, Run.at # "next",
         NEW first, NEW types, NEW entries, NEW report, NEW d,
         Return(first, types, entries, report, d)
  PROVE  TriesInv'
<1>1. Len(calls) \in DOMAIN calls
  BY CurrentCall DEF TriesInv
<1> QED
  BY <1>1, ReturnInv DEF Return, Run, Call

\* What is known of the run_test that goes on.
LEMMA AtWork ==
  ASSUME TriesInv, Run.at # "next"
  PROVE  /\ IsRun(Run) /\ Tried(Run) /\ PhpChosen(Run)
         /\ T[Run.test].sapi \in Sapis
<1>1. IsRun(Run) /\ Tried(Run) /\ PhpChosen(Run)
  BY CurrentCall DEF TriesInv, RunInv
<1>2. T[Run.test] \in TestRecords
  BY <1>1, RunTestAssumption DEF Tried
<1>3. T[Run.test].sapi \in Sapis
  <2> HIDE DEF Run
  <2> QED
    BY <1>2 DEF TestRecords, Sapis
<1> QED
  BY <1>1, <1>3

(***************************************************************************)
(* The actions that go on to the next section.                             *)
(***************************************************************************)

\* A new test has not been tried.
LEMMA NextTestStep == ASSUME TriesInv, NextTest PROVE TriesInv'
<1>1. PICK e \in Call.todo :
        calls' = [calls EXCEPT ![Len(calls)] =
                   [todo |-> @.todo \ {e},
                    run |-> [Idle EXCEPT !.test = e[1], !.only = e[2], !.at = "parse"]]]
  BY DEF NextTest
<1> DEFINE run == [Idle EXCEPT !.test = e[1], !.only = e[2], !.at = "parse"]
           c == [todo |-> Call.todo \ {e}, run |-> run]
<1>2. /\ Len(calls) \in DOMAIN calls /\ IsCall(Call)
  BY CurrentCall DEF TriesInv
<1>3. e[1] \in Tests /\ e[2] \in Test
  BY <1>1, <1>2 DEF IsCall
<1>4. RunInv(run)
  <2>1. /\ DOMAIN run = Locals /\ run.test = e[1] /\ run.only = e[2] /\ run.at = "parse"
        /\ run.php = "cli" /\ run.retried = FALSE /\ run.tries = <<>>
        /\ run.preloads = 0 /\ run.answer = None /\ run.warn = FALSE
    BY DEF Idle, Locals
  <2>2. <<>> \in Seq(Sapis \X BOOLEAN) /\ Len(<<>>) = 0 /\ DOMAIN <<>> = {}
    OBVIOUS
  <2> HIDE DEF run
  <2>3. IsRun(run)
    BY <1>3, <2>1, <2>2 DEF IsRun, Sapis, Test
  <2>4. Tried(run)
    BY <1>3, <2>1, <2>2 DEF Tried
  <2>5. PhpChosen(run)
    BY <2>1 DEF PhpChosen
  <2> QED
    BY <2>3, <2>4, <2>5 DEF RunInv
<1>5. IsCall(c) /\ c.run = run
  BY <1>2 DEF IsCall
<1>6. calls' = [calls EXCEPT ![Len(calls)] = c]
  BY <1>1, <1>2 DEF Call
<1> HIDE DEF c, run
<1>7. CallsInv'
  BY <1>2, <1>4, <1>5, <1>6, OneCall DEF TriesInv
<1> QED
  BY <1>7, StillTried DEF NextTest

\* The test chooses its program.
LEMMA PrepareStep == ASSUME TriesInv, Prepare PROVE TriesInv'
<1> DEFINE run == [Prepared EXCEPT !.at = IF t.SKIPIF = None THEN "zlib" ELSE "SKIPIF"]
<1>1. Run.at = "parse"
  BY DEF Prepare, At
<1>2. IsRun(Run) /\ Tried(Run) /\ PhpChosen(Run) /\ t.sapi \in Sapis
  BY <1>1, AtWork DEF t
<1>3. /\ DOMAIN run = Locals /\ run.test = Run.test /\ run.only = Run.only
      /\ run.at \in {"zlib", "SKIPIF"} /\ run.php = Chosen(Run)
      /\ run.retried = Run.retried /\ run.tries = Run.tries
      /\ run.preloads = Run.preloads /\ run.answer = Run.answer /\ run.warn = FALSE
  BY <1>2 DEF Prepared, IsRun, Locals
<1>4. Chosen(Run) = t.sapi
  BY <1>2 DEF Chosen, PhpChosen, t
<1> HIDE DEF run
<1>5. RunInv(run)
  <2>1. IsRun(run)
    BY <1>2, <1>3, <1>4 DEF IsRun
  <2>2. Tried(run)
    BY <1>1, <1>2, <1>3 DEF Tried
  <2>3. PhpChosen(run)
    BY <1>3, <1>4 DEF PhpChosen, t
  <2> QED
    BY <2>1, <2>2, <2>3 DEF RunInv
<1>6. SetRun(run)
  BY DEF Prepare, run
<1>7. CallsInv'
  BY <1>5, <1>6, SetRunInv DEF TriesInv
<1> QED
  BY <1>7, StillTried DEF Prepare

\* After SKIPIF the test is over or goes on with the same program.
LEMMA AfterAnswerStep ==
  ASSUME TriesInv, Run.at = "SKIPIF", NEW answer \in Answers, AfterAnswer(answer)
  PROVE  TriesInv'
<1>1. CASE answer = "skip"
  <2>1. Skip(Timed(junit))
    BY <1>1 DEF AfterAnswer
  <2> QED
    BY <2>1, CurrentReturns DEF Skip
<1>2. CASE answer = "junk"
  <2>1. Bork(Timed(junit))
    BY <1>2 DEF AfterAnswer
  <2> QED
    BY <2>1, CurrentReturns DEF Bork
<1>3. CASE answer # "skip" /\ answer # "junk"
  <2> DEFINE run == [Run EXCEPT !.at = "zlib", !.answer = answer, !.warn = (answer = "warn"),
                                !.XFAIL = @ \/ answer = "xfail",
                                !.flaky = @ \/ answer = "flaky"]
  <2>1. SetRun(run) /\ UNCHANGED done
    BY <1>3 DEF AfterAnswer
  <2>2. IsRun(Run) /\ Tried(Run) /\ PhpChosen(Run)
    BY AtWork
  <2>3. /\ DOMAIN run = Locals /\ run.test = Run.test /\ run.only = Run.only
        /\ run.at = "zlib" /\ run.php = Run.php
        /\ run.retried = Run.retried /\ run.tries = Run.tries
        /\ run.preloads = Run.preloads /\ run.answer = answer /\ run.warn = (answer = "warn")
    BY <2>2 DEF IsRun, Locals
  <2> HIDE DEF run
  <2>4. RunInv(run)
    <3>1. IsRun(run)
      BY <2>2, <2>3 DEF IsRun
    <3>2. Tried(run)
      BY <2>2, <2>3 DEF Tried
    <3>3. PhpChosen(run)
      BY <2>2, <2>3 DEF PhpChosen
    <3> QED
      BY <3>1, <3>2, <3>3 DEF RunInv
  <2> QED
    BY <2>1, <2>4, SetRunInv, StillTried DEF TriesInv
<1> QED
  BY <1>1, <1>2, <1>3

\* A redirection: its test waits, and a call for the inner tests follows.
LEMMA RedirectStep == ASSUME TriesInv, Redirect PROVE TriesInv'
<1> DEFINE inner == {<<i, None>> : i \in IF Run.only # None THEN {Run.only} ELSE t.inner}
           stay == [calls[1].run EXCEPT !.at = "redirected"]
           c == [calls[1] EXCEPT !.run = stay]
           below == [calls EXCEPT ![1] = c]
           over == Loop(inner)
<1>1. Run.at = "zlib"
  BY DEF Redirect, Ready, At
<1>2. /\ IsRun(Run) /\ Tried(Run) /\ 1 \in DOMAIN calls /\ IsCall(calls[1])
      /\ DOMAIN calls = 1 .. Len(calls) /\ Len(calls) \in Nat \ {0}
  BY <1>1, AtWork, CurrentCall DEF TriesInv, CallsInv
<1>3. calls[1].run.at # "next" /\ RunInv(calls[1].run)
  BY <1>1, <1>2 DEF TriesInv, CallsInv, Run, Call
<1>4. RunInv(stay)
  <2> DEFINE run == calls[1].run
  <2> HIDE DEF run
  <2>1. IsRun(run) /\ Tried(run) /\ PhpChosen(run)
    BY <1>3 DEF RunInv, run
  <2>2. /\ DOMAIN stay = Locals /\ stay.test = run.test /\ stay.only = run.only
        /\ stay.at = "redirected" /\ stay.php = run.php
        /\ stay.retried = run.retried /\ stay.tries = run.tries
        /\ stay.preloads = run.preloads /\ stay.answer = run.answer /\ stay.warn = run.warn
    BY <2>1 DEF IsRun, Locals, run
  <2> HIDE DEF stay
  <2>3. IsRun(stay)
    BY <2>1, <2>2 DEF IsRun
  <2>4. run.at # "judge"
    BY <1>1, <1>2 DEF TriesInv, CallsInv, Run, Call, run
  <2>5. Tried(stay)
    BY <2>1, <2>2, <2>4 DEF Tried
  <2>6. PhpChosen(stay)
    BY <2>1, <2>2 DEF PhpChosen
  <2> QED
    BY <2>3, <2>5, <2>6 DEF RunInv
<1>5. IsCall(c) /\ c.run = stay
  BY <1>2, RunReplaced
<1>6. IsCall(over) /\ over.run = Idle
  <2>1. t.inner \subseteq Tests
    <3>1. T[Run.test] \in TestRecords
      BY <1>2, RunTestAssumption DEF Tried
    <3> HIDE DEF Run
    <3> QED
      BY <3>1 DEF TestRecords, t
  <2>2. Run.only # None => Run.only \in Tests
    BY <1>2 DEF IsRun, Test
  <2>3. inner \subseteq Tests \X Test
    BY <2>1, <2>2 DEF Test
  <2> HIDE DEF inner
  <2> QED
    BY <2>3 DEF Loop, IsCall
<1>7. calls' = Append(below, over)
  BY <1>2 DEF Redirect
<1>8. stay.at = "redirected"
  BY <1>3 DEF RunInv, IsRun, Locals
<1> HIDE DEF over, c, stay
<1>9. PICK S : calls \in Seq(S)
  BY DEF TriesInv, CallsInv
<1>10. calls \in Seq(S \cup {c, over}) /\ c \in S \cup {c, over}
  BY <1>9, SeqMonotonic
<1>11. /\ below \in Seq(S \cup {c, over}) /\ Len(below) = Len(calls)
       /\ below[1] = c /\ \A n \in DOMAIN calls \ {1} : below[n] = calls[n]
  BY <1>2, <1>10
<1> HIDE DEF below
<1>12. /\ calls' \in Seq(S \cup {c, over}) /\ DOMAIN calls' = 1 .. Len(calls) + 1
       /\ Len(calls') = Len(calls) + 1
       /\ calls'[Len(calls) + 1] = over
       /\ \A n \in 1 .. Len(calls) : calls'[n] = below[n]
  BY <1>2, <1>7, <1>11
<1>13. calls' # <<>>
  <2>1. DOMAIN calls' # {}
    BY <1>2, <1>12
  <2> QED
    BY <2>1
<1>14. \A n \in DOMAIN calls' : IsCall(calls'[n]) /\ RunInv(calls'[n].run)
  <2> SUFFICES ASSUME NEW n \in 1 .. Len(calls) + 1
               PROVE  IsCall(calls'[n]) /\ RunInv(calls'[n].run)
    BY <1>12
  <2>1. CASE n = Len(calls) + 1
    BY <2>1, <1>6, <1>12, IdleRun
  <2>2. CASE n # Len(calls) + 1 /\ n = 1
    BY <2>2, <1>2, <1>4, <1>5, <1>11, <1>12
  <2>3. CASE n # Len(calls) + 1 /\ n # 1
    <3>1. calls'[n] = calls[n] /\ n \in DOMAIN calls
      BY <2>3, <1>2, <1>11, <1>12
    <3> QED
      BY <3>1 DEF TriesInv, CallsInv
  <2> QED
    BY <2>1, <2>2, <2>3
<1>15. calls'[1].run.at = "redirected"
  BY <1>2, <1>5, <1>8, <1>11, <1>12
<1>16. CallsInv'
  BY <1>12, <1>13, <1>14, <1>15 DEF CallsInv
<1> QED
  BY <1>16, StillTried DEF Redirect

\* The program is run: the try is noted with the program and what came of it.
LEMMA ExecuteStep == ASSUME TriesInv, Execute PROVE TriesInv'
<1>1. Run.at = "zlib"
  BY DEF Execute, ToRun, Ready, At
<1>2. IsRun(Run) /\ Tried(Run) /\ PhpChosen(Run)
  BY <1>1, AtWork
<1>3. PICK passed \in BOOLEAN, leaked \in BOOLEAN, failed_headers \in BOOLEAN,
           flakyOutput \in BOOLEAN, cleanOutput \in BOOLEAN :
       /\ leaked => option.valgrind
       /\ failed_headers => t.EXPECTHEADERS
       /\ flakyOutput => ~passed
       /\ cleanOutput => t.CLEAN /\ ~option.no_clean
       /\ LET preloads == Run.preloads + (IF option.preload THEN 1 ELSE 0)
          IN  SetRun([Run EXCEPT !.at = "judge", !.preloads = preloads,
                !.tries = Append(@, <<Run.php, passed>>),
                !.passed = passed, !.leaked = leaked, !.failed_headers = failed_headers,
                !.flakyOutput = flakyOutput, !.cleanOutput = cleanOutput])
  BY Zenon DEF Execute
<1> DEFINE preloads == Run.preloads + (IF option.preload THEN 1 ELSE 0)
           run == [Run EXCEPT !.at = "judge", !.preloads = preloads,
                     !.tries = Append(@, <<Run.php, passed>>),
                     !.passed = passed, !.leaked = leaked, !.failed_headers = failed_headers,
                     !.flakyOutput = flakyOutput, !.cleanOutput = cleanOutput]
<1>4. SetRun(run)
  BY <1>3
<1> HIDE DEF preloads
<1>5. /\ DOMAIN run = Locals /\ run.test = Run.test /\ run.only = Run.only
      /\ run.at = "judge" /\ run.php = Run.php /\ run.passed = passed
      /\ run.retried = Run.retried /\ run.tries = Append(Run.tries, <<Run.php, passed>>)
      /\ run.preloads = preloads /\ run.answer = Run.answer /\ run.warn = Run.warn
  BY <1>2 DEF IsRun, Locals
<1> HIDE DEF run
<1>6. RunInv(run)
  <2> DEFINE try == <<Run.php, passed>>
             k == Len(Run.tries)
  <2>1. /\ Run.php = T[Run.test].sapi /\ Run.php \in Sapis
        /\ Run.tries \in Seq(Sapis \X BOOLEAN)
        /\ k = IF Run.retried THEN 1 ELSE 0
    BY <1>1, <1>2 DEF IsRun, Tried, PhpChosen
  <2>2. try \in Sapis \X BOOLEAN /\ try[1] = Run.php /\ try[2] = passed
    BY <2>1
  <2> HIDE DEF try
  <2>3. /\ run.tries \in Seq(Sapis \X BOOLEAN) /\ Len(run.tries) = k + 1
        /\ DOMAIN run.tries = 1 .. k + 1 /\ DOMAIN Run.tries = 1 .. k
        /\ run.tries[k + 1] = try /\ \A i \in 1 .. k : run.tries[i] = Run.tries[i]
    BY <1>5, <2>1, <2>2 DEF try
  <2>4. IsRun(run)
    <3>1. preloads \in 0 .. 2 /\ preloads <= k + 1
      BY <1>2, <2>1 DEF preloads, IsRun
    <3> QED
      BY <1>2, <1>5, <2>3, <3>1 DEF IsRun
  <2>5. \A i \in DOMAIN run.tries : run.tries[i][1] = T[run.test].sapi
    <3> SUFFICES ASSUME NEW i \in 1 .. k + 1
                 PROVE  run.tries[i][1] = T[run.test].sapi
      BY <2>3
    <3>1. CASE i = k + 1
      BY <3>1, <1>5, <2>1, <2>2, <2>3
    <3>2. CASE i # k + 1
      <4>1. i \in DOMAIN Run.tries /\ run.tries[i] = Run.tries[i]
        BY <3>2, <2>1, <2>3
      <4> QED
        BY <4>1, <1>2, <1>5 DEF Tried
    <3> QED
      BY <3>1, <3>2
  <2>6. run.retried => ~run.tries[1][2]
    BY <1>2, <1>5, <2>1, <2>3 DEF Tried
  <2>7. ~run.retried => run.tries[1][2] = run.passed
    BY <1>5, <2>1, <2>2, <2>3
  <2>8. Tried(run)
    BY <1>2, <1>5, <2>1, <2>3, <2>5, <2>6, <2>7 DEF Tried
  <2>9. PhpChosen(run)
    BY <1>5, <2>1 DEF PhpChosen
  <2> QED
    BY <2>4, <2>8, <2>9 DEF RunInv
<1>7. CallsInv'
  BY <1>4, <1>6, SetRunInv DEF TriesInv
<1> QED
  BY <1>7, StillTried DEF Execute

\* A retry: only after a first try, and one that did not pass.
LEMMA RetryStep == ASSUME TriesInv, Retry PROVE TriesInv'
<1> DEFINE run == [Idle EXCEPT !.test = Run.test, !.only = Run.only, !.at = "parse",
                     !.php = Run.php, !.orig_php = Run.orig_php, !.rr = Run.rr,
                     !.preloads = Run.preloads, !.retried = TRUE, !.tries = Run.tries]
<1>1. Run.at = "judge" /\ ~Run.passed /\ ~Run.retried
  BY DEF Retry, At, MayRetry
<1>2. IsRun(Run) /\ Tried(Run) /\ PhpChosen(Run)
  BY <1>1, AtWork
<1>3. /\ DOMAIN run = Locals /\ run.test = Run.test /\ run.only = Run.only
      /\ run.at = "parse" /\ run.php = Run.php
      /\ run.retried = TRUE /\ run.tries = Run.tries
      /\ run.preloads = Run.preloads /\ run.answer = None /\ run.warn = FALSE
  BY DEF Idle, Locals
<1>4. SetRun(run) /\ UNCHANGED done
  BY DEF Retry
<1> HIDE DEF run
<1>5. RunInv(run)
  <2>1. IsRun(run)
    BY <1>2, <1>3 DEF IsRun
  <2>2. ~run.tries[1][2]
    BY <1>1, <1>2, <1>3 DEF Tried
  <2>3. Len(run.tries) = 1 /\ run.at # "judge" /\ run.retried
    BY <1>1, <1>2, <1>3 DEF Tried
  <2>4. \A i \in DOMAIN run.tries : run.tries[i][1] = T[run.test].sapi
    BY <1>2, <1>3 DEF Tried
  <2>5. Tried(run)
    BY <1>2, <1>3, <2>2, <2>3, <2>4 DEF Tried
  <2>6. PhpChosen(run)
    BY <1>2, <1>3 DEF PhpChosen
  <2> QED
    BY <2>1, <2>5, <2>6 DEF RunInv
<1> QED
  BY <1>4, <1>5, SetRunInv, StillTried DEF TriesInv

(***************************************************************************)
(* The actions that end a run_test.                                        *)
(***************************************************************************)

\* Before the program: the parser, the sections and the extensions.
LEMMA EarlyReturn ==
  ASSUME TriesInv,
         \/ Unparsed \/ SkipTest \/ SkipExtensions \/ SkipZlib
         \/ RedirectEmpty \/ NoRedirection \/ EmptyRequest
  PROVE  TriesInv'
<1>1. Run.at # "next"
  BY DEF Unparsed, SkipTest, SkipExtensions, SkipZlib, RedirectEmpty, NoRedirection,
         EmptyRequest, ToRun, Ready, At
<1>2. \E first, types, entries, report, d : Return(first, types, entries, report, d)
  BY Zenon DEF Unparsed, SkipTest, SkipExtensions, SkipZlib, RedirectEmpty, NoRedirection,
               EmptyRequest, Skip, Bork
<1> QED
  BY <1>1, <1>2, CurrentReturns

\* After the program: what became of it is reported.
LEMMA LateReturn ==
  ASSUME TriesInv, BorkedByClean \/ Pass \/ Report
  PROVE  TriesInv'
<1>1. Run.at # "next"
  BY DEF BorkedByClean, Pass, Report, At
<1>2. \E first, types, entries, report, d : Return(first, types, entries, report, d)
  BY Zenon DEF BorkedByClean, Pass, Report, Bork
<1> QED
  BY <1>1, <1>2, CurrentReturns

\* A redirection has run its tests: the test that waits for it returns.
LEMMA RedirectEndsStep == ASSUME TriesInv, RedirectEnds PROVE TriesInv'
<1>1. 1 \in DOMAIN calls /\ calls[1].run.at # "next"
  BY CurrentCall DEF TriesInv, CallsInv, RedirectEnds
<1>2. ReturnFrom(1, "REDIR", {"PASS"}, {}, junit, T[calls[1].run.test].dir)
  BY DEF RedirectEnds
<1> QED
  BY <1>1, <1>2, ReturnInv

(***************************************************************************)
(* The theorem.                                                            *)
(***************************************************************************)

LEMMA TriesInit == ASSUME Init PROVE TriesInv
<1>1. PICK l \in Lists : calls = <<Loop(l)>>
  BY DEF Init
<1> DEFINE c == Loop(l)
<1>2. IsCall(c) /\ c.run = Idle
  <2>1. l \subseteq Tests \X Test
    BY RunTestAssumption DEF Test
  <2> QED
    BY <2>1 DEF Loop, IsCall
<1> HIDE DEF c
<1>3. calls = <<c>>
  BY <1>1 DEF c
<1>4. calls \in Seq({c}) /\ Len(calls) = 1 /\ DOMAIN calls = {1} /\ calls[1] = c
  BY <1>3
<1>5. calls # <<>>
  BY <1>4
<1>6. CallsInv
  BY <1>2, <1>4, <1>5, IdleRun DEF CallsInv
<1> QED
  BY <1>6 DEF TriesInv, TriedAgain, Init

LEMMA TriesNext == ASSUME TriesInv, AnswersKnown, [Next]_vars PROVE TriesInv'
<1>1. CASE NextTest
  BY <1>1, NextTestStep
<1>2. CASE Prepare
  BY <1>2, PrepareStep
<1>3. CASE SkipCached
  <2>1. \E answer \in Answers : AfterAnswer(answer)
    BY <1>3, Zenon DEF SkipCached, AnswersKnown
  <2> QED
    BY <1>3, <2>1, AfterAnswerStep DEF SkipCached, At
<1>4. CASE CheckSkip
  <2>1. PICK answer \in Answers : AfterAnswer(IF answer = "nocache" THEN "" ELSE answer)
    BY <1>4, Zenon DEF CheckSkip
  <2>2. (IF answer = "nocache" THEN "" ELSE answer) \in Answers
    BY DEF Answers
  <2> QED
    BY <1>4, <2>1, <2>2, AfterAnswerStep DEF CheckSkip, At
<1>5. CASE Redirect
  BY <1>5, RedirectStep
<1>6. CASE RedirectEnds
  BY <1>6, RedirectEndsStep
<1>7. CASE Execute
  BY <1>7, ExecuteStep
<1>8. CASE Retry
  BY <1>8, RetryStep
<1>9. CASE \/ Unparsed \/ SkipTest \/ SkipExtensions \/ SkipZlib
           \/ RedirectEmpty \/ NoRedirection \/ EmptyRequest
  BY <1>9, EarlyReturn
<1>10. CASE BorkedByClean \/ Pass \/ Report
  BY <1>10, LateReturn
<1>11. CASE TestsFinished \/ Summarize \/ Ended \/ UNCHANGED vars
  <2>1. UNCHANGED <<calls, done>>
    BY <1>11 DEF TestsFinished, Summarize, Ended, vars
  <2> QED
    BY <2>1 DEF TriesInv, CallsInv, TriedAgain
<1> QED
  BY <1>1, <1>2, <1>3, <1>4, <1>5, <1>6, <1>7, <1>8, <1>9, <1>10, <1>11 DEF Next

\* Only CheckSkip writes to the cache.
LEMMA AnswersNext == ASSUME AnswersKnown, [Next]_vars PROVE AnswersKnown'
<1>1. CASE CheckSkip
  <2>1. PICK answer \in Answers :
          skips' = IF answer = "nocache" THEN skips
                   ELSE [k \in DOMAIN skips \cup {CacheKey(Command(Run.php), TestDir, t.SKIPIF)} |->
                           IF k = CacheKey(Command(Run.php), TestDir, t.SKIPIF)
                           THEN answer ELSE skips[k]]
    BY <1>1, Zenon DEF CheckSkip
  <2> DEFINE key == CacheKey(Command(Run.php), TestDir, t.SKIPIF)
  <2> HIDE DEF key
  <2>2. skips' = IF answer = "nocache" THEN skips
                 ELSE [k \in DOMAIN skips \cup {key} |-> IF k = key THEN answer ELSE skips[k]]
    BY <2>1 DEF key
  <2> QED
    BY <2>2 DEF AnswersKnown
<1>2. CASE UNCHANGED skips
  BY <1>2 DEF AnswersKnown
<1>3. CheckSkip \/ UNCHANGED skips
  BY Zenon DEF Next, vars, NextTest, Unparsed, SkipTest, Prepare, SkipExtensions, SkipCached,
    SkipZlib, Redirect, RedirectEnds, RedirectEmpty, NoRedirection, EmptyRequest, Execute, Retry,
    BorkedByClean, Pass, Report, TestsFinished, Summarize, Ended
<1> QED
  BY <1>1, <1>2, <1>3

LEMMA TriesInvariant == Spec => [](TriesInv /\ AnswersKnown)
<1>1. Init => TriesInv /\ AnswersKnown
  BY TriesInit DEF Init, AnswersKnown
<1>2. TriesInv /\ AnswersKnown /\ [Next]_vars => (TriesInv /\ AnswersKnown)'
  BY TriesNext, AnswersNext
<1> QED
  BY <1>1, <1>2, PTL DEF Spec

\* Every test that is over was tried at most twice, the second time only after an
\* output that was wrong, and always with the program its sections ask for: the
\* retry of run_test, with the variables of the first attempt.
THEOREM TriedTwiceAtMost == Spec => []TriedAgain
<1>1. TriesInv => TriedAgain
  BY DEF TriesInv
<1> QED
  BY <1>1, TriesInvariant, PTL

(***************************************************************************)
(* What a step does to the stack of calls and to the tests that are over.  *)
(***************************************************************************)

OverVars == <<test_results, failed_tests, done, IN_REDIRECT, stuck, exit>>

\* The current test goes on to a place of run_test.
Proceeds ==
  /\ Run.at \in {"parse", "SKIPIF", "zlib", "judge"}
  /\ \E run : /\ SetRun(run) /\ run.test = Run.test /\ run.only = Run.only
              /\ run.at \in {"parse", "SKIPIF", "zlib", "judge"}
              /\ run.at # "parse" => Run.at # "parse" \/ ~Refused
  /\ UNCHANGED OverVars

\* What a result may be: first is the first of its classes, entries is what
\* PHP_FAILED_TESTS gets of it.
Judged(run, first, types, entries) ==
  LET executed == run.tries # <<>> /\ run.at = "judge"
      wrong == ~run.passed \/ run.failed_headers
      XLEAK == T[run.test].XLEAK
  IN  /\ first \in DOMAIN ResultOf
      /\ entries \subseteq Results \ {"PASSED", "REDIR"}
      /\ executed /\ wrong /\ ~run.XFAIL /\ ~XLEAK => "FAILED" \in entries
      /\ executed /\ run.leaked /\ ~XLEAK => "LEAKED" \in entries
      /\ first = "PASS" => executed /\ ~wrong /\ ~run.leaked /\ Len(run.tries) = 1
      /\ first \notin {"PASS", "SKIP", "REDIR"} =>
           ResultOf[first] \in entries \/ (first = "BORK" /\ EmptyBorked(run))
      /\ "BORK" \in types => first = "BORK"
      /\ "LEAK" \in types => first = "LEAK"
      /\ "FAIL" \in types => first \in {"FAIL", "LEAK"} \/ run.answer = "warn"

\* The current test returns: with its files in TestDir once its program was run.
Returns ==
  /\ exit = None /\ Run.at \in {"parse", "SKIPIF", "zlib", "judge"}
  /\ \E first, types, entries, report, d :
       /\ Return(first, types, entries, report, d)
       /\ Judged(Run, first, types, entries)
       /\ Run.at = "judge" => d = TestDir
  /\ \/ UNCHANGED <<IN_REDIRECT, stuck>>
     \/ /\ Run.at = "zlib" /\ t.redirect = "empty"
        /\ IN_REDIRECT' = Run.test /\ stuck' = TRUE

\* Nothing is left to do, or the report of a batch is handed on.
Stays == UNCHANGED <<calls, OverVars>> \/ Summarize

\* One more class, or not, at the end of a list of them.
Classes(s) == {s[i] : i \in DOMAIN s}
One(present, class) == IF present THEN <<class>> ELSE <<>>

LEMMA NoClass == Classes(<<>>) = {}
  BY DEF Classes

LEMMA OneClass == ASSUME NEW z PROVE Classes(<<z>>) = {z}
<1>1. DOMAIN <<z>> = {1} /\ <<z>>[1] = z
  OBVIOUS
<1> QED
  BY <1>1, Zenon DEF Classes

LEMMA OneOrNone ==
  ASSUME NEW S, NEW z \in S, NEW p, p = <<z>> \/ p = <<>>
  PROVE  /\ p \in Seq(S)
         /\ p = <<z>> => Len(p) = 1 /\ Classes(p) = {z} /\ p[1] = z
         /\ p = <<>> => Len(p) = 0 /\ Classes(p) = {}
<1>1. CASE p = <<z>>
  BY <1>1, OneClass
<1>2. CASE p = <<>>
  BY <1>2, NoClass
<1> QED
  BY <1>1, <1>2

LEMMA MoreClasses ==
  ASSUME NEW S, NEW u \in Seq(S), NEW w \in Seq(S)
  PROVE  /\ u \o w \in Seq(S) /\ Len(u \o w) = Len(u) + Len(w)
         /\ Classes(u \o w) = Classes(u) \cup Classes(w)
         /\ Len(u) > 0 => (u \o w)[1] = u[1]
         /\ Len(u) = 0 /\ Len(w) > 0 => (u \o w)[1] = w[1]
<1> DEFINE v == u \o w
<1>1. /\ v \in Seq(S) /\ Len(v) = Len(u) + Len(w)
      /\ Len(u) \in Nat /\ Len(w) \in Nat
      /\ DOMAIN u = 1 .. Len(u) /\ DOMAIN w = 1 .. Len(w)
      /\ DOMAIN v = 1 .. Len(u) + Len(w)
      /\ \A i \in 1 .. Len(u) : v[i] = u[i]
      /\ \A i \in 1 .. Len(w) : v[Len(u) + i] = w[i]
  OBVIOUS
<1> HIDE DEF v
<1>2. \A i \in DOMAIN v :
        \/ i \in DOMAIN u /\ v[i] = u[i]
        \/ i - Len(u) \in DOMAIN w /\ v[i] = w[i - Len(u)]
  <2> SUFFICES ASSUME NEW i \in 1 .. Len(u) + Len(w), i \notin 1 .. Len(u)
               PROVE  i - Len(u) \in DOMAIN w /\ v[i] = w[i - Len(u)]
    BY <1>1
  <2>1. i - Len(u) \in 1 .. Len(w) /\ i = Len(u) + (i - Len(u))
    BY <1>1
  <2> QED
    BY <2>1, <1>1
<1>3. /\ \A i \in DOMAIN u : i \in DOMAIN v /\ v[i] = u[i]
      /\ \A i \in DOMAIN w : Len(u) + i \in DOMAIN v /\ v[Len(u) + i] = w[i]
  BY <1>1
<1>4. Classes(v) = Classes(u) \cup Classes(w)
  <2>1. Classes(v) \subseteq Classes(u) \cup Classes(w)
    BY <1>2, Zenon DEF Classes
  <2>2. Classes(u) \subseteq Classes(v)
    BY <1>3, Zenon DEF Classes
  <2>3. Classes(w) \subseteq Classes(v)
    BY <1>3, Zenon DEF Classes
  <2> QED
    BY <2>1, <2>2, <2>3
<1>5. Len(u) > 0 => v[1] = u[1]
  BY <1>1
<1>6. Len(u) = 0 /\ Len(w) > 0 => v[1] = w[1]
  BY <1>1
<1> QED
  BY <1>1, <1>4, <1>5, <1>6 DEF v

\* What restype says, and what comes first.
LEMMA RestypeSays ==
  LET types == {restype[i] : i \in DOMAIN restype}
      XLEAK == t.XLEAK
      wrong == ~Run.passed \/ Run.failed_headers
  IN  /\ restype[1] \in types /\ types \subseteq {"LEAK", "XLEAK", "WARN", "XFAIL", "FAIL"}
      /\ "LEAK" \in types <=> Run.leaked /\ ~XLEAK
      /\ "LEAK" \in types => restype[1] = "LEAK"
      /\ "FAIL" \in types <=> wrong /\ ~Run.XFAIL /\ ~XLEAK
      /\ "FAIL" \in types => restype[1] \in {"LEAK", "FAIL"} \/ Run.warn
<1> DEFINE C == {"LEAK", "XLEAK", "WARN", "XFAIL", "FAIL"}
           wrong == ~Run.passed \/ Run.failed_headers
           leak == IF t.XLEAK THEN "XLEAK" ELSE "LEAK"
           fail == IF Run.XFAIL THEN "XFAIL" ELSE IF t.XLEAK THEN "XLEAK" ELSE "FAIL"
           us == IF Run.leaked THEN <<leak>> ELSE <<>>
           vs == IF Run.warn \/ Clean THEN <<"WARN">> ELSE <<>>
           ws == IF wrong THEN <<fail>> ELSE <<>>
           uvs == us \o vs
<1>1. /\ leak \in C /\ leak \in {"LEAK", "XLEAK"} /\ (leak = "LEAK" <=> ~t.XLEAK)
      /\ fail \in C /\ fail \in {"XFAIL", "XLEAK", "FAIL"} /\ (fail = "FAIL" <=> ~Run.XFAIL /\ ~t.XLEAK)
  OBVIOUS
<1>2. /\ "WARN" \in C
      /\ us = (IF Run.leaked THEN <<leak>> ELSE <<>>)
      /\ vs = (IF Run.warn \/ Clean THEN <<"WARN">> ELSE <<>>)
      /\ ws = (IF wrong THEN <<fail>> ELSE <<>>)
      /\ restype = uvs \o ws
  BY DEF restype
<1>3. Run.leaked \/ Run.warn \/ Clean \/ wrong
  BY DEF Clean
<1>4. Clean => ~Run.leaked /\ ~wrong
  BY DEF Clean
<1>5. /\ us \in Seq(C) /\ Len(us) = (IF Run.leaked THEN 1 ELSE 0)
      /\ Classes(us) = (IF Run.leaked THEN {leak} ELSE {})
      /\ Run.leaked => us[1] = leak
  <2> HIDE DEF us, leak, C
  <2> QED
    BY <1>1, <1>2, OneOrNone
<1>6. /\ vs \in Seq(C) /\ Len(vs) = (IF Run.warn \/ Clean THEN 1 ELSE 0)
      /\ Classes(vs) = (IF Run.warn \/ Clean THEN {"WARN"} ELSE {})
      /\ Run.warn \/ Clean => vs[1] = "WARN"
  <2> HIDE DEF vs, C
  <2> QED
    BY <1>2, OneOrNone
<1>7. /\ ws \in Seq(C) /\ Len(ws) = (IF wrong THEN 1 ELSE 0)
      /\ Classes(ws) = (IF wrong THEN {fail} ELSE {})
      /\ wrong => ws[1] = fail
  <2> HIDE DEF ws, fail, wrong, C
  <2> QED
    BY <1>1, <1>2, OneOrNone
<1> HIDE DEF us, vs, ws, leak, fail, C
<1>8. /\ uvs \in Seq(C) /\ Len(uvs) = Len(us) + Len(vs) /\ Classes(uvs) = Classes(us) \cup Classes(vs)
      /\ Len(us) > 0 => uvs[1] = us[1]
      /\ Len(us) = 0 /\ Len(vs) > 0 => uvs[1] = vs[1]
  <2>1. us \in Seq(C) /\ vs \in Seq(C)
    BY <1>5, <1>6
  <2>2. Classes(us \o vs) = Classes(us) \cup Classes(vs)
    BY <2>1, MoreClasses
  <2>3. Len(us \o vs) = Len(us) + Len(vs) /\ us \o vs \in Seq(C)
    BY <2>1, MoreClasses
  <2>4. (Len(us) > 0) => (us \o vs)[1] = us[1]
    BY <2>1, MoreClasses
  <2>5. Len(us) = 0 /\ Len(vs) > 0 => (us \o vs)[1] = vs[1]
    BY <2>1, MoreClasses
  <2> QED
    BY <2>2, <2>3, <2>4, <2>5
<1> HIDE DEF uvs
<1>9. /\ Classes(restype) = Classes(uvs) \cup Classes(ws)
      /\ Len(uvs) > 0 => restype[1] = uvs[1]
      /\ Len(uvs) = 0 /\ Len(ws) > 0 => restype[1] = ws[1]
  <2>1. uvs \in Seq(C) /\ ws \in Seq(C) /\ restype = uvs \o ws
    BY <1>2, <1>7, <1>8
  <2>2. Classes(uvs \o ws) = Classes(uvs) \cup Classes(ws)
    BY <2>1, MoreClasses
  <2>3. (Len(uvs) > 0) => (uvs \o ws)[1] = uvs[1]
    BY <2>1, MoreClasses
  <2>4. Len(uvs) = 0 /\ Len(ws) > 0 => (uvs \o ws)[1] = ws[1]
    BY <2>1, MoreClasses
  <2> QED
    BY <2>1, <2>2, <2>3, <2>4
<1>10. /\ Classes(restype) = (IF Run.leaked THEN {leak} ELSE {})
            \cup (IF Run.warn \/ Clean THEN {"WARN"} ELSE {}) \cup (IF wrong THEN {fail} ELSE {})
       /\ Run.leaked => restype[1] = leak
       /\ ~Run.leaked /\ (Run.warn \/ Clean) => restype[1] = "WARN"
       /\ ~Run.leaked /\ ~(Run.warn \/ Clean) /\ wrong => restype[1] = fail
  BY <1>5, <1>6, <1>7, <1>8, <1>9
<1>11. Classes(restype) = {restype[i] : i \in DOMAIN restype}
  BY DEF Classes
<1> QED
  BY <1>1, <1>3, <1>4, <1>10, <1>11

(***************************************************************************)
(* Every step is of one of these kinds.                                    *)
(***************************************************************************)

\* Before its program is run a test can only be skipped or BORKED.
LEMMA JudgedEarly ==
  ASSUME NEW run, run.at # "judge"
  PROVE  /\ Judged(run, "SKIP", {"SKIP"}, {})
         /\ Judged(run, "BORK", {"BORK"}, {"BORKED"})
         /\ EmptyBorked(run) => Judged(run, "BORK", {"BORK"}, {})
BY DEF Judged, ResultOf, Results

\* The parser, the sections and the extensions end a test.
LEMMA EarlyReturns ==
  ASSUME Unparsed \/ SkipTest \/ SkipExtensions \/ SkipZlib
         \/ RedirectEmpty \/ NoRedirection \/ EmptyRequest
  PROVE  Returns
<1>1. exit = None /\ Run.at \in {"parse", "zlib"}
  BY DEF Unparsed, SkipTest, SkipExtensions, SkipZlib, RedirectEmpty, NoRedirection,
         EmptyRequest, ToRun, Ready, At, Running
<1>2. \E report, d :
        \/ Return("SKIP", {"SKIP"}, {}, report, d)
        \/ Return("BORK", {"BORK"}, {"BORKED"}, report, d)
        \/ Return("BORK", {"BORK"}, {}, report, d) /\ EmptyBorked(Run)
  BY Zenon DEF Unparsed, SkipTest, SkipExtensions, SkipZlib, RedirectEmpty, NoRedirection,
               EmptyRequest, ToRun, Ready, At, Skip, Bork, EmptyBorked, t
<1>3. \/ UNCHANGED <<IN_REDIRECT, stuck>>
      \/ Run.at = "zlib" /\ t.redirect = "empty" /\ IN_REDIRECT' = Run.test /\ stuck' = TRUE
  BY DEF Unparsed, SkipTest, SkipExtensions, SkipZlib, RedirectEmpty, NoRedirection,
         EmptyRequest, Ready, At
<1>4. \E first, types, entries, report, d :
        Return(first, types, entries, report, d) /\ Judged(Run, first, types, entries)
  BY <1>1, <1>2, JudgedEarly, Zenon DEF t
<1> QED
  BY <1>1, <1>3, <1>4 DEF Returns

\* SKIPIF ends a test or lets it go on.
LEMMA AnswerGoesOn ==
  ASSUME TriesInv, exit = None, Run.at = "SKIPIF", NEW answer, AfterAnswer(answer),
         UNCHANGED <<IN_REDIRECT, stuck>>
  PROVE  Proceeds \/ Returns
<1>1. CASE answer \in {"skip", "junk"}
  <2>1. \E report, d :
          \/ Return("SKIP", {"SKIP"}, {}, report, d)
          \/ Return("BORK", {"BORK"}, {"BORKED"}, report, d)
    <3>1. Skip(Timed(junit)) \/ Bork(Timed(junit))
      BY <1>1 DEF AfterAnswer
    <3> QED
      BY <3>1, Zenon DEF Skip, Bork
  <2>2. \E first, types, entries, report, d :
          Return(first, types, entries, report, d) /\ Judged(Run, first, types, entries)
    BY <2>1, JudgedEarly, Zenon
  <2> QED
    BY <2>2 DEF Returns
<1>2. CASE answer \notin {"skip", "junk"}
  <2> DEFINE run == [Run EXCEPT !.at = "zlib", !.answer = answer, !.warn = (answer = "warn"),
                                !.XFAIL = @ \/ answer = "xfail",
                                !.flaky = @ \/ answer = "flaky"]
  <2>1. SetRun(run) /\ UNCHANGED OverVars
    BY <1>2 DEF AfterAnswer, OverVars
  <2>2. IsRun(Run)
    BY AtWork
  <2>3. run.at = "zlib" /\ run.test = Run.test /\ run.only = Run.only
    BY <2>2 DEF IsRun, Locals
  <2> HIDE DEF run
  <2> QED
    BY <2>1, <2>3 DEF Proceeds
<1> QED
  BY <1>1, <1>2

\* A test is prepared.
LEMMA PrepareProceeds == ASSUME TriesInv, Prepare PROVE Proceeds
<1> DEFINE run == [Prepared EXCEPT !.at = IF t.SKIPIF = None THEN "zlib" ELSE "SKIPIF"]
<1>1. Run.at = "parse" /\ ~Refused /\ SetRun(run) /\ UNCHANGED OverVars
  BY DEF Prepare, At, OverVars
<1>2. IsRun(Run)
  BY <1>1, AtWork
<1>3. run.at \in {"SKIPIF", "zlib"} /\ run.test = Run.test /\ run.only = Run.only
  BY <1>2 DEF Prepared, IsRun, Locals
<1> HIDE DEF run
<1> QED
  BY <1>1, <1>3 DEF Proceeds

\* Its program is run.
LEMMA ExecuteProceeds == ASSUME TriesInv, Execute PROVE Proceeds
<1>1. Run.at = "zlib" /\ UNCHANGED OverVars
  BY DEF Execute, ToRun, Ready, At, OverVars
<1>2. IsRun(Run)
  BY <1>1, AtWork
<1>3. PICK passed \in BOOLEAN, leaked \in BOOLEAN, failed_headers \in BOOLEAN,
           flakyOutput \in BOOLEAN, cleanOutput \in BOOLEAN :
       /\ leaked => option.valgrind
       /\ failed_headers => t.EXPECTHEADERS
       /\ flakyOutput => ~passed
       /\ cleanOutput => t.CLEAN /\ ~option.no_clean
       /\ LET preloads == Run.preloads + (IF option.preload THEN 1 ELSE 0)
          IN  SetRun([Run EXCEPT !.at = "judge", !.preloads = preloads,
                !.tries = Append(@, <<Run.php, passed>>),
                !.passed = passed, !.leaked = leaked, !.failed_headers = failed_headers,
                !.flakyOutput = flakyOutput, !.cleanOutput = cleanOutput])
  BY Zenon DEF Execute
<1> DEFINE preloads == Run.preloads + (IF option.preload THEN 1 ELSE 0)
           run == [Run EXCEPT !.at = "judge", !.preloads = preloads,
                     !.tries = Append(@, <<Run.php, passed>>),
                     !.passed = passed, !.leaked = leaked, !.failed_headers = failed_headers,
                     !.flakyOutput = flakyOutput, !.cleanOutput = cleanOutput]
<1>4. run.at = "judge" /\ run.test = Run.test /\ run.only = Run.only
  BY <1>2 DEF IsRun, Locals
<1>5. SetRun(run)
  BY <1>3
<1> HIDE DEF run
<1> QED
  BY <1>1, <1>4, <1>5 DEF Proceeds

\* It is tried again.
LEMMA RetryProceeds == ASSUME Retry PROVE Proceeds
<1> DEFINE run == [Idle EXCEPT !.test = Run.test, !.only = Run.only, !.at = "parse",
                     !.php = Run.php, !.orig_php = Run.orig_php, !.rr = Run.rr,
                     !.preloads = Run.preloads, !.retried = TRUE, !.tries = Run.tries]
<1>1. Run.at = "judge" /\ SetRun(run) /\ UNCHANGED OverVars
  BY DEF Retry, At, OverVars
<1>2. run.at = "parse" /\ run.test = Run.test /\ run.only = Run.only
  BY DEF Idle
<1> HIDE DEF run
<1> QED
  BY <1>1, <1>2 DEF Proceeds

\* Its output is judged.
LEMMA LateReturns ==
  ASSUME TriesInv, BorkedByClean \/ Pass \/ Report
  PROVE  Returns
<1>1. exit = None /\ Run.at = "judge" /\ UNCHANGED <<IN_REDIRECT, stuck>>
  BY DEF BorkedByClean, Pass, Report, At, Running
<1>2. IsRun(Run) /\ Tried(Run)
  BY <1>1, AtWork
<1>3. Run.tries # <<>> /\ (~Run.retried => Len(Run.tries) = 1)
  BY <1>1, <1>2 DEF Tried
<1>4. CASE BorkedByClean
  <2>1. Return("BORK", {"BORK"}, {"BORKED"}, junit, TestDir)
    BY <1>4 DEF BorkedByClean, Bork
  <2>2. Judged(Run, "BORK", {"BORK"}, {"BORKED"})
    BY <1>4 DEF BorkedByClean, Clean, Judged, ResultOf, Results
  <2> QED
    BY <1>1, <2>1, <2>2 DEF Returns
<1>5. CASE Pass
  <2>1. Return("PASS", {"PASS"}, {}, junit, TestDir)
    BY <1>5 DEF Pass
  <2>2. Judged(Run, "PASS", {"PASS"}, {})
    BY <1>1, <1>3, <1>5 DEF Pass, Clean, Unexpected, Judged, ResultOf, Results
  <2> QED
    BY <1>1, <2>1, <2>2 DEF Returns
<1>6. CASE Report
  <2> DEFINE types == {restype[i] : i \in DOMAIN restype}
             entries == {ResultOf[y] : y \in types}
  <2>1. Return(restype[1], types, entries, junit, TestDir)
    BY <1>6 DEF Report
  <2>2. /\ restype[1] \in types /\ types \subseteq {"LEAK", "XLEAK", "WARN", "XFAIL", "FAIL"}
        /\ "LEAK" \in types <=> Run.leaked /\ ~t.XLEAK
        /\ "LEAK" \in types => restype[1] = "LEAK"
        /\ "FAIL" \in types <=> (~Run.passed \/ Run.failed_headers) /\ ~Run.XFAIL /\ ~t.XLEAK
        /\ "FAIL" \in types => restype[1] \in {"LEAK", "FAIL"} \/ Run.warn
    BY RestypeSays
  <2>3. Run.warn => Run.answer = "warn"
    BY <1>2 DEF IsRun
  <2> HIDE DEF types
  <2>4. \A y \in types : ResultOf[y] \in entries
    OBVIOUS
  <2>5. entries \subseteq Results \ {"PASSED", "REDIR"}
    BY <2>2 DEF ResultOf, Results
  <2> HIDE DEF entries
  <2>6. ResultOf["FAIL"] = "FAILED" /\ ResultOf["LEAK"] = "LEAKED"
    BY DEF ResultOf
  <2>7. restype[1] \in DOMAIN ResultOf
    BY <2>2 DEF ResultOf
  <2>8. /\ restype[1] # "PASS" /\ "BORK" \notin types
        /\ ResultOf[restype[1]] \in entries
        /\ "FAIL" \in types => "FAILED" \in entries
        /\ "LEAK" \in types => "LEAKED" \in entries
    BY <2>2, <2>4, <2>6
  <2>9. Judged(Run, restype[1], types, entries)
    BY <2>2, <2>3, <2>5, <2>7, <2>8 DEF Judged, t
  <2> QED
    BY <1>1, <2>1, <2>9 DEF Returns
<1> QED
  BY <1>4, <1>5, <1>6

\* All steps.
LEMMA StepKinds ==
  ASSUME TriesInv, [Next]_vars
  PROVE  NextTest \/ Proceeds \/ Returns \/ Redirect \/ RedirectEnds \/ Stays
<1>1. CASE Prepare \/ Execute \/ Retry
  BY <1>1, PrepareProceeds, ExecuteProceeds, RetryProceeds
<1>2. CASE SkipCached \/ CheckSkip
  <2>1. exit = None /\ Run.at = "SKIPIF" /\ UNCHANGED <<IN_REDIRECT, stuck>>
    BY <1>2 DEF SkipCached, CheckSkip, At, Running
  <2>2. \E answer : AfterAnswer(answer)
    BY <1>2, Zenon DEF SkipCached, CheckSkip
  <2> QED
    BY <2>1, <2>2, AnswerGoesOn
<1>3. CASE \/ Unparsed \/ SkipTest \/ SkipExtensions \/ SkipZlib
           \/ RedirectEmpty \/ NoRedirection \/ EmptyRequest
  BY <1>3, EarlyReturns
<1>4. CASE BorkedByClean \/ Pass \/ Report
  BY <1>4, LateReturns
<1>5. CASE TestsFinished \/ Summarize \/ Ended \/ UNCHANGED vars
  BY <1>5 DEF TestsFinished, Ended, vars, OverVars, Stays
<1> QED
  BY <1>1, <1>2, <1>3, <1>4, <1>5, Zenon DEF Next

(***************************************************************************)
(* The stack of calls after a step.                                        *)
(***************************************************************************)

\* The calls below the n-th are as they were, and so is what the n-th has to do.
SameBelow(n) ==
  /\ Len(calls') = n
  /\ calls'[n].todo = calls[n].todo
  /\ \A m \in 1 .. n - 1 : calls'[m] = calls[m]

LEMMA SetRunEffect ==
  ASSUME CallsInv, NEW run, SetRun(run)
  PROVE  SameBelow(Len(calls)) /\ Run' = run
<1> DEFINE n == Len(calls)
           c == [calls[n] EXCEPT !.run = run]
<1>1. PICK S : calls \in Seq(S)
  BY DEF CallsInv
<1>2. n \in DOMAIN calls /\ DOMAIN calls = 1 .. n /\ n \in Nat \ {0} /\ IsCall(calls[n])
  BY CurrentCall DEF Call
<1>3. c.run = run /\ c.todo = calls[n].todo
  BY <1>2 DEF IsCall
<1>4. calls' = [calls EXCEPT ![n] = c]
  BY <1>2 DEF SetRun
<1> HIDE DEF c
<1>5. calls \in Seq(S \cup {c}) /\ c \in S \cup {c}
  BY <1>1, SeqMonotonic
<1>6. Len(calls') = n
  BY <1>2, <1>4, <1>5
<1>7. calls'[n] = c /\ \A m \in 1 .. n - 1 : calls'[m] = calls[m]
  <2>1. \A m \in 1 .. n - 1 : m \in 1 .. n /\ m # n
    <3> HIDE DEF n
    <3> QED
      BY <1>2
  <2> QED
    BY <2>1, <1>2, <1>4
<1> QED
  BY <1>3, <1>6, <1>7 DEF SameBelow, Run, Call

LEMMA ReturnEffect ==
  ASSUME CallsInv, NEW n \in DOMAIN calls,
         NEW first, NEW types, NEW entries, NEW report, NEW d,
         ReturnFrom(n, first, types, entries, report, d)
  PROVE  SameBelow(n) /\ calls'[n].run = Idle /\ Run' = Idle
<1> DEFINE below == SubSeq(calls, 1, n)
           c == [calls[n] EXCEPT !.run = Idle]
<1>1. PICK S : calls \in Seq(S)
  BY DEF CallsInv
<1>2. n \in 1 .. Len(calls) /\ Len(calls) \in Nat
  BY <1>1
<1>3. below \in Seq(S) /\ Len(below) = n /\ \A m \in 1 .. n : below[m] = calls[m]
  BY <1>1, <1>2, SubSeqProperties
<1>4. IsCall(calls[n])
  BY DEF CallsInv
<1>5. c.run = Idle /\ c.todo = calls[n].todo
  BY <1>4 DEF IsCall
<1>6. calls' = [below EXCEPT ![n].run = Idle]
  BY Zenon DEF ReturnFrom
<1>7. calls' = [below EXCEPT ![n] = c]
  <2>1. DOMAIN below = 1 .. n /\ n \in DOMAIN below /\ below[n] = calls[n]
    BY <1>2, <1>3
  <2> HIDE DEF below
  <2> QED
    BY <1>6, <2>1
<1> HIDE DEF c, below
<1>8. below \in Seq(S \cup {c}) /\ c \in S \cup {c}
  BY <1>3, SeqMonotonic
<1>9. Len(calls') = n
  BY <1>2, <1>3, <1>7, <1>8
<1>10. calls'[n] = c /\ \A m \in 1 .. n - 1 : calls'[m] = calls[m]
  BY <1>2, <1>3, <1>7, <1>8
<1> QED
  BY <1>5, <1>9, <1>10 DEF SameBelow, Run, Call

LEMMA NextTestEffect ==
  ASSUME CallsInv, NextTest
  PROVE  \E e \in Call.todo :
           /\ Len(calls') = Len(calls) /\ \A m \in 1 .. Len(calls) - 1 : calls'[m] = calls[m]
           /\ Call'.todo = Call.todo \ {e}
           /\ Run' = [Idle EXCEPT !.test = e[1], !.only = e[2], !.at = "parse"]
<1> DEFINE n == Len(calls)
<1>1. PICK e \in Call.todo :
        calls' = [calls EXCEPT ![n] =
                   [todo |-> @.todo \ {e},
                    run |-> [Idle EXCEPT !.test = e[1], !.only = e[2], !.at = "parse"]]]
  BY DEF NextTest
<1> DEFINE run == [Idle EXCEPT !.test = e[1], !.only = e[2], !.at = "parse"]
           c == [todo |-> Call.todo \ {e}, run |-> run]
<1>2. PICK S : calls \in Seq(S)
  BY DEF CallsInv
<1>3. n \in DOMAIN calls /\ DOMAIN calls = 1 .. n /\ n \in Nat \ {0}
  BY CurrentCall
<1>4. calls' = [calls EXCEPT ![n] = c]
  BY <1>1, <1>3 DEF Call
<1>5. c.run = run /\ c.todo = Call.todo \ {e}
  OBVIOUS
<1> HIDE DEF c, run
<1>6. calls \in Seq(S \cup {c}) /\ c \in S \cup {c}
  BY <1>2, SeqMonotonic
<1>7. Len(calls') = n
  BY <1>3, <1>4, <1>6
<1>8. calls'[n] = c /\ \A m \in 1 .. n - 1 : calls'[m] = calls[m]
  <2>1. \A m \in 1 .. n - 1 : m \in 1 .. n /\ m # n
    <3> HIDE DEF n
    <3> QED
      BY <1>3
  <2> QED
    BY <2>1, <1>3, <1>4
<1>9. Call' = c /\ Run' = run
  BY <1>5, <1>7, <1>8 DEF Call, Run
<1> QED
  BY <1>5, <1>7, <1>8, <1>9 DEF run

LEMMA RedirectEffect ==
  ASSUME CallsInv, Len(calls) = 1, Redirect
  PROVE  /\ Len(calls') = 2 /\ Run' = Idle
         /\ calls'[1].todo = calls[1].todo /\ calls'[1].run.at = "redirected"
         /\ calls'[1].run.test = Run.test /\ calls'[1].run.only = Run.only
         /\ calls'[2].todo = {<<i, None>> : i \in IF Run.only # None THEN {Run.only} ELSE t.inner}
         /\ calls'[2].run = Idle
<1> DEFINE over == Loop({<<i, None>> : i \in IF Run.only # None THEN {Run.only} ELSE t.inner})
           stay == [calls[1].run EXCEPT !.at = "redirected"]
           c == [calls[1] EXCEPT !.run = stay]
           below == [calls EXCEPT ![1] = c]
<1>1. PICK S : calls \in Seq(S)
  BY DEF CallsInv
<1>2. /\ DOMAIN calls = 1 .. 1 /\ 1 \in DOMAIN calls /\ IsCall(calls[1]) /\ IsRun(Run)
      /\ Run = calls[1].run
  BY CurrentCall DEF Call, Run, RunInv
<1>3. calls' = Append(below, over)
  BY <1>2 DEF Redirect
<1>4. /\ c.run = stay /\ c.todo = calls[1].todo
      /\ stay.at = "redirected" /\ stay.test = Run.test /\ stay.only = Run.only
  BY <1>2 DEF IsCall, IsRun, Locals
<1>5. /\ over.run = Idle
      /\ over.todo = {<<i, None>> : i \in IF Run.only # None THEN {Run.only} ELSE t.inner}
  BY DEF Loop
<1> HIDE DEF over, stay, c
<1>6. calls \in Seq(S \cup {c, over}) /\ c \in S \cup {c, over}
  BY <1>1, SeqMonotonic
<1>7. below \in Seq(S \cup {c, over}) /\ Len(below) = 1 /\ below[1] = c
  BY <1>2, <1>6
<1> HIDE DEF below
<1>8. Len(calls') = 2 /\ calls'[1] = c /\ calls'[2] = over
  BY <1>3, <1>7
<1> QED
  BY <1>4, <1>5, <1>8 DEF Run, Call

(***************************************************************************)
(* Redirections do not nest, and $IN_REDIRECT is the test that redirects,  *)
(* unless one had no TESTS.                                                *)
(***************************************************************************)

RedirectInv ==
  /\ Len(calls) \in {1, 2} /\ Run.at # "redirected"
  /\ Len(calls) = 2 => IN_REDIRECT = calls[1].run.test /\ ~stuck
  /\ Len(calls) = 1 => (IN_REDIRECT # None <=> stuck)
  /\ Run.at \in {"SKIPIF", "zlib", "judge"} => IN_REDIRECT = None \/ t.redirect = "no"
  /\ IN_REDIRECT \in Test /\ stuck \in BOOLEAN

\* What waits is a test.
LEMMA Waiting ==
  ASSUME CallsInv, RedirectInv, Len(calls) = 2
  PROVE  /\ 1 \in DOMAIN calls /\ calls[1].run.at = "redirected"
         /\ calls[1].run.test \in Tests /\ calls[1].run.only \in Test /\ IN_REDIRECT # None
<1>1. 1 \in DOMAIN calls
  BY CurrentCall
<1>2. calls[1].run.at = "redirected" /\ IsRun(calls[1].run) /\ Tried(calls[1].run)
  BY <1>1 DEF CallsInv, RunInv
<1> QED
  BY <1>1, <1>2, RunTestAssumption DEF Tried, IsRun, RedirectInv

\* Only the outer call makes a redirection, and only when there is none.
LEMMA RedirectsOnce ==
  ASSUME CallsInv, RedirectInv, Run.at = "zlib", t.redirect # "no"
  PROVE  Len(calls) = 1 /\ IN_REDIRECT = None /\ ~stuck
<1>1. IN_REDIRECT = None
  BY DEF RedirectInv
<1>2. Len(calls) # 2
  BY <1>1, Waiting
<1> QED
  BY <1>1, <1>2 DEF RedirectInv

LEMMA RedirectInit == ASSUME Init PROVE RedirectInv
<1>1. PICK l \in Lists : calls = <<Loop(l)>>
  BY DEF Init
<1>2. Len(calls) = 1 /\ calls[1] = Loop(l)
  BY <1>1
<1>3. Run.at = "next"
  BY <1>2 DEF Run, Call, Loop, Idle
<1>4. IN_REDIRECT = None /\ stuck = FALSE
  BY DEF Init
<1>5. Run.at \notin {"SKIPIF", "zlib", "judge", "redirected"}
  BY <1>3
<1>6. Len(calls) \in {1, 2} /\ Len(calls) # 2
  BY <1>2
<1>7. IN_REDIRECT \in Test /\ stuck \in BOOLEAN /\ (IN_REDIRECT # None <=> stuck)
  BY <1>4 DEF Test
<1> QED
  BY <1>5, <1>6, <1>7, Zenon DEF RedirectInv

LEMMA RedirectNext ==
  ASSUME TriesInv, RedirectInv, [Next]_vars
  PROVE  RedirectInv'
<1>1. CallsInv /\ DOMAIN calls = 1 .. Len(calls) /\ Len(calls) \in {1, 2}
  BY CurrentCall DEF TriesInv, RedirectInv
<1>2. CASE NextTest
  <2>1. PICK e \in Call.todo :
          /\ Len(calls') = Len(calls) /\ \A m \in 1 .. Len(calls) - 1 : calls'[m] = calls[m]
          /\ Run' = [Idle EXCEPT !.test = e[1], !.only = e[2], !.at = "parse"]
    BY <1>1, <1>2, NextTestEffect
  <2>2. Run'.at = "parse"
    BY <2>1 DEF Idle
  <2>3. UNCHANGED <<IN_REDIRECT, stuck>>
    BY <1>2 DEF NextTest
  <2>4. Len(calls) = 2 => calls'[1] = calls[1]
    BY <2>1
  <2> QED
    BY <2>1, <2>2, <2>3, <2>4 DEF RedirectInv
<1>3. CASE Proceeds
  <2>1. PICK run : /\ SetRun(run) /\ run.test = Run.test
                   /\ run.at \in {"parse", "SKIPIF", "zlib", "judge"}
                   /\ run.at # "parse" => Run.at # "parse" \/ ~Refused
    BY <1>3, Zenon DEF Proceeds
  <2>2. SameBelow(Len(calls)) /\ Run' = run
    BY <1>1, <2>1, SetRunEffect
  <2>3. UNCHANGED <<IN_REDIRECT, stuck>> /\ Run.at \in {"parse", "SKIPIF", "zlib", "judge"}
    BY <1>3 DEF Proceeds, OverVars
  <2>4. t' = t
    BY <2>1, <2>2 DEF t
  <2>5. run.at # "parse" => IN_REDIRECT = None \/ t.redirect = "no"
    BY <2>1, <2>3 DEF RedirectInv, Refused
  <2> QED
    BY <1>1, <2>1, <2>2, <2>3, <2>4, <2>5 DEF RedirectInv, SameBelow
<1>4. CASE Returns
  <2>1. SameBelow(Len(calls)) /\ Run' = Idle
    <3>1. PICK first, types, entries, report, d : Return(first, types, entries, report, d)
      BY <1>4, Zenon DEF Returns
    <3> QED
      BY <1>1, <3>1, CurrentCall, ReturnEffect DEF Return
  <2>2. Idle.at = "next"
    BY DEF Idle
  <2>3. \/ UNCHANGED <<IN_REDIRECT, stuck>>
        \/ /\ Len(calls) = 1 /\ IN_REDIRECT' = Run.test /\ stuck' = TRUE
           /\ Run.test \in Tests
    <3>1. \/ UNCHANGED <<IN_REDIRECT, stuck>>
          \/ /\ Run.at = "zlib" /\ t.redirect = "empty"
             /\ IN_REDIRECT' = Run.test /\ stuck' = TRUE
      BY <1>4 DEF Returns
    <3>2. Run.at = "zlib" /\ t.redirect = "empty" => Len(calls) = 1
      BY <1>1, RedirectsOnce
    <3>3. Run.at = "zlib" => Run.test \in Tests
      BY AtWork DEF Tried
    <3> QED
      BY <3>1, <3>2, <3>3
  <2>4. Len(calls') = Len(calls) /\ (Len(calls) = 2 => calls'[1] = calls[1])
    BY <2>1 DEF SameBelow
  <2>5. CASE UNCHANGED <<IN_REDIRECT, stuck>>
    BY <2>1, <2>2, <2>4, <2>5 DEF RedirectInv
  <2>6. CASE Len(calls) = 1 /\ IN_REDIRECT' = Run.test /\ stuck' = TRUE /\ Run.test \in Tests
    <3>1. IN_REDIRECT' # None /\ IN_REDIRECT' \in Test
      BY <2>6, RunTestAssumption DEF Test
    <3> QED
      BY <2>1, <2>2, <2>4, <2>6, <3>1 DEF RedirectInv
  <2> QED
    BY <2>3, <2>5, <2>6
<1>5. CASE Redirect
  <2>1. Run.at = "zlib" /\ t.redirect = "TESTS" /\ IN_REDIRECT' = Run.test /\ stuck' = stuck
    BY <1>5 DEF Redirect, Ready, At
  <2>2. Len(calls) = 1 /\ ~stuck
    BY <1>1, <2>1, RedirectsOnce
  <2>3. Len(calls') = 2 /\ Run' = Idle /\ calls'[1].run.test = Run.test
    BY <1>1, <1>5, <2>2, RedirectEffect
  <2>4. Run.test \in Tests
    BY <2>1, AtWork DEF Tried
  <2> QED
    BY <2>1, <2>2, <2>3, <2>4 DEF RedirectInv, Idle, Test
<1>6. CASE RedirectEnds
  <2>1. /\ IN_REDIRECT' = None /\ stuck' = stuck /\ Len(calls) = 2
        /\ ReturnFrom(1, "REDIR", {"PASS"}, {}, junit, T[calls[1].run.test].dir)
    BY <1>6 DEF RedirectEnds, NotRedirected
  <2>2. Len(calls') = 1 /\ Run' = Idle
    BY <1>1, <2>1, CurrentCall, ReturnEffect DEF SameBelow
  <2> QED
    BY <2>1, <2>2 DEF RedirectInv, Idle, Test
<1>7. CASE Stays
  <2>1. UNCHANGED <<calls, IN_REDIRECT, stuck>>
    BY <1>7 DEF Stays, Summarize, OverVars
  <2> QED
    BY <2>1 DEF RedirectInv, Run, Call, t
<1> QED
  BY <1>2, <1>3, <1>4, <1>5, <1>6, <1>7, StepKinds

LEMMA RedirectInvariant == Spec => []RedirectInv
<1>1. Init => RedirectInv
  BY RedirectInit
<1>2. TriesInv /\ RedirectInv /\ [Next]_vars => RedirectInv'
  BY RedirectNext
<1> QED
  BY <1>1, <1>2, TriesInvariant, PTL DEF Spec

(***************************************************************************)
(* What is known of a test that is over.                                   *)
(***************************************************************************)

ViaOf(n) == IF n > 1 THEN calls[1].run.test ELSE None
Entry(n, first, types, d) ==
  [test |-> calls[n].run.test, via |-> ViaOf(n), only |-> calls[n].run.only,
   result |-> ResultOf[first], types |-> types, dir |-> d, run |-> calls[n].run]

\* What a return writes down.
LEMMA EntryMade ==
  ASSUME NEW n, NEW first, NEW types, NEW entries, NEW report, NEW d,
         ReturnFrom(n, first, types, entries, report, d)
  PROVE  LET e == Entry(n, first, types, d)
         IN  /\ done' = done \cup {e}
             /\ test_results' = IF e.only = None /\ e.result # "REDIR"
                                THEN test_results \cup {<<e.test, e.via, e.result>>}
                                ELSE test_results
             /\ failed_tests' = IF (e.only = None /\ e.result # "REDIR") \/ ~worker
                                THEN failed_tests \cup {<<y, e.test, e.via>> : y \in entries}
                                ELSE failed_tests
<1>1. done' = done \cup {Entry(n, first, types, d)}
  BY Zenon DEF ReturnFrom, Entry, ViaOf
<1>2. /\ test_results' = IF Kept(n, ResultOf[first])
                         THEN test_results \cup {<<calls[n].run.test, ViaOf(n), ResultOf[first]>>}
                         ELSE test_results
      /\ failed_tests' = IF Kept(n, ResultOf[first]) \/ ~worker
                         THEN failed_tests \cup {<<y, calls[n].run.test, ViaOf(n)>> : y \in entries}
                         ELSE failed_tests
  BY Zenon DEF ReturnFrom, ViaOf
<1> QED
  BY <1>1, <1>2 DEF Entry, Kept

\* Whose return it is.
LEMMA EntryOf ==
  ASSUME TriesInv, RedirectInv, NEW n \in DOMAIN calls, calls[n].run.at # "next",
         NEW first, NEW types, NEW d
  PROVE  LET e == Entry(n, first, types, d)
         IN  /\ e.run = calls[n].run /\ e.test = e.run.test /\ e.only = e.run.only
             /\ e.via = ViaOf(n) /\ e.types = types /\ e.dir = d /\ e.result = ResultOf[first]
             /\ e.test \in Tests /\ e.via \in Test /\ e.only \in Test
             /\ IsRun(e.run) /\ Tried(e.run) /\ PhpChosen(e.run)
<1>1. IsRun(calls[n].run) /\ Tried(calls[n].run) /\ PhpChosen(calls[n].run)
  BY DEF TriesInv, CallsInv, RunInv
<1>2. calls[n].run.test \in Tests /\ calls[n].run.only \in Test
  BY <1>1 DEF Tried, IsRun
<1>3. ViaOf(n) \in Test
  <2>1. CASE n > 1
    <3>1. Len(calls) = 2 /\ CallsInv
      BY <2>1, CurrentCall DEF RedirectInv, TriesInv
    <3> QED
      BY <2>1, <3>1, Waiting DEF ViaOf, Test
  <2>2. CASE ~(n > 1)
    BY <2>2 DEF ViaOf, Test
  <2> QED
    BY <2>1, <2>2
<1> QED
  BY <1>1, <1>2, <1>3 DEF Entry

\* A step ends one run_test or none.
LEMMA DoneStep ==
  ASSUME TriesInv, RedirectInv, [Next]_vars
  PROVE  \/ UNCHANGED <<done, test_results, failed_tests>> /\ (UNCHANGED exit \/ Summarize)
            /\ UNCHANGED stuck
         \/ /\ exit = None /\ UNCHANGED exit /\ (UNCHANGED stuck \/ stuck' = TRUE)
            /\ \E n, first, types, entries, report, d :
                 /\ n \in DOMAIN calls
                 /\ ReturnFrom(n, first, types, entries, report, d)
                 /\ calls[n].run.at # "next"
                 /\ Judged(calls[n].run, first, types, entries)
                 /\ calls[n].run.at = "judge" => n = Len(calls) /\ d = TestDir
<1>1. CASE NextTest \/ Proceeds \/ Redirect \/ Stays
  BY <1>1 DEF NextTest, Proceeds, Redirect, Stays, Summarize, OverVars
<1>2. CASE Returns
  <2>1. PICK first, types, entries, report, d :
          /\ Return(first, types, entries, report, d)
          /\ Judged(Run, first, types, entries)
          /\ Run.at = "judge" => d = TestDir
    BY <1>2, Zenon DEF Returns
  <2>2. ReturnFrom(Len(calls), first, types, entries, report, d) /\ UNCHANGED exit
    BY <2>1 DEF Return, ReturnFrom
  <2>3. Len(calls) \in DOMAIN calls /\ Run = calls[Len(calls)].run
    BY CurrentCall DEF TriesInv, Run, Call
  <2>4. Run.at # "next" /\ exit = None /\ (UNCHANGED stuck \/ stuck' = TRUE)
    BY <1>2 DEF Returns
  <2> QED
    BY <2>1, <2>2, <2>3, <2>4, Zenon
<1>3. CASE RedirectEnds
  <2>1. /\ ReturnFrom(1, "REDIR", {"PASS"}, {}, junit, T[calls[1].run.test].dir)
        /\ exit = None /\ UNCHANGED stuck /\ Len(calls) = 2
    BY <1>3 DEF RedirectEnds, At, Running
  <2>2. UNCHANGED exit
    BY <2>1 DEF ReturnFrom
  <2>3. 1 \in DOMAIN calls /\ calls[1].run.at = "redirected"
    BY <2>1, Waiting DEF TriesInv
  <2>4. Judged(calls[1].run, "REDIR", {"PASS"}, {})
    BY <2>3 DEF Judged, ResultOf
  <2>5. calls[1].run.at # "next" /\ calls[1].run.at # "judge"
    BY <2>3
  <2> QED
    BY <2>1, <2>2, <2>3, <2>4, <2>5, Zenon
<1> QED
  BY <1>1, <1>2, <1>3, StepKinds

\* Where the program of the current test was run, unless a redirection had no TESTS.
LEMMA DirectoryOf ==
  ASSUME TriesInv, RedirectInv, ~stuck, Run.at = "judge"
  PROVE  TestDir = T[IF ViaOf(Len(calls)) # None THEN ViaOf(Len(calls)) ELSE Run.test].dir
<1>1. CASE Len(calls) = 1
  <2>1. ViaOf(Len(calls)) = None /\ IN_REDIRECT = None
    BY <1>1 DEF ViaOf, RedirectInv
  <2> QED
    BY <2>1 DEF TestDir, t
<1>2. CASE Len(calls) = 2
  <2>1. ViaOf(Len(calls)) = IN_REDIRECT /\ IN_REDIRECT # None
    BY <1>2, Waiting DEF ViaOf, RedirectInv, TriesInv
  <2> QED
    BY <2>1 DEF TestDir
<1> QED
  BY <1>1, <1>2 DEF RedirectInv

LEMMA DirectoryNext ==
  ASSUME TriesInv, RedirectInv, OwnDirectory, [Next]_vars
  PROVE  OwnDirectory'
<1>1. CASE UNCHANGED <<done, stuck>>
  BY <1>1 DEF OwnDirectory, Executed
<1>2. CASE \E n, first, types, entries, report, d :
             /\ n \in DOMAIN calls
             /\ ReturnFrom(n, first, types, entries, report, d)
             /\ calls[n].run.at # "next"
             /\ Judged(calls[n].run, first, types, entries)
             /\ calls[n].run.at = "judge" => n = Len(calls) /\ d = TestDir
  <2> SUFFICES ASSUME ~stuck' PROVE OwnDirectory'
    BY DEF OwnDirectory
  <2>1. ~stuck
    BY DoneStep
  <2>2. PICK n, first, types, entries, report, d :
             /\ n \in DOMAIN calls
             /\ ReturnFrom(n, first, types, entries, report, d)
             /\ calls[n].run.at # "next"
             /\ calls[n].run.at = "judge" => n = Len(calls) /\ d = TestDir
    BY <1>2, Zenon
  <2> DEFINE e == Entry(n, first, types, d)
  <2>3. done' = done \cup {e}
    BY <2>2, EntryMade
  <2>4. /\ e.run = calls[n].run /\ e.test = e.run.test /\ e.via = ViaOf(n) /\ e.dir = d
    BY <2>2, EntryOf
  <2> HIDE DEF e
  <2>5. Executed(e) => e.dir = T[IF e.via # None THEN e.via ELSE e.test].dir
    <3> SUFFICES ASSUME Executed(e)
                 PROVE  e.dir = T[IF e.via # None THEN e.via ELSE e.test].dir
      OBVIOUS
    <3>1. n = Len(calls) /\ d = TestDir /\ calls[n].run.at = "judge"
      BY <2>2, <2>4 DEF Executed
    <3>2. Run = calls[n].run
      BY <3>1 DEF Run, Call
    <3> QED
      BY <2>1, <2>4, <3>1, <3>2, DirectoryOf
  <2> QED
    BY <2>1, <2>3, <2>5 DEF OwnDirectory, Executed
<1> QED
  BY <1>1, <1>2, DoneStep

\* A test's files are written to its own directory unless a redirection runs it, then
\* to that of the redirecting test, as long as no redirection was without TESTS
\* ($IN_REDIRECT is set before the nested run_all_tests and reset after it).
THEOREM FilesInOwnDirectory == Spec => []OwnDirectory
<1>1. Init => OwnDirectory
  BY DEF Init, OwnDirectory
<1>2. TriesInv /\ RedirectInv /\ OwnDirectory /\ [Next]_vars => OwnDirectory'
  BY DirectoryNext
<1> QED
  BY <1>1, <1>2, TriesInvariant, RedirectInvariant, PTL DEF Spec

(***************************************************************************)
(* Results, PHP_FAILED_TESTS and the exit status.                          *)
(***************************************************************************)

\* What a test that is over is listed with, and what its classes say of its result.
Recorded(d) ==
  /\ d.only = None /\ d.result # "REDIR" =>
       LET listed(class) == <<class, d.test, d.via>> \in failed_tests
       IN  /\ <<d.test, d.via, d.result>> \in test_results
           /\ Executed(d) /\ Mismatch(d) /\ ~d.run.XFAIL /\ ~T[d.test].XLEAK => listed("FAILED")
           /\ Executed(d) /\ d.run.leaked /\ ~T[d.test].XLEAK => listed("LEAKED")
           /\ d.result = "PASSED" => /\ Executed(d) /\ ~Mismatch(d) /\ ~d.run.leaked
                                     /\ Len(d.run.tries) = 1
           /\ d.result \notin {"PASSED", "SKIPPED"} =>
                listed(d.result) \/ (d.result = "BORKED" /\ EmptyBorked(d.run))
  /\ "BORK" \in d.types => d.result = "BORKED"
  /\ "LEAK" \in d.types => d.result = "LEAKED"
  /\ "FAIL" \in d.types => d.result \in {"FAILED", "LEAKED"} \/ d.run.answer = "warn"

\* Every result is that of a test that is over.
ResultOwned(r) ==
  \E d \in done : d.only = None /\ d.result # "REDIR" /\ r = <<d.test, d.via, d.result>>

ResultsInv ==
  /\ \A d \in done : d.test \in Tests /\ d.via \in Test /\ d.result \in Results /\ Recorded(d)
  /\ \A r \in test_results : ResultOwned(r)
  /\ failed_tests \subseteq (Results \ {"PASSED", "REDIR"}) \X Tests \X Test
  /\ exit \in {None, 0, 1} /\ (exit = 0 => ~ExitOne)

\* The results of the classes.
LEMMA ResultNames ==
  ASSUME NEW first \in DOMAIN ResultOf
  PROVE  /\ ResultOf[first] \in Results
         /\ ResultOf[first] = "PASSED" <=> first = "PASS"
         /\ ResultOf[first] = "SKIPPED" <=> first = "SKIP"
         /\ ResultOf[first] = "REDIR" <=> first = "REDIR"
         /\ ResultOf[first] = "BORKED" <=> first = "BORK"
         /\ ResultOf[first] = "LEAKED" <=> first = "LEAK"
         /\ ResultOf[first] = "FAILED" <=> first = "FAIL"
BY DEF ResultOf, Results

\* More results and more failures only add to what is known.
LEMMA StillRecorded ==
  ASSUME NEW d, Recorded(d), test_results \subseteq test_results',
         failed_tests \subseteq failed_tests'
  PROVE  Recorded(d)'
BY DEF Recorded, Executed, Mismatch

\* A test that returns is recorded.
LEMMA EntryRecorded ==
  ASSUME TriesInv, RedirectInv, NEW n \in DOMAIN calls, calls[n].run.at # "next",
         NEW first, NEW types, NEW entries, NEW report, NEW d, NEW e,
         ReturnFrom(n, first, types, entries, report, d),
         Judged(calls[n].run, first, types, entries),
         e = Entry(n, first, types, d)
  PROVE  Recorded(e)'
<1> DEFINE executed == e.run.tries # <<>> /\ e.run.at = "judge"
           wrong == ~e.run.passed \/ e.run.failed_headers
<1>1. /\ e.run = calls[n].run /\ e.test = e.run.test /\ e.only = e.run.only
      /\ e.types = types /\ e.result = ResultOf[first]
  BY EntryOf
<1>2. e.only = None /\ e.result # "REDIR" =>
        /\ <<e.test, e.via, e.result>> \in test_results'
        /\ \A y \in entries : <<y, e.test, e.via>> \in failed_tests'
  BY EntryMade
<1>3. /\ first \in DOMAIN ResultOf
      /\ executed /\ wrong /\ ~e.run.XFAIL /\ ~T[e.test].XLEAK => "FAILED" \in entries
      /\ executed /\ e.run.leaked /\ ~T[e.test].XLEAK => "LEAKED" \in entries
      /\ first = "PASS" => executed /\ ~wrong /\ ~e.run.leaked /\ Len(e.run.tries) = 1
      /\ first \notin {"PASS", "SKIP", "REDIR"} =>
           ResultOf[first] \in entries \/ (first = "BORK" /\ EmptyBorked(e.run))
      /\ "BORK" \in types => first = "BORK"
      /\ "LEAK" \in types => first = "LEAK"
      /\ "FAIL" \in types => first \in {"FAIL", "LEAK"} \/ e.run.answer = "warn"
  <2>1. Judged(e.run, first, types, entries)
    BY <1>1
  <2> QED
    BY <1>1, <2>1, Zenon DEF Judged
<1> HIDE DEF executed, wrong
<1>4. e.only = None /\ e.result # "REDIR" =>
       LET listed(class) == <<class, e.test, e.via>> \in failed_tests'
       IN  /\ <<e.test, e.via, e.result>> \in test_results'
           /\ executed /\ wrong /\ ~e.run.XFAIL /\ ~T[e.test].XLEAK => listed("FAILED")
           /\ executed /\ e.run.leaked /\ ~T[e.test].XLEAK => listed("LEAKED")
           /\ e.result = "PASSED" => /\ executed /\ ~wrong /\ ~e.run.leaked
                                     /\ Len(e.run.tries) = 1
           /\ e.result \notin {"PASSED", "SKIPPED"} =>
                listed(e.result) \/ (e.result = "BORKED" /\ EmptyBorked(e.run))
  BY <1>1, <1>2, <1>3, ResultNames
<1>5. /\ "BORK" \in e.types => e.result = "BORKED"
      /\ "LEAK" \in e.types => e.result = "LEAKED"
      /\ "FAIL" \in e.types => e.result \in {"FAILED", "LEAKED"} \/ e.run.answer = "warn"
  BY <1>1, <1>3, ResultNames
<1> QED
  BY <1>4, <1>5, Zenon DEF Recorded, Executed, Mismatch, executed, wrong

\* A step keeps what is recorded.
LEMMA ResultsNext ==
  ASSUME TriesInv, RedirectInv, ResultsInv, [Next]_vars
  PROVE  ResultsInv'
<1>1. CASE UNCHANGED <<done, test_results, failed_tests>> /\ (UNCHANGED exit \/ Summarize)
  <2>1. \A d \in done : Recorded(d)'
    BY <1>1, StillRecorded DEF ResultsInv
  <2>2. exit' \in {None, 0, 1} /\ (exit' = 0 => ~ExitOne')
    <3>1. ExitOne' = ExitOne
      BY <1>1 DEF ExitOne
    <3>2. CASE UNCHANGED exit
      BY <3>1, <3>2 DEF ResultsInv
    <3>3. CASE Summarize
      BY <3>1, <3>3 DEF Summarize
    <3> QED
      BY <1>1, <3>2, <3>3
  <2>3. \A r \in test_results' : ResultOwned(r)'
    BY <1>1 DEF ResultsInv, ResultOwned
  <2> QED
    BY <1>1, <2>1, <2>2, <2>3 DEF ResultsInv
<1>2. CASE /\ exit = None /\ UNCHANGED exit
           /\ \E n, first, types, entries, report, d :
                 /\ n \in DOMAIN calls
                 /\ ReturnFrom(n, first, types, entries, report, d)
                 /\ calls[n].run.at # "next"
                 /\ Judged(calls[n].run, first, types, entries)
  <2>1. PICK n, first, types, entries, report, d :
                 /\ n \in DOMAIN calls
                 /\ ReturnFrom(n, first, types, entries, report, d)
                 /\ calls[n].run.at # "next"
                 /\ Judged(calls[n].run, first, types, entries)
    BY <1>2, Zenon
  <2>2. PICK e : e = Entry(n, first, types, d)
    OBVIOUS
  <2>3. /\ done' = done \cup {e}
        /\ test_results' = IF e.only = None /\ e.result # "REDIR"
                           THEN test_results \cup {<<e.test, e.via, e.result>>}
                           ELSE test_results
        /\ failed_tests' = IF (e.only = None /\ e.result # "REDIR") \/ ~worker
                           THEN failed_tests \cup {<<y, e.test, e.via>> : y \in entries}
                           ELSE failed_tests
    BY <2>1, <2>2, EntryMade
  <2>4. /\ e.test \in Tests /\ e.via \in Test /\ e.result = ResultOf[first]
    BY <2>1, <2>2, EntryOf
  <2>5. first \in DOMAIN ResultOf /\ entries \subseteq Results \ {"PASSED", "REDIR"}
    BY <2>1 DEF Judged
  <2>6. Recorded(e)'
    BY <2>1, <2>2, EntryRecorded
  <2>7. \A f \in done : Recorded(f)'
    BY <2>3, StillRecorded DEF ResultsInv
  <2>8. \A f \in done' : f.test \in Tests /\ f.via \in Test /\ f.result \in Results /\ Recorded(f)'
    BY <2>3, <2>4, <2>5, <2>6, <2>7, ResultNames DEF ResultsInv
  <2>9. \A r \in test_results' : ResultOwned(r)'
    BY <2>3 DEF ResultsInv, ResultOwned
  <2>10. failed_tests' \subseteq (Results \ {"PASSED", "REDIR"}) \X Tests \X Test
    BY <2>3, <2>4, <2>5 DEF ResultsInv
  <2>11. exit' \in {None, 0, 1} /\ exit' # 0
    BY <1>2, RunTestAssumption
  <2> QED
    BY <2>8, <2>9, <2>10, <2>11 DEF ResultsInv
<1> QED
  BY <1>1, <1>2, DoneStep

LEMMA ResultsInvariant == Spec => []ResultsInv
<1>1. Init => ResultsInv
  BY RunTestAssumption DEF Init, ResultsInv
<1>2. TriesInv /\ RedirectInv /\ ResultsInv /\ [Next]_vars => ResultsInv'
  BY ResultsNext
<1> QED
  BY <1>1, <1>2, TriesInvariant, RedirectInvariant, PTL DEF Spec

\* However a test comes to its result, a wrong output or a leak that nothing announced is
\* in PHP_FAILED_TESTS under its own name, PASSED means that the program's last and only
\* output was right, and a result that is not good is listed (the classification at the
\* end of run_test).
THEOREM EveryFailureListed == Spec => []FailuresListed
<1>1. ResultsInv => FailuresListed
  BY DEF ResultsInv, Recorded, FailuresListed
<1> QED
  BY <1>1, ResultsInvariant, PTL

\* Exit status 0 hides nothing but what a SKIPIF's "warn" was put before, and the tests
\* that the list named with their redirection: the exit of main, from compute_summary.
THEOREM ExitTellsFailures == Spec => []ExitTruthful
<1>1. ResultsInv => ExitTruthful
  <2> SUFFICES ASSUME ResultsInv, exit = 0, NEW d \in done, d.only = None
               PROVE  /\ "BORK" \notin d.types /\ "LEAK" \notin d.types
                      /\ "FAIL" \in d.types => d.run.answer = "warn"
    BY DEF ExitTruthful
  <2>1. Recorded(d) /\ ~ExitOne
    BY DEF ResultsInv
  <2>2. d.result \notin {"FAILED", "BORKED", "LEAKED"}
    BY <2>1 DEF Recorded, ExitOne
  <2> QED
    BY <2>1, <2>2 DEF Recorded
<1> QED
  BY <1>1, ResultsInvariant, PTL

\* The options and the kind of the process stay.
OptionsInv == option \in Options /\ worker \in BOOLEAN

LEMMA OptionsKept == ASSUME [Next]_vars PROVE UNCHANGED <<option, worker>>
BY Zenon DEF Next, vars, NextTest, Unparsed, SkipTest, Prepare, SkipExtensions, SkipCached,
  CheckSkip, AfterAnswer, SkipZlib, Redirect, RedirectEnds, RedirectEmpty, NoRedirection,
  EmptyRequest, Execute, Retry, BorkedByClean, Pass, Report, TestsFinished, Summarize, Ended,
  Skip, Bork, Return, ReturnFrom

LEMMA OptionsNext == ASSUME OptionsInv, [Next]_vars PROVE OptionsInv'
BY OptionsKept DEF OptionsInv

\* The variables of run-tests.php keep their types, there is one redirection at most, a
\* test is preloaded twice at most, and the classes of PHP_FAILED_TESTS are those of bad
\* results.
THEOREM TypeCorrect == Spec => []TypeOK
<1>1. Init => OptionsInv
  BY DEF Init, OptionsInv
<1>2. OptionsInv /\ [Next]_vars => OptionsInv'
  BY OptionsNext
<1>3. TriesInv /\ AnswersKnown /\ RedirectInv /\ ResultsInv /\ OptionsInv => TypeOK
  <2> SUFFICES ASSUME TriesInv, AnswersKnown, RedirectInv, ResultsInv, OptionsInv
               PROVE  TypeOK
    OBVIOUS
  <2>1. Len(calls) \in 1 .. 2 /\ IN_REDIRECT \in Tests \cup {None} /\ stuck \in BOOLEAN
    BY DEF RedirectInv, Test
  <2>2. \A i \in 1 .. Len(calls) :
          /\ calls[i].todo \subseteq Tests \X (Tests \cup {None})
          /\ calls[i].run.php \in {"cli", "cgi", "phpdbg"} /\ calls[i].run.preloads \in 0 .. 2
          /\ calls[i].run.answer \in Answers \cup {None}
    BY CurrentCall DEF TriesInv, CallsInv, IsCall, RunInv, IsRun, Sapis, Test
  <2>3. test_results \subseteq Tests \X (Tests \cup {None}) \X (Results \ {"REDIR"})
    BY DEF ResultsInv, ResultOwned, Test
  <2>4. failed_tests \subseteq (Results \ {"PASSED", "REDIR"}) \X Tests \X (Tests \cup {None})
    BY DEF ResultsInv, Test
  <2> QED
    BY <2>1, <2>2, <2>3, <2>4, Zenon DEF TypeOK, OptionsInv, ResultsInv, AnswersKnown
<1> QED
  BY <1>1, <1>2, <1>3, TriesInvariant, RedirectInvariant, ResultsInvariant, PTL DEF Spec

(***************************************************************************)
(* One result for each test of the list and of each redirection.           *)
(***************************************************************************)

\* Two entries of a list are not of the same test, unless both name one of its inner tests.
Compatible(e, f) == e[1] = f[1] => e[2] # None /\ f[2] # None
NamedOnce == \A l \in Lists : \A e, f \in l : e # f => Compatible(e, f)

Over(test, via, only) == \E d \in done : d.test = test /\ d.via = via /\ d.only = only
\* No inner test that e would run is over.
NotBegun(e) == \A d \in done : d.via = e[1] => e[2] # None /\ d.test # e[2]
Current(n) == <<calls[n].run.test, calls[n].run.only>>

OuterInv ==
  /\ \A e \in calls[1].todo : NotBegun(e) /\ ~Over(e[1], None, e[2])
  /\ \A e, f \in calls[1].todo : e # f => Compatible(e, f)
  /\ calls[1].run.at # "next" =>
       /\ Current(1) \notin calls[1].todo /\ ~Over(Current(1)[1], None, Current(1)[2])
       /\ \A e \in calls[1].todo : Compatible(Current(1), e)
  /\ calls[1].run.at \notin {"next", "redirected"} => NotBegun(Current(1))

InnerInv ==
  LET via == calls[1].run.test
      named == calls[1].run.only
      mine(e) == e[2] = None /\ ~Over(e[1], via, None) /\ (named # None => e[1] = named)
  IN  Len(calls) = 2 =>
        /\ \A e \in calls[2].todo : mine(e)
        /\ calls[2].run.at # "next" => Current(2) \notin calls[2].todo /\ mine(Current(2))

OneEntry == \A d \in done : \A e \in done :
  d.test = e.test /\ d.via = e.via /\ d.only = e.only => d = e

UniqueInv == OneEntry /\ OuterInv /\ InnerInv

LEMMA UniqueInit == ASSUME NamedOnce, Init PROVE UniqueInv
<1>1. PICK l \in Lists : calls = <<Loop(l)>>
  BY DEF Init
<1>2. Len(calls) = 1 /\ calls[1].todo = l /\ calls[1].run.at = "next"
  BY <1>1 DEF Loop, Idle
<1>3. done = {}
  BY DEF Init
<1>4. OneEntry /\ InnerInv
  BY <1>2, <1>3 DEF OneEntry, InnerInv
<1>5. OuterInv
  <2>1. \A e, f \in l : e # f => Compatible(e, f)
    BY DEF NamedOnce
  <2> QED
    BY <1>2, <1>3, <2>1 DEF OuterInv, NotBegun, Over
<1> QED
  BY <1>4, <1>5 DEF UniqueInv

\* What a run_test of the outer call leaves when it returns.
LEMMA OuterReturns ==
  ASSUME TriesInv, RedirectInv, UniqueInv, calls[1].run.at # "next",
         NEW first, NEW types, NEW entries, NEW report, NEW d,
         ReturnFrom(1, first, types, entries, report, d)
  PROVE  UniqueInv'
<1>1. 1 \in DOMAIN calls /\ CallsInv /\ IsCall(calls[1])
  BY CurrentCall DEF TriesInv, CallsInv
<1>2. Len(calls') = 1 /\ calls'[1].todo = calls[1].todo /\ calls'[1].run = Idle
  BY <1>1, ReturnEffect DEF SameBelow
<1>3. PICK x : x = Entry(1, first, types, d)
  OBVIOUS
<1>4. done' = done \cup {x} /\ x.test = calls[1].run.test /\ x.only = calls[1].run.only /\ x.via = None
  BY <1>1, <1>3, EntryMade, EntryOf DEF ViaOf
<1>5. OneEntry'
  <2>1. ~Over(x.test, None, x.only)
    BY <1>4 DEF UniqueInv, OuterInv, Current
  <2> QED
    BY <1>4, <2>1 DEF UniqueInv, OneEntry, Over
<1>6. OuterInv'
  <2>1. \A e \in calls[1].todo : e[1] # None /\ e = <<e[1], e[2]>>
    BY <1>1, RunTestAssumption DEF IsCall
  <2>2. \A e \in calls[1].todo : NotBegun(e)'
    BY <1>4, <2>1 DEF UniqueInv, OuterInv, NotBegun
  <2>3. \A e \in calls[1].todo : ~(e[1] = x.test /\ e[2] = x.only)
    BY <1>4, <2>1 DEF UniqueInv, OuterInv, Current
  <2>4. \A e \in calls[1].todo : ~Over(e[1], None, e[2])'
    BY <1>4, <2>3 DEF UniqueInv, OuterInv, Over
  <2> QED
    BY <1>2, <2>2, <2>4 DEF UniqueInv, OuterInv, Idle
<1>7. InnerInv'
  BY <1>2 DEF InnerInv
<1> QED
  BY <1>5, <1>6, <1>7 DEF UniqueInv

\* What a run_test of a redirection leaves when it returns.
LEMMA InnerReturns ==
  ASSUME TriesInv, RedirectInv, UniqueInv, Len(calls) = 2, Run.at # "next",
         NEW first, NEW types, NEW entries, NEW report, NEW d,
         ReturnFrom(2, first, types, entries, report, d)
  PROVE  UniqueInv'
<1> DEFINE via == calls[1].run.test
           named == calls[1].run.only
<1>1. /\ 1 \in DOMAIN calls /\ 2 \in DOMAIN calls /\ CallsInv /\ IsCall(calls[1])
      /\ Run = calls[2].run
  BY CurrentCall DEF TriesInv, CallsInv, Run, Call
<1>2. calls[1].run.at = "redirected" /\ via \in Tests /\ via # None
  BY <1>1, Waiting, RunTestAssumption
<1>3. /\ Len(calls') = 2 /\ calls'[1] = calls[1] /\ calls'[2].todo = calls[2].todo
      /\ calls'[2].run = Idle
  <2>1. SameBelow(2) /\ calls'[2].run = Idle
    BY <1>1, ReturnEffect, Zenon
  <2>2. 1 \in 1 .. 2 - 1
    OBVIOUS
  <2> QED
    BY <2>1, <2>2 DEF SameBelow
<1>4. PICK x : x = Entry(2, first, types, d)
  OBVIOUS
<1>5. done' = done \cup {x} /\ x.test = Run.test /\ x.only = Run.only /\ x.via = via
  BY <1>1, <1>4, EntryMade, EntryOf DEF ViaOf
<1>6. /\ x.only = None /\ ~Over(x.test, via, None) /\ (named # None => x.test = named)
      /\ \A e \in calls[2].todo : e # <<x.test, x.only>>
      /\ \A e \in calls[2].todo :
           e[2] = None /\ ~Over(e[1], via, None) /\ (named # None => e[1] = named)
  BY <1>1, <1>5 DEF UniqueInv, InnerInv, Current
<1>7. OneEntry'
  BY <1>5, <1>6 DEF UniqueInv, OneEntry, Over
<1>8. OuterInv'
  <2>1. \A e \in calls[1].todo :
          e = <<e[1], e[2]>> /\ e # <<via, named>> /\ Compatible(<<via, named>>, e)
    BY <1>1, <1>2 DEF UniqueInv, OuterInv, Current, IsCall
  <2>2. \A e \in calls[1].todo : e[1] = via => e[2] # None /\ x.test # e[2]
    BY <1>6, <2>1 DEF Compatible
  <2>3. \A e \in calls[1].todo : NotBegun(e)'
    BY <1>5, <2>2 DEF UniqueInv, OuterInv, NotBegun
  <2>4. \A test, only : Over(test, None, only)' <=> Over(test, None, only)
    BY <1>2, <1>5 DEF Over
  <2>5. Current(1)' = Current(1)
    BY <1>3 DEF Current
  <2> QED
    BY <1>2, <1>3, <2>3, <2>4, <2>5 DEF UniqueInv, OuterInv
<1>9. InnerInv'
  <2>1. \A e \in calls[2].todo : ~Over(e[1], via, None)'
    <3> SUFFICES ASSUME NEW e \in calls[2].todo PROVE ~Over(e[1], via, None)'
      OBVIOUS
    <3>1. e[1] # x.test
      <4>1. IsCall(calls[2])
        BY <1>1 DEF CallsInv
      <4>2. e = <<e[1], e[2]>>
        BY <4>1 DEF IsCall
      <4> QED
        BY <1>6, <4>2
    <3> QED
      BY <1>3, <1>5, <1>6, <3>1 DEF Over
  <2> QED
    BY <1>3, <1>6, <2>1 DEF InnerInv, Idle
<1> QED
  BY <1>7, <1>8, <1>9 DEF UniqueInv

\* Steps that end no run_test.
LEMMA UniqueGoesOn ==
  ASSUME TriesInv, RedirectInv, UniqueInv, NextTest \/ Proceeds \/ Redirect \/ Stays
  PROVE  UniqueInv'
<1>1. /\ CallsInv /\ Len(calls) \in {1, 2} /\ DOMAIN calls = 1 .. Len(calls)
      /\ (Len(calls) = 2 => calls[1].run.at = "redirected" /\ calls[1].run.test \in Tests)
      /\ IsCall(Call) /\ Call = calls[Len(calls)] /\ Run = Call.run
  BY CurrentCall, Waiting DEF TriesInv, RedirectInv, Call, Run
<1>2. UNCHANGED done
  BY DEF NextTest, Proceeds, Redirect, Stays, Summarize, OverVars
<1>3. /\ OneEntry' = OneEntry /\ \A test, via, only : Over(test, via, only)' = Over(test, via, only)
      /\ \A e : NotBegun(e)' = NotBegun(e)
  BY <1>2 DEF OneEntry, Over, NotBegun
<1>4. OneEntry'
  BY <1>3 DEF UniqueInv
<1>5. CASE NextTest
  <2>1. PICK e \in Call.todo :
           /\ Len(calls') = Len(calls) /\ \A m \in 1 .. Len(calls) - 1 : calls'[m] = calls[m]
           /\ Call'.todo = Call.todo \ {e}
           /\ Run' = [Idle EXCEPT !.test = e[1], !.only = e[2], !.at = "parse"]
    BY <1>1, <1>5, NextTestEffect
  <2>2. /\ calls'[Len(calls)].todo = Call.todo \ {e}
        /\ calls'[Len(calls)].run.at = "parse"
        /\ calls'[Len(calls)].run.test = e[1] /\ calls'[Len(calls)].run.only = e[2]
    BY <2>1 DEF Idle, Run, Call
  <2>3. e = <<e[1], e[2]>>
    BY <1>1 DEF IsCall
  <2>4. CASE Len(calls) = 1
    <3>1. Current(1)' = e
      BY <2>2, <2>3, <2>4 DEF Current
    <3>2. OuterInv'
      BY <1>1, <1>3, <2>2, <2>4, <3>1 DEF UniqueInv, OuterInv
    <3> QED
      BY <1>4, <2>1, <2>4, <3>2 DEF UniqueInv, InnerInv
  <2>5. CASE Len(calls) = 2
    <3>1. calls'[1] = calls[1] /\ Len(calls') = 2
      BY <2>1, <2>5
    <3>2. OuterInv'
      BY <1>3, <3>1 DEF UniqueInv, OuterInv, Current
    <3>3. Current(2)' = e
      BY <2>2, <2>3, <2>5 DEF Current
    <3>4. InnerInv'
      BY <1>1, <1>3, <2>2, <2>5, <3>1, <3>3 DEF UniqueInv, InnerInv
    <3> QED
      BY <1>4, <3>2, <3>4 DEF UniqueInv
  <2> QED
    BY <1>1, <2>4, <2>5
<1>6. CASE Proceeds
  <2>1. PICK run : /\ SetRun(run) /\ run.test = Run.test /\ run.only = Run.only
                   /\ run.at \in {"parse", "SKIPIF", "zlib", "judge"}
    BY <1>6, Zenon DEF Proceeds
  <2>2. SameBelow(Len(calls)) /\ Run' = run
    BY <1>1, <2>1, SetRunEffect
  <2>3. /\ Len(calls') = Len(calls) /\ calls'[Len(calls)].todo = Call.todo
        /\ calls'[Len(calls)].run = run
    BY <1>1, <2>2 DEF SameBelow, Run, Call
  <2>4. Run.at \in {"parse", "SKIPIF", "zlib", "judge"}
    BY <1>6 DEF Proceeds
  <2>5. Current(Len(calls))' = Current(Len(calls))
    BY <1>1, <2>1, <2>3 DEF Current
  <2>6. CASE Len(calls) = 1
    <3>1. OuterInv'
      BY <1>1, <1>3, <2>1, <2>3, <2>4, <2>5, <2>6 DEF UniqueInv, OuterInv
    <3> QED
      BY <1>4, <2>3, <2>6, <3>1 DEF UniqueInv, InnerInv
  <2>7. CASE Len(calls) = 2
    <3>1. calls'[1] = calls[1] /\ Len(calls') = 2
      <4>1. 1 \in 1 .. Len(calls) - 1
        BY <2>7
      <4> QED
        BY <2>2, <2>3, <2>7, <4>1 DEF SameBelow
    <3>2. OuterInv'
      BY <1>3, <3>1 DEF UniqueInv, OuterInv, Current
    <3>3. InnerInv'
      BY <1>1, <1>3, <2>1, <2>3, <2>4, <2>5, <2>7, <3>1 DEF UniqueInv, InnerInv
    <3> QED
      BY <1>4, <3>2, <3>3 DEF UniqueInv
  <2> QED
    BY <1>1, <2>6, <2>7
<1>7. CASE Redirect
  <2>1. Run.at = "zlib" /\ t.redirect = "TESTS"
    BY <1>7 DEF Redirect, Ready, At
  <2>2. Len(calls) = 1
    BY <1>1, <2>1, RedirectsOnce
  <2>3. /\ Len(calls') = 2
        /\ calls'[1].todo = calls[1].todo /\ calls'[1].run.at = "redirected"
        /\ calls'[1].run.test = Run.test /\ calls'[1].run.only = Run.only
        /\ calls'[2].todo = {<<i, None>> : i \in IF Run.only # None THEN {Run.only} ELSE t.inner}
        /\ calls'[2].run = Idle
    BY <1>1, <1>7, <2>2, RedirectEffect
  <2>4. Current(1)' = Current(1) /\ NotBegun(<<Run.test, Run.only>>)
    BY <1>1, <2>1, <2>2, <2>3 DEF UniqueInv, OuterInv, Current
  <2>5. OuterInv'
    BY <1>1, <1>3, <2>1, <2>2, <2>3, <2>4 DEF UniqueInv, OuterInv
  <2>6. \A i \in IF Run.only # None THEN {Run.only} ELSE t.inner :
          ~Over(i, Run.test, None) /\ (Run.only # None => i = Run.only)
    BY <2>4 DEF NotBegun, Over
  <2>7. InnerInv'
    BY <1>3, <2>3, <2>6 DEF InnerInv, Idle
  <2> QED
    BY <1>4, <2>5, <2>7 DEF UniqueInv
<1>8. CASE Stays
  <2>1. UNCHANGED calls
    BY <1>8 DEF Stays, Summarize
  <2> QED
    BY <1>3, <2>1 DEF UniqueInv, OuterInv, InnerInv, Current
<1> QED
  BY <1>5, <1>6, <1>7, <1>8

LEMMA UniqueNext ==
  ASSUME TriesInv, RedirectInv, UniqueInv, [Next]_vars
  PROVE  UniqueInv'
<1>1. CASE NextTest \/ Proceeds \/ Redirect \/ Stays
  BY <1>1, UniqueGoesOn
<1>2. CASE Returns
  <2>1. PICK first, types, entries, report, d : Return(first, types, entries, report, d)
    BY <1>2, Zenon DEF Returns
  <2>2. ReturnFrom(Len(calls), first, types, entries, report, d) /\ Run.at # "next"
    BY <1>2, <2>1 DEF Returns, Return
  <2>3. Len(calls) = 1 => Run = calls[1].run
    BY DEF Run, Call
  <2> QED
    BY <2>2, <2>3, OuterReturns, InnerReturns DEF RedirectInv
<1>3. CASE RedirectEnds
  <2>1. /\ ReturnFrom(1, "REDIR", {"PASS"}, {}, junit, T[calls[1].run.test].dir)
        /\ Len(calls) = 2
    BY <1>3 DEF RedirectEnds
  <2>2. calls[1].run.at # "next"
    BY <2>1, Waiting DEF TriesInv
  <2> QED
    BY <2>1, <2>2, OuterReturns
<1> QED
  BY <1>1, <1>2, <1>3, StepKinds

\* If no list names a test that redirects both alone and with one of its tests, every test
\* of the list and of a redirection has one result, and at the end its own one is among
\* the results; and it was tried again only as it may be.
THEOREM OneResultEach == ASSUME NamedOnce PROVE Spec => []OneResult
<1>1. Init => UniqueInv
  BY UniqueInit
<1>2. TriesInv /\ RedirectInv /\ UniqueInv /\ [Next]_vars => UniqueInv'
  BY UniqueNext
<1>3. TriesInv /\ ResultsInv /\ UniqueInv => OneResult
  <2> SUFFICES ASSUME TriesInv, ResultsInv, UniqueInv PROVE OneResult
    OBVIOUS
  <2>1. TriedAgain
    BY DEF TriesInv
  <2>2. \A r, s \in test_results : r[1] = s[1] /\ r[2] = s[2] => r = s
    <3> SUFFICES ASSUME NEW r \in test_results, NEW s \in test_results,
                        r[1] = s[1], r[2] = s[2]
                 PROVE  r = s
      OBVIOUS
    <3>1. PICK d \in done : d.only = None /\ r = <<d.test, d.via, d.result>>
      BY DEF ResultsInv, ResultOwned
    <3>2. PICK e \in done : e.only = None /\ s = <<e.test, e.via, e.result>>
      BY DEF ResultsInv, ResultOwned
    <3>3. d = e
      BY <3>1, <3>2 DEF UniqueInv, OneEntry
    <3> QED
      BY <3>1, <3>2, <3>3
  <2>3. \A d \in done :
          d.only = None /\ d.result # "REDIR" => <<d.test, d.via, d.result>> \in test_results
    BY DEF ResultsInv, Recorded
  <2> QED
    BY <2>1, <2>2, <2>3 DEF UniqueInv, OneEntry, OneResult
<1> QED
  BY <1>1, <1>2, <1>3, TriesInvariant, RedirectInvariant, ResultsInvariant, PTL DEF Spec

(***************************************************************************)
(* The answer a test acts on is one that its script gave where it runs.    *)
(***************************************************************************)

\* The command that SKIPIF was run with: without the preloading of the program.
AnsweredCommand(run) ==
  <<run.php, run.rr, run.preloads - (IF run.at = "judge" /\ option.preload THEN 1 ELSE 0)>>

CacheSaid ==
  \A k \in DOMAIN skips :
    /\ skips[k] # "nocache"
    /\ \E e \in BOOLEAN : LET c == Asked(k[3], k[1], k[2], e)
                         IN  c \in DOMAIN said /\ said[c] = skips[k]
CurrentSaid ==
  Run.at \in {"zlib", "judge"} /\ t.SKIPIF # None =>
    SaidIn(said, t.SKIPIF, AnsweredCommand(Run), TestDir, t.ENV, Run.answer)
DoneSaid ==
  \A d \in done : Executed(d) /\ T[d.test].SKIPIF # None =>
    SaidIn(said, T[d.test].SKIPIF, AnsweredCommand(d.run), d.dir, T[d.test].ENV, d.run.answer)
SkipInv == CacheSaid /\ CurrentSaid /\ DoneSaid

SaidGrows ==
  /\ DOMAIN said \subseteq DOMAIN said' /\ \A c \in DOMAIN said : said'[c] = said[c]

\* A script is not run again where it gave an answer, or it says the same.
LEMMA CheckSkipSays ==
  ASSUME CheckSkip
  PROVE  /\ SaidGrows
         /\ \E answer : /\ Circumstances \in DOMAIN said' /\ said'[Circumstances] = answer
                        /\ skips' = IF answer = "nocache" THEN skips
                             ELSE [k \in DOMAIN skips \cup
                                     {CacheKey(Command(Run.php), TestDir, t.SKIPIF)} |->
                                     IF k = CacheKey(Command(Run.php), TestDir, t.SKIPIF)
                                     THEN answer ELSE skips[k]]
                        /\ AfterAnswer(IF answer = "nocache" THEN "" ELSE answer)
<1>1. PICK answer \in Answers :
        /\ Circumstances \in DOMAIN said => answer = said[Circumstances]
        /\ said' = [c \in DOMAIN said \cup {Circumstances} |->
                      IF c = Circumstances THEN answer ELSE said[c]]
        /\ skips' = IF answer = "nocache" THEN skips
                    ELSE [k \in DOMAIN skips \cup
                            {CacheKey(Command(Run.php), TestDir, t.SKIPIF)} |->
                            IF k = CacheKey(Command(Run.php), TestDir, t.SKIPIF)
                            THEN answer ELSE skips[k]]
        /\ AfterAnswer(IF answer = "nocache" THEN "" ELSE answer)
  BY Zenon DEF CheckSkip
<1> DEFINE where == Circumstances
<1>2. /\ where \in DOMAIN said => answer = said[where]
      /\ said' = [c \in DOMAIN said \cup {where} |-> IF c = where THEN answer ELSE said[c]]
  BY <1>1
<1> HIDE DEF where
<1>3. SaidGrows /\ where \in DOMAIN said' /\ said'[where] = answer
  BY <1>2 DEF SaidGrows
<1> QED
  BY <1>1, <1>3, Zenon DEF where

LEMMA SaidStep == ASSUME [Next]_vars PROVE SaidGrows
<1>1. CASE CheckSkip
  BY <1>1, CheckSkipSays
<1>2. CASE UNCHANGED said
  BY <1>2 DEF SaidGrows
<1>3. CheckSkip \/ UNCHANGED said
  BY Zenon DEF Next, vars, NextTest, Unparsed, SkipTest, Prepare, SkipExtensions, SkipCached,
    SkipZlib, Redirect, RedirectEnds, RedirectEmpty, NoRedirection, EmptyRequest, Execute, Retry,
    BorkedByClean, Pass, Report, TestsFinished, Summarize, Ended
<1> QED
  BY <1>1, <1>2, <1>3

LEMMA StillSaid ==
  ASSUME SaidGrows, NEW script, NEW command, NEW dir, NEW env, NEW answer,
         SaidIn(said, script, command, dir, env, answer)
  PROVE  SaidIn(said', script, command, dir, env, answer)
BY DEF SaidGrows, SaidIn, Gave

\* The cache.
LEMMA CacheSaidNext == ASSUME CacheSaid, [Next]_vars PROVE CacheSaid'
<1>1. SaidGrows
  BY SaidStep
<1>2. CASE CheckSkip
  <2> DEFINE key == CacheKey(Command(Run.php), TestDir, t.SKIPIF)
             where == Circumstances
  <2>1. PICK answer :
          /\ where \in DOMAIN said' /\ said'[where] = answer
          /\ skips' = IF answer = "nocache" THEN skips
                      ELSE [k \in DOMAIN skips \cup {key} |-> IF k = key THEN answer ELSE skips[k]]
    BY <1>2, CheckSkipSays, Zenon
  <2>2. \E e \in BOOLEAN : where = Asked(key[3], key[1], key[2], e)
    <3>1. where = Asked(key[3], key[1], key[2], t.ENV /\ t.SKIPIF \in ReadsEnv)
      BY DEF Circumstances, CacheKey, Asked
    <3> QED
      BY <3>1
  <2> HIDE DEF key, where
  <2>3. \A k \in DOMAIN skips' :
          \/ k \in DOMAIN skips /\ skips'[k] = skips[k]
          \/ k = key /\ skips'[k] = answer /\ answer # "nocache"
    BY <2>1
  <2> QED
    BY <1>1, <2>1, <2>2, <2>3 DEF CacheSaid, SaidGrows
<1>3. CASE UNCHANGED skips
  BY <1>1, <1>3 DEF CacheSaid, SaidGrows
<1>4. CheckSkip \/ UNCHANGED skips
  BY Zenon DEF Next, vars, NextTest, Unparsed, SkipTest, Prepare, SkipExtensions, SkipCached,
    SkipZlib, Redirect, RedirectEnds, RedirectEmpty, NoRedirection, EmptyRequest, Execute, Retry,
    BorkedByClean, Pass, Report, TestsFinished, Summarize, Ended
<1> QED
  BY <1>2, <1>3, <1>4

\* A step to the same test, command and directory.
LEMMA SaidAgain ==
  ASSUME SaidGrows, UNCHANGED IN_REDIRECT, Run'.test = Run.test,
         AnsweredCommand(Run)' = AnsweredCommand(Run), Run'.answer = Run.answer,
         SaidIn(said, t.SKIPIF, AnsweredCommand(Run), TestDir, t.ENV, Run.answer)
  PROVE  CurrentSaid'
<1>1. t' = t /\ TestDir' = TestDir
  BY DEF t, TestDir
<1> DEFINE command == AnsweredCommand(Run)
           dir == TestDir
           script == t.SKIPIF
           env == t.ENV
           answer == Run.answer
<1>2. SaidIn(said, script, command, dir, env, answer)
  OBVIOUS
<1>3. command' = command /\ dir' = dir /\ script' = script /\ env' = env
      /\ answer' = answer
  BY <1>1
<1>4. SaidIn(said', script, command, dir, env, answer)
  <2> HIDE DEF script, command, dir, env, answer
  <2> QED
    BY <1>2, StillSaid
<1>5. SaidIn(said', script', command', dir', env', answer')
  <2> HIDE DEF script, command, dir, env, answer
  <2> QED
    BY <1>3, <1>4
<1> QED
  BY <1>5, Zenon DEF CurrentSaid, SaidIn

\* A test that goes on after SKIPIF acts on the answer.
LEMMA AnswerEffect ==
  ASSUME TriesInv, Run.at = "SKIPIF", NEW answer, AfterAnswer(answer)
  PROVE  /\ UNCHANGED option
         /\ \/ Run'.at = "next"
            \/ /\ Run'.test = Run.test /\ Run'.answer = answer
               /\ AnsweredCommand(Run)' = Command(Run.php)
<1>1. CallsInv /\ IsRun(Run)
  BY AtWork DEF TriesInv
<1>2. CASE answer \in {"skip", "junk"}
  <2>1. \E first, types, entries, report, d :
          ReturnFrom(Len(calls), first, types, entries, report, d)
    BY <1>2 DEF AfterAnswer, Skip, Bork, Return
  <2>2. Run' = Idle /\ UNCHANGED option
    BY <2>1, <1>1, CurrentCall, ReturnEffect DEF ReturnFrom
  <2> QED
    BY <2>2 DEF Idle
<1>3. CASE answer \notin {"skip", "junk"}
  <2> DEFINE run == [Run EXCEPT !.at = "zlib", !.answer = answer, !.warn = (answer = "warn"),
                                !.XFAIL = @ \/ answer = "xfail",
                                !.flaky = @ \/ answer = "flaky"]
  <2>1. SetRun(run) /\ UNCHANGED option
    BY <1>3 DEF AfterAnswer
  <2>2. /\ run.at = "zlib" /\ run.test = Run.test /\ run.answer = answer
        /\ run.php = Run.php /\ run.rr = Run.rr /\ run.preloads = Run.preloads
    BY <1>1 DEF IsRun, Locals
  <2>3. Run.preloads \in 0 .. 2
    BY <1>1 DEF IsRun
  <2> HIDE DEF run
  <2>4. Run' = run
    BY <1>1, <2>1, SetRunEffect
  <2>5. /\ Run'.at = "zlib" /\ Run'.test = Run.test /\ Run'.answer = answer
        /\ Run'.php = Run.php /\ Run'.rr = Run.rr /\ Run'.preloads = Run.preloads
    BY <2>2, <2>4
  <2>6. AnsweredCommand(Run)' = Command(Run.php)
    <3> HIDE DEF Run
    <3> QED
      BY <2>3, <2>5 DEF AnsweredCommand, Command
  <2> QED
    BY <2>1, <2>5, <2>6
<1> QED
  BY <1>2, <1>3

\* The program is run by the command that SKIPIF was run with, and --preload on top.
LEMMA ExecuteEffect ==
  ASSUME TriesInv, Execute
  PROVE  /\ Run.at = "zlib" /\ UNCHANGED IN_REDIRECT
         /\ Run'.at = "judge" /\ Run'.test = Run.test /\ Run'.answer = Run.answer
         /\ AnsweredCommand(Run)' = AnsweredCommand(Run)
<1>1. Run.at = "zlib" /\ UNCHANGED <<IN_REDIRECT, option>>
  BY DEF Execute, ToRun, Ready, At
<1>2. IsRun(Run) /\ CallsInv
  BY <1>1, AtWork DEF TriesInv
<1>3. PICK passed \in BOOLEAN, leaked \in BOOLEAN, failed_headers \in BOOLEAN,
           flakyOutput \in BOOLEAN, cleanOutput \in BOOLEAN :
       /\ leaked => option.valgrind
       /\ failed_headers => t.EXPECTHEADERS
       /\ flakyOutput => ~passed
       /\ cleanOutput => t.CLEAN /\ ~option.no_clean
       /\ LET preloads == Run.preloads + (IF option.preload THEN 1 ELSE 0)
          IN  SetRun([Run EXCEPT !.at = "judge", !.preloads = preloads,
                !.tries = Append(@, <<Run.php, passed>>),
                !.passed = passed, !.leaked = leaked, !.failed_headers = failed_headers,
                !.flakyOutput = flakyOutput, !.cleanOutput = cleanOutput])
  BY Zenon DEF Execute
<1> DEFINE preloads == Run.preloads + (IF option.preload THEN 1 ELSE 0)
           run == [Run EXCEPT !.at = "judge", !.preloads = preloads,
                     !.tries = Append(@, <<Run.php, passed>>),
                     !.passed = passed, !.leaked = leaked, !.failed_headers = failed_headers,
                     !.flakyOutput = flakyOutput, !.cleanOutput = cleanOutput]
<1>4. /\ run.at = "judge" /\ run.test = Run.test /\ run.answer = Run.answer
      /\ run.php = Run.php /\ run.rr = Run.rr /\ run.preloads = preloads
  BY <1>2 DEF IsRun, Locals
<1>5. SetRun(run)
  BY <1>3
<1>6. Run.preloads \in 0 .. 2
  BY <1>2 DEF IsRun
<1> HIDE DEF run
<1>7. Run' = run
  BY <1>2, <1>5, SetRunEffect
<1>8. /\ Run'.at = "judge" /\ Run'.test = Run.test /\ Run'.answer = Run.answer
      /\ Run'.php = Run.php /\ Run'.rr = Run.rr
      /\ Run'.preloads = Run.preloads + (IF option.preload THEN 1 ELSE 0)
  BY <1>4, <1>7
<1>9. AnsweredCommand(Run)' = AnsweredCommand(Run)
  <2> HIDE DEF Run
  <2> QED
    BY <1>1, <1>6, <1>8 DEF AnsweredCommand
<1> QED
  BY <1>1, <1>8, <1>9

\* A script that has just answered, or whose answer was kept, said it here.
LEMMA AnswerSaid ==
  ASSUME TriesInv, CacheSaid, SkipCached \/ CheckSkip
  PROVE  CurrentSaid'
<1> DEFINE script == t.SKIPIF
           command == Command(Run.php)
           dir == TestDir
           env == t.ENV
           key == CacheKey(command, dir, script)
           where == Circumstances
<1>1. Run.at = "SKIPIF" /\ UNCHANGED IN_REDIRECT
  BY DEF SkipCached, CheckSkip, At
<1>2. SaidGrows
  <2>1. CASE SkipCached
    BY <2>1 DEF SkipCached, SaidGrows
  <2>2. CASE CheckSkip
    BY <2>2, CheckSkipSays
  <2> QED
    BY <2>1, <2>2
<1>3. /\ where = Asked(script, command, dir, env)
      /\ key[3] = script /\ key[1] = command /\ key[2] = dir
  BY DEF Circumstances, CacheKey
<1>4. \E answer : AfterAnswer(answer) /\ SaidIn(said', script, command, dir, env, answer)
  <2>1. CASE SkipCached
    <3>1. key \in DOMAIN skips /\ AfterAnswer(skips[key])
      BY <2>1 DEF SkipCached
    <3> HIDE DEF script, command, dir, env, key
    <3>2. /\ skips[key] # "nocache"
          /\ \E e \in BOOLEAN : LET c == Asked(script, command, dir, e)
                               IN  c \in DOMAIN said /\ said[c] = skips[key]
      BY <3>1, <1>3 DEF CacheSaid
    <3>3. SaidIn(said, script, command, dir, env, skips[key])
      <4>1. CASE script \in ReadsEnv
        BY <3>2, <4>1 DEF SaidIn, Gave
      <4>2. CASE script \notin ReadsEnv
        <5>1. \A e : Asked(script, command, dir, e) = Asked(script, command, dir, env)
          BY <4>2 DEF Asked
        <5> QED
          BY <3>2, <5>1, Zenon DEF SaidIn, Gave
      <4> QED
        BY <4>1, <4>2
    <3> QED
      BY <3>1, <3>3, <1>2, StillSaid
  <2>2. CASE CheckSkip
    <3>1. PICK answer : /\ where \in DOMAIN said' /\ said'[where] = answer
                        /\ AfterAnswer(IF answer = "nocache" THEN "" ELSE answer)
      BY <2>2, CheckSkipSays, Zenon
    <3> HIDE DEF script, command, dir, env, key, where
    <3>2. SaidIn(said', script, command, dir, env, IF answer = "nocache" THEN "" ELSE answer)
      BY <3>1, <1>3 DEF SaidIn, Gave
    <3> QED
      BY <3>1, <3>2
  <2> QED
    BY <2>1, <2>2
<1>5. PICK answer : AfterAnswer(answer) /\ SaidIn(said', script, command, dir, env, answer)
  BY <1>4
<1>6. CASE Run'.at = "next"
  BY <1>6 DEF CurrentSaid
<1>7. CASE /\ Run'.test = Run.test /\ Run'.answer = answer
           /\ AnsweredCommand(Run)' = Command(Run.php)
  <2>1. t' = t /\ TestDir' = TestDir
    BY <1>1, <1>7 DEF t, TestDir
  <2>2. SaidIn(said', t'.SKIPIF, AnsweredCommand(Run)', TestDir', t'.ENV, Run'.answer)
    <3> HIDE DEF Run
    <3> QED
      BY <1>5, <1>7, <2>1, Zenon
  <2> QED
    BY <2>2, Zenon DEF CurrentSaid, SaidIn
<1> QED
  BY <1>1, <1>5, <1>6, <1>7, AnswerEffect

\* The other steps leave the test, or take it to a section before SKIPIF's answer.
LEMMA CurrentSaidNext ==
  ASSUME TriesInv, RedirectInv, CacheSaid, CurrentSaid, [Next]_vars
  PROVE  CurrentSaid'
<1>1. CallsInv /\ Len(calls) \in DOMAIN calls
  BY CurrentCall DEF TriesInv
<1>2. SaidGrows
  BY SaidStep
<1>3. CASE SkipCached \/ CheckSkip
  BY <1>3, AnswerSaid
<1>4. CASE Execute
  <2>1. /\ Run.at = "zlib" /\ UNCHANGED IN_REDIRECT
        /\ Run'.at = "judge" /\ Run'.test = Run.test /\ Run'.answer = Run.answer
        /\ AnsweredCommand(Run)' = AnsweredCommand(Run)
    BY <1>4, ExecuteEffect
  <2>2. CASE t.SKIPIF = None
    <3>1. t' = t
      BY <2>1 DEF t
    <3> QED
      BY <2>2, <3>1 DEF CurrentSaid
  <2>3. CASE t.SKIPIF # None
    <3>1. SaidIn(said, t.SKIPIF, AnsweredCommand(Run), TestDir, t.ENV, Run.answer)
      BY <2>1, <2>3 DEF CurrentSaid
    <3> QED
      BY <1>2, <2>1, <3>1, SaidAgain
  <2> QED
    BY <2>2, <2>3
<1>5. CASE Prepare
  <2> DEFINE run == [Prepared EXCEPT !.at = IF t.SKIPIF = None THEN "zlib" ELSE "SKIPIF"]
  <2>1. Run.at = "parse" /\ SetRun(run)
    BY <1>5 DEF Prepare, At
  <2>2. IsRun(Run)
    BY <2>1, AtWork
  <2>3. run.at = (IF t.SKIPIF = None THEN "zlib" ELSE "SKIPIF") /\ run.test = Run.test
    BY <2>2 DEF Prepared, IsRun, Locals
  <2> HIDE DEF run
  <2>4. Run' = run
    BY <1>1, <2>1, SetRunEffect
  <2>5. t' = t /\ Run'.at = (IF t.SKIPIF = None THEN "zlib" ELSE "SKIPIF")
    BY <2>3, <2>4 DEF t
  <2> HIDE DEF Run
  <2> QED
    BY <2>5 DEF CurrentSaid
<1>6. CASE Stays
  <2>1. UNCHANGED <<calls, IN_REDIRECT>>
    BY <1>6 DEF Stays, OverVars, Summarize
  <2>2. CASE Run.at \in {"zlib", "judge"} /\ t.SKIPIF # None
    <3>1. SaidIn(said, t.SKIPIF, AnsweredCommand(Run), TestDir, t.ENV, Run.answer)
      BY <2>2 DEF CurrentSaid
    <3>2. Run' = Run /\ UNCHANGED IN_REDIRECT
      BY <2>1 DEF Run, Call
    <3>3. UNCHANGED option
      BY OptionsKept
    <3>4. AnsweredCommand(Run)' = AnsweredCommand(Run)
      BY <3>2, <3>3 DEF AnsweredCommand
    <3> QED
      BY <1>2, <3>1, <3>2, <3>4, SaidAgain
  <2>3. CASE ~(Run.at \in {"zlib", "judge"} /\ t.SKIPIF # None)
    BY <2>1, <2>3 DEF CurrentSaid, t, Run, Call
  <2> QED
    BY <2>2, <2>3
<1>7. CASE NextTest \/ Returns \/ Redirect \/ RedirectEnds \/ Retry
  <2>1. CASE NextTest
    <3>1. PICK e \in Call.todo : Run' = [Idle EXCEPT !.test = e[1], !.only = e[2], !.at = "parse"]
      BY <1>1, <2>1, NextTestEffect
    <3> QED
      BY <3>1 DEF Idle, CurrentSaid
  <2>2. CASE Returns \/ RedirectEnds
    <3>1. \E n, first, types, entries, report, d :
            /\ n \in DOMAIN calls
            /\ ReturnFrom(n, first, types, entries, report, d)
      <4>1. CASE Returns
        <5>1. \E first, types, entries, report, d : Return(first, types, entries, report, d)
          BY <4>1, Zenon DEF Returns
        <5> QED
          BY <1>1, <5>1, Zenon DEF Return
      <4>2. CASE RedirectEnds
        <5>1. 1 \in DOMAIN calls
          BY <1>1, CurrentCall
        <5> QED
          BY <4>2, <5>1, Zenon DEF RedirectEnds
      <4> QED
        BY <2>2, <4>1, <4>2
    <3>2. Run' = Idle
      BY <1>1, <3>1, ReturnEffect, Zenon
    <3> QED
      BY <3>2 DEF Idle, CurrentSaid
  <2>3. CASE Redirect
    <3>1. Run.at = "zlib" /\ t.redirect = "TESTS"
      BY <2>3 DEF Redirect, Ready, At
    <3>2. Len(calls) = 1
      BY <1>1, <3>1, RedirectsOnce
    <3>3. Run' = Idle
      BY <1>1, <2>3, <3>2, RedirectEffect
    <3> QED
      BY <3>3 DEF Idle, CurrentSaid
  <2>4. CASE Retry
    <3> DEFINE run == [Idle EXCEPT !.test = Run.test, !.only = Run.only, !.at = "parse",
                         !.php = Run.php, !.orig_php = Run.orig_php, !.rr = Run.rr,
                         !.preloads = Run.preloads, !.retried = TRUE, !.tries = Run.tries]
    <3>1. SetRun(run)
      BY <2>4 DEF Retry
    <3>2. run.at = "parse"
      BY DEF Idle
    <3> HIDE DEF run
    <3>3. Run' = run
      BY <1>1, <3>1, SetRunEffect
    <3> QED
      BY <3>2, <3>3 DEF CurrentSaid
  <2> QED
    BY <1>7, <2>1, <2>2, <2>3, <2>4
<1>8. CASE SkipZlib \/ Unparsed \/ SkipTest \/ SkipExtensions \/ RedirectEmpty \/ NoRedirection
           \/ EmptyRequest \/ BorkedByClean \/ Pass \/ Report
  BY <1>7, <1>8, EarlyReturns, LateReturns
<1>9. CASE TestsFinished \/ Summarize \/ Ended \/ UNCHANGED vars
  BY <1>6, <1>9 DEF TestsFinished, Ended, vars, OverVars, Stays
<1> QED
  BY <1>3, <1>4, <1>5, <1>7, <1>8, <1>9, Zenon DEF Next

\* What a test acted on is written down when it is over.
LEMMA DoneSaidNext ==
  ASSUME TriesInv, RedirectInv, CurrentSaid, DoneSaid, [Next]_vars
  PROVE  DoneSaid'
<1>1. SaidGrows /\ UNCHANGED option
  BY SaidStep, OptionsKept
<1>2. \A d \in done : Executed(d) /\ T[d.test].SKIPIF # None =>
        SaidIn(said', T[d.test].SKIPIF, AnsweredCommand(d.run), d.dir, T[d.test].ENV, d.run.answer)
  <2> SUFFICES ASSUME NEW d \in done, Executed(d), T[d.test].SKIPIF # None
               PROVE  SaidIn(said', T[d.test].SKIPIF, AnsweredCommand(d.run), d.dir, T[d.test].ENV, d.run.answer)
    OBVIOUS
  <2> DEFINE script == T[d.test].SKIPIF
             command == AnsweredCommand(d.run)
  <2>1. SaidIn(said, script, command, d.dir, T[d.test].ENV, d.run.answer)
    BY DEF DoneSaid
  <2> HIDE DEF script, command
  <2>2. SaidIn(said', script, command, d.dir, T[d.test].ENV, d.run.answer)
    BY <1>1, <2>1, StillSaid
  <2> QED
    BY <2>2 DEF script, command
<1>3. CASE UNCHANGED done
  BY <1>1, <1>2, <1>3, Zenon DEF DoneSaid, Executed, AnsweredCommand, SaidIn
<1>4. CASE \E n, first, types, entries, report, d :
             /\ n \in DOMAIN calls
             /\ ReturnFrom(n, first, types, entries, report, d)
             /\ calls[n].run.at # "next"
             /\ Judged(calls[n].run, first, types, entries)
             /\ calls[n].run.at = "judge" => n = Len(calls) /\ d = TestDir
  <2>1. PICK n, first, types, entries, report, d :
             /\ n \in DOMAIN calls
             /\ ReturnFrom(n, first, types, entries, report, d)
             /\ calls[n].run.at # "next"
             /\ calls[n].run.at = "judge" => n = Len(calls) /\ d = TestDir
    BY <1>4, Zenon
  <2>2. PICK e : e = Entry(n, first, types, d)
    OBVIOUS
  <2>3. done' = done \cup {e}
    BY <2>1, <2>2, EntryMade
  <2>4. e.run = calls[n].run /\ e.test = e.run.test /\ e.dir = d
    BY <2>1, <2>2, EntryOf
  <2>5. Executed(e) /\ T[e.test].SKIPIF # None =>
          SaidIn(said', T[e.test].SKIPIF, AnsweredCommand(e.run), e.dir, T[e.test].ENV, e.run.answer)
    <3> SUFFICES ASSUME Executed(e), T[e.test].SKIPIF # None
                 PROVE  SaidIn(said', T[e.test].SKIPIF, AnsweredCommand(e.run), e.dir,
                               T[e.test].ENV, e.run.answer)
      OBVIOUS
    <3>1. n = Len(calls) /\ d = TestDir /\ e.run.at = "judge"
      BY <2>1, <2>4 DEF Executed
    <3>2. e.run = Run
      BY <2>4, <3>1 DEF Run, Call
    <3>3. T[e.test] = t /\ e.dir = TestDir
      BY <2>4, <3>1, <3>2 DEF t
    <3>4. SaidIn(said, T[e.test].SKIPIF, AnsweredCommand(e.run), e.dir, T[e.test].ENV, e.run.answer)
      BY <3>1, <3>2, <3>3, Zenon DEF CurrentSaid
    <3> QED
      BY <1>1, <3>4, StillSaid
  <2>6. AnsweredCommand(e.run)' = AnsweredCommand(e.run)
    BY <1>1 DEF AnsweredCommand
  <2>7. \A x \in done' : Executed(x) /\ T[x.test].SKIPIF # None =>
          SaidIn(said', T[x.test].SKIPIF, AnsweredCommand(x.run), x.dir, T[x.test].ENV, x.run.answer)
    BY <1>2, <2>3, <2>5, Zenon
  <2> QED
    BY <1>1, <2>7, Zenon DEF DoneSaid, Executed, AnsweredCommand, SaidIn
<1> QED
  BY <1>3, <1>4, DoneStep

LEMMA SkipInit == ASSUME Init PROVE SkipInv
<1>1. skips = [k \in {} |-> ""] /\ done = {}
  BY DEF Init
<1>2. CacheSaid /\ DoneSaid
  BY <1>1 DEF CacheSaid, DoneSaid
<1>3. PICK l \in Lists : calls = <<Loop(l)>>
  BY DEF Init
<1>4. Len(calls) = 1 /\ calls[1] = Loop(l)
  BY <1>3
<1>5. Run.at = "next"
  BY <1>4 DEF Run, Call, Loop, Idle
<1>6. CurrentSaid
  BY <1>5 DEF CurrentSaid
<1> QED
  BY <1>2, <1>6 DEF SkipInv

\* The answer a test acted on, fresh or from the skip cache, is one that its own script
\* gave with the same command in the same directory and the same ENV, or, if it depends
\* on ENV and did not say "nocache", in another ENV: nothing of what ran between the answer
\* and the program (a retry, a redirection, other tests) makes it another's.
THEOREM SkipAnswerFresh == Spec => []SkipFresh
<1>1. Init => SkipInv
  BY SkipInit
<1>2. TriesInv /\ RedirectInv /\ SkipInv /\ [Next]_vars => SkipInv'
  BY CacheSaidNext, CurrentSaidNext, DoneSaidNext DEF SkipInv
<1>3. SkipInv => SkipFresh
  <2> SUFFICES ASSUME SkipInv, NEW d \in done, Executed(d), T[d.test].SKIPIF # None
               PROVE  SaidIn(said, T[d.test].SKIPIF,
                             <<d.run.php, d.run.rr,
                               d.run.preloads - (IF option.preload THEN 1 ELSE 0)>>,
                             d.dir, T[d.test].ENV, d.run.answer)
    BY Zenon DEF SkipFresh
  <2>1. SaidIn(said, T[d.test].SKIPIF, AnsweredCommand(d.run), d.dir, T[d.test].ENV, d.run.answer)
    BY DEF SkipInv, DoneSaid
  <2>2. AnsweredCommand(d.run) = <<d.run.php, d.run.rr,
                                   d.run.preloads - (IF option.preload THEN 1 ELSE 0)>>
    BY DEF AnsweredCommand, Executed
  <2> QED
    BY <2>1, <2>2, Zenon
<1> QED
  BY <1>1, <1>2, <1>3, TriesInvariant, RedirectInvariant, PTL DEF Spec

(***************************************************************************)
(* The report: a suite that is not complete was warned of.                 *)
(***************************************************************************)

IsSuite(s) == DOMAIN s = {"fields", "count", "files"}
IsReport(j) ==
  /\ DOMAIN j = {"suites", "root", "started", "warned"} /\ j.warned \in BOOLEAN
  /\ DOMAIN j.suites = Dirs /\ \A d \in Dirs : IsSuite(j.suites[d])
Sound(j) == IsReport(j) /\ (~j.warned => Complete(j))

\* Another suite in the report.
LEMMA SuiteReplaced ==
  ASSUME NEW j, Sound(j), NEW d \in Dirs, NEW s, IsSuite(s),
         j.warned \/ s.fields \in {{}, Fields}
  PROVE  LET k == [j EXCEPT !.suites[d] = s]
         IN  Sound(k) /\ k.warned = j.warned /\ k.suites[d] = s
<1> DEFINE k == [j EXCEPT !.suites[d] = s]
<1>1. /\ DOMAIN k = DOMAIN j /\ k.warned = j.warned
      /\ k.suites = [j.suites EXCEPT ![d] = s]
  BY DEF Sound, IsReport
<1> HIDE DEF k
<1>2. k.suites[d] = s /\ \A e \in Dirs : e # d => k.suites[e] = j.suites[e]
  BY <1>1 DEF Sound, IsReport
<1>3. DOMAIN k.suites = Dirs /\ \A e \in Dirs : IsSuite(k.suites[e])
  BY <1>1, <1>2 DEF Sound, IsReport
<1>4. ~j.warned => Complete(k)
  BY <1>2 DEF Sound, Complete
<1>5. Sound(k)
  BY <1>1, <1>3, <1>4 DEF Sound, IsReport
<1> QED
  BY <1>1, <1>2, <1>5 DEF k

\* The other parts of a report.
LEMMA SameSuites ==
  ASSUME NEW j, Sound(j), NEW k, DOMAIN k = DOMAIN j, k.suites = j.suites,
         k.warned \in BOOLEAN, j.warned => k.warned
  PROVE  Sound(k)
BY DEF Sound, IsReport, Complete

\* A suite is made whole.
LEMMA InitSuite ==
  ASSUME NEW j, Sound(j), NEW d \in Dirs
  PROVE  LET k == initSuite(j, d)
         IN  Sound(k) /\ k.warned = j.warned /\ k.suites[d].fields # {}
                /\ DOMAIN k = DOMAIN j
<1>1. IsSuite(EMPTY_SUITE) /\ EMPTY_SUITE.fields = Fields /\ Fields # {}
  BY DEF IsSuite, EMPTY_SUITE, Fields
<1>2. CASE j.suites[d].fields = {}
  <2> DEFINE k == [j EXCEPT !.suites[d] = EMPTY_SUITE]
  <2>1. Sound(k) /\ k.warned = j.warned /\ k.suites[d] = EMPTY_SUITE
    BY <1>1, SuiteReplaced
  <2>2. DOMAIN k = DOMAIN j /\ initSuite(j, d) = k
    BY <1>2 DEF initSuite
  <2> HIDE DEF k
  <2> QED
    BY <1>1, <2>1, <2>2
<1>3. CASE j.suites[d].fields # {}
  BY <1>3 DEF initSuite
<1> QED
  BY <1>2, <1>3

\* The timers make a suite, too.
LEMMA TimersSound ==
  ASSUME NEW j, Sound(j), NEW d \in Dirs, NEW file
  PROVE  Sound(stopTimer(startTimer(j, d, file), file))
<1> DEFINE made == initSuite(j, d)
           s == [made.suites[d] EXCEPT !.files = @ \cup {file}, !.fields = @ \cup {"files"}]
           k == [made EXCEPT !.suites[d] = s]
<1>1. Sound(made) /\ made.suites[d].fields # {}
  BY InitSuite
<1> HIDE DEF made
<1>2. IsSuite(made.suites[d]) /\ DOMAIN made = {"suites", "root", "started", "warned"}
  BY <1>1 DEF Sound, IsReport
<1>3. IsSuite(s) /\ s.fields = made.suites[d].fields \cup {"files"}
  BY <1>2 DEF IsSuite
<1>4. made.warned \/ s.fields \in {{}, Fields}
  BY <1>1, <1>3 DEF Sound, Complete, Fields
<1>5. Sound(k)
  <2> HIDE DEF s
  <2> QED
    BY <1>1, <1>3, <1>4, SuiteReplaced
<1>6. PICK timed : timed = startTimer(j, d, file)
  OBVIOUS
<1>7. timed = [made EXCEPT !.started = @ \cup {file}, !.suites[d].files = @ \cup {file},
                           !.suites[d].fields = @ \cup {"files"}]
  BY <1>6 DEF startTimer, made
<1>8. DOMAIN timed = DOMAIN made /\ timed.warned = made.warned /\ timed.suites = k.suites
  BY <1>2, <1>7 DEF IsSuite
<1>9. DOMAIN k = DOMAIN made /\ k.warned = made.warned /\ made.warned \in BOOLEAN
  BY <1>1, <1>2 DEF Sound, IsReport
<1> HIDE DEF k
<1>10. Sound(timed)
  BY <1>5, <1>8, <1>9, SameSuites
<1> DEFINE stopped == [timed EXCEPT !.started = @ \ {file}]
<1>11. DOMAIN stopped = DOMAIN timed /\ stopped.suites = timed.suites
       /\ stopped.warned = timed.warned
  BY <1>2, <1>8
<1>12. stopTimer(startTimer(j, d, file), file) = stopped
  BY <1>6 DEF stopTimer
<1> HIDE DEF stopped
<1>13. Sound(stopped)
  BY <1>8, <1>9, <1>10, <1>11, SameSuites
<1> QED
  BY <1>12, <1>13

\* A counter that was not there is warned of.
LEMMA RecordSound ==
  ASSUME NEW j, Sound(j), NEW d \in Dirs, NEW c \in Counters
  PROVE  LET k == record(j, d, c)
         IN  Sound(k) /\ DOMAIN k = DOMAIN j /\ c \in k.suites[d].fields
<1> DEFINE k == record(j, d, c)
           s == [j.suites[d] EXCEPT !.count[c] = @ + 1, !.fields = @ \cup {c}]
           warned == j.warned \/ c \notin j.suites[d].fields
           w == [j EXCEPT !.warned = warned]
           v == [w EXCEPT !.suites[d] = s]
<1>1. DOMAIN j = {"suites", "root", "started", "warned"} /\ IsSuite(j.suites[d])
      /\ DOMAIN j.suites = Dirs /\ j.warned \in BOOLEAN
  BY DEF Sound, IsReport
<1>2. DOMAIN w = DOMAIN j /\ w.suites = j.suites /\ w.warned = warned
  BY <1>1
<1>3. Sound(w)
  <2>1. w.warned \in BOOLEAN /\ (j.warned => w.warned)
    BY <1>2
  <2> HIDE DEF w
  <2> QED
    BY <1>2, <2>1, SameSuites
<1>4. IsSuite(s) /\ s.fields = j.suites[d].fields \cup {c}
  BY <1>1 DEF IsSuite
<1>5. w.warned \/ s.fields \in {{}, Fields}
  BY <1>1, <1>2, <1>4 DEF Sound, Complete, Fields
<1>6. Sound(v) /\ v.warned = w.warned /\ v.suites[d] = s
  <2> HIDE DEF w, s
  <2> QED
    BY <1>3, <1>4, <1>5, SuiteReplaced
<1>7. DOMAIN v = DOMAIN j
  BY <1>2
<1>8. DOMAIN k = DOMAIN j /\ k.warned = warned /\ k.suites = [j.suites EXCEPT ![d] = s]
  BY <1>1 DEF record, IsSuite
<1>9. v.suites = [j.suites EXCEPT ![d] = s]
  BY <1>1, <1>2
<1> HIDE DEF v, k, s
<1>10. Sound(k)
  BY <1>2, <1>6, <1>7, <1>8, <1>9, SameSuites
<1>11. k.suites[d] = s
  BY <1>1, <1>8
<1> QED
  BY <1>4, <1>8, <1>10, <1>11 DEF k

\* A result is counted.
LEMMA MarkSound ==
  ASSUME NEW j, Sound(j), NEW d \in Dirs, NEW types
  PROVE  Sound(markTestAs(j, d, types))
<1>1. PICK counted : counted = record(j, d, "test_total")
  OBVIOUS
<1>2. Sound(counted) /\ "test_total" \in counted.suites[d].fields
  <2>1. "test_total" \in Counters
    BY DEF Counters
  <2> QED
    BY <1>1, <2>1, RecordSound
<1> DEFINE s == [counted.suites[d] EXCEPT !.fields = @ \cup {"execution_time"}]
           timed == [counted EXCEPT !.suites[d] = s]
<1>3. IsSuite(counted.suites[d])
  BY <1>2 DEF Sound, IsReport
<1>4. IsSuite(s) /\ s.fields = counted.suites[d].fields \cup {"execution_time"}
  BY <1>3 DEF IsSuite
<1>5. counted.warned \/ s.fields \in {{}, Fields}
  BY <1>2, <1>4 DEF Sound, Complete, Fields, Counters
<1>6. Sound(timed)
  <2> HIDE DEF s
  <2> QED
    BY <1>2, <1>4, <1>5, SuiteReplaced
<1>7. timed = [counted EXCEPT !.suites[d].fields = @ \cup {"execution_time"}]
  BY <1>2, <1>3 DEF Sound, IsReport
<1>8. Outcome(types) \in Counters
  BY DEF Outcome, Counters, Outcomes
<1>9. markTestAs(j, d, types) = record(timed, d, Outcome(types))
  BY <1>1, <1>7 DEF markTestAs
<1> HIDE DEF timed
<1> QED
  BY <1>6, <1>8, <1>9, RecordSound

\* Complete reports make a complete one.
LEMMA MergeSound ==
  ASSUME NEW j, NEW k, IsReport(j), IsReport(k), Complete(j), Complete(k)
  PROVE  IsReport(mergeResults(j, k)) /\ Complete(mergeResults(j, k))
<1> DEFINE m == mergeResults(j, k)
<1>1. /\ DOMAIN m = DOMAIN j /\ m.warned = j.warned
      /\ m.suites = [d \in Dirs |-> mergeSuites(j.suites[d], k.suites[d])]
  BY DEF mergeResults, IsReport
<1>2. \A d \in Dirs : /\ IsSuite(mergeSuites(j.suites[d], k.suites[d]))
                      /\ mergeSuites(j.suites[d], k.suites[d]).fields \in {{}, Fields}
  <2> SUFFICES ASSUME NEW d \in Dirs
               PROVE  LET s == mergeSuites(j.suites[d], k.suites[d])
                      IN  IsSuite(s) /\ s.fields \in {{}, Fields}
    OBVIOUS
  <2>1. \A s, u : IsSuite(s) /\ IsSuite(u) /\ s.fields \in {{}, Fields} /\ u.fields \in {{}, Fields}
          => IsSuite(mergeSuites(s, u)) /\ mergeSuites(s, u).fields \in {{}, Fields}
    BY DEF mergeSuites, IsSuite
  <2> QED
    BY <2>1 DEF IsReport, Complete
<1> HIDE DEF m
<1>3. IsReport(m) /\ Complete(m)
  BY <1>1, <1>2 DEF IsReport, Complete
<1> QED
  BY <1>3 DEF m

LEMMA EmptySound == Sound(EmptyReport)
<1> DEFINE j == EmptyReport
<1>1. /\ DOMAIN j = {"suites", "root", "started", "warned"} /\ j.warned = FALSE
      /\ DOMAIN j.suites = Dirs /\ \A d \in Dirs : j.suites[d] = Absent
  BY DEF EmptyReport
<1>2. IsSuite(Absent) /\ Absent.fields = {}
  BY DEF Absent, IsSuite
<1> HIDE DEF j
<1>3. Sound(j)
  BY <1>1, <1>2 DEF Sound, IsReport, Complete
<1> QED
  BY <1>3 DEF j

(***************************************************************************)
(* What a step does to the report.                                         *)
(***************************************************************************)

MergeInv == Sound(junit) /\ IsReport(merged) /\ Complete(merged)

\* The suites of a test are directories.
LEMMA DirOfTest == ASSUME NEW u \in Tests PROVE T[u].dir \in Dirs
<1>1. T[u] \in TestRecords
  BY RunTestAssumption
<1> QED
  BY <1>1 DEF TestRecords

LEMMA TestDirs ==
  ASSUME TriesInv, RedirectInv, Run.at # "next"
  PROVE  t.dir \in Dirs /\ TestDir \in Dirs
<1>1. Run.test \in Tests
  BY AtWork DEF Tried
<1>2. IN_REDIRECT # None => IN_REDIRECT \in Tests
  BY DEF RedirectInv, Test
<1> QED
  BY <1>1, <1>2, DirOfTest DEF t, TestDir

\* The report that a result is counted in.
Before(j) ==
  \/ j = junit
  \/ j = Timed(junit) /\ TestDir \in Dirs
  \/ \E d \in Dirs : j = initSuite(junit, d)

\* A step ends no run_test, or one whose result is counted, or hands the report on.
ReportKept ==
  /\ UNCHANGED <<done, merged>>
  /\ junit' = junit \/ (junit' = Timed(junit) /\ TestDir \in Dirs)
ReportsReturn ==
  \E n \in DOMAIN calls, d \in Dirs : \E first, types, entries, j :
    /\ Before(j) /\ calls[n].run.at # "next" /\ n \in {1, Len(calls)}
    /\ ReturnFrom(n, first, types, entries, j, d)

LEMMA AnswerReports ==
  ASSUME TriesInv, RedirectInv, Run.at # "next", NEW answer, AfterAnswer(answer)
  PROVE  ReportKept \/ ReportsReturn
<1>1. TestDir \in Dirs
  BY TestDirs
<1>2. CASE answer \in {"skip", "junk"}
  <2>1. \E first, types, entries :
          ReturnFrom(Len(calls), first, types, entries, Timed(junit), TestDir)
    BY <1>2, Zenon DEF AfterAnswer, Skip, Bork, Return
  <2>2. Len(calls) \in DOMAIN calls /\ Run = calls[Len(calls)].run
    BY CurrentCall DEF TriesInv, Run, Call
  <2> QED
    BY <1>1, <2>1, <2>2, Zenon DEF ReportsReturn, Before
<1>3. CASE answer \notin {"skip", "junk"}
  BY <1>1, <1>3 DEF AfterAnswer, ReportKept
<1> QED
  BY <1>2, <1>3

LEMMA ReportSteps ==
  ASSUME TriesInv, RedirectInv, [Next]_vars
  PROVE  ReportKept \/ ReportsReturn \/ TestsFinished
<1>0. Len(calls) \in DOMAIN calls /\ Run = calls[Len(calls)].run
  BY CurrentCall DEF TriesInv, Run, Call
<1>1. CASE NextTest \/ Prepare \/ Redirect \/ Retry \/ Summarize \/ Ended \/ UNCHANGED vars
  <2>1. UNCHANGED <<junit, merged, done>>
    BY <1>1, Zenon DEF NextTest, Prepare, Redirect, Retry, Summarize, Ended, vars
  <2> QED
    BY <2>1 DEF ReportKept
<1>2. CASE Unparsed \/ SkipTest
  <2>1. t.dir \in Dirs /\ Run.at # "next"
    BY <1>2, TestDirs DEF Unparsed, SkipTest, At
  <2>2. \E j, first, types, entries :
          Before(j) /\ ReturnFrom(Len(calls), first, types, entries, j, t.dir)
    BY <1>2, <2>1, Zenon DEF Unparsed, SkipTest, Return, Before
  <2> QED
    BY <1>0, <2>1, <2>2, Zenon DEF ReportsReturn
<1>3. CASE \/ SkipExtensions \/ SkipZlib \/ RedirectEmpty \/ NoRedirection \/ EmptyRequest
           \/ BorkedByClean \/ Pass \/ Report
  <2>1. Run.at # "next"
    BY <1>3 DEF SkipExtensions, SkipZlib, RedirectEmpty, NoRedirection, EmptyRequest,
      BorkedByClean, Pass, Report, ToRun, Ready, At
  <2>2. TestDir \in Dirs
    BY <2>1, TestDirs
  <2>3. \E j, first, types, entries :
          Before(j) /\ ReturnFrom(Len(calls), first, types, entries, j, TestDir)
    BY <1>3, <2>2, Zenon DEF SkipExtensions, SkipZlib, RedirectEmpty, NoRedirection, EmptyRequest,
      BorkedByClean, Pass, Report, Skip, Bork, Return, Before
  <2> QED
    BY <1>0, <2>1, <2>2, <2>3, Zenon DEF ReportsReturn
<1>4. CASE SkipCached \/ CheckSkip
  <2>1. Run.at = "SKIPIF"
    BY <1>4 DEF SkipCached, CheckSkip, At
  <2>2. \E answer : AfterAnswer(answer)
    BY <1>4, Zenon DEF SkipCached, CheckSkip
  <2> QED
    BY <2>1, <2>2, AnswerReports
<1>5. CASE Execute
  BY <1>5, TestDirs DEF Execute, ToRun, Ready, At, ReportKept
<1>6. CASE RedirectEnds
  <2>1. /\ ReturnFrom(1, "REDIR", {"PASS"}, {}, junit, T[calls[1].run.test].dir)
        /\ Len(calls) = 2
    BY <1>6 DEF RedirectEnds
  <2>2. /\ T[calls[1].run.test].dir \in Dirs /\ 1 \in DOMAIN calls
        /\ calls[1].run.at # "next"
    BY <2>1, Waiting, DirOfTest DEF TriesInv
  <2>3. Before(junit)
    BY DEF Before
  <2> QED
    BY <2>1, <2>2, <2>3, Zenon DEF ReportsReturn
<1> QED
  BY <1>1, <1>2, <1>3, <1>4, <1>5, <1>6, Zenon DEF Next

LEMMA MergeNext ==
  ASSUME TriesInv, RedirectInv, MergeInv, [Next]_vars
  PROVE  MergeInv'
<1>1. CASE ReportKept \/ ReportsReturn
  <2>1. Sound(junit)
    BY DEF MergeInv
  <2>2. \A d \in Dirs : Sound(initSuite(junit, d))
    BY <2>1, InitSuite
  <2>3. TestDir \in Dirs => Sound(Timed(junit))
    BY <2>1, TimersSound, Zenon DEF Timed
  <2>4. Sound(junit')
    <3>1. CASE ReportKept
      BY <3>1, <2>1, <2>3, Zenon DEF ReportKept
    <3>2. CASE ReportsReturn
      <4>0. PICK n, d, first, types, entries, j :
              d \in Dirs /\ Before(j) /\ ReturnFrom(n, first, types, entries, j, d)
        BY <3>2, Zenon DEF ReportsReturn
      <4>1. d \in Dirs /\ Before(j) /\ junit' = markTestAs(j, d, types)
        BY <4>0, Zenon DEF ReturnFrom
      <4>2. Sound(j)
        BY <4>1, <2>1, <2>2, <2>3, Zenon DEF Before
      <4> QED
        BY <4>1, <4>2, MarkSound
    <3> QED
      BY <1>1, <3>1, <3>2
  <2>5. UNCHANGED merged
    <3>1. CASE ReportKept
      BY <3>1 DEF ReportKept
    <3>2. CASE ReportsReturn
      <4>1. PICK n, d, first, types, entries, j : ReturnFrom(n, first, types, entries, j, d)
        BY <3>2, Zenon DEF ReportsReturn
      <4> QED
        BY <4>1, Zenon DEF ReturnFrom
    <3> QED
      BY <1>1, <3>1, <3>2
  <2> QED
    BY <2>4, <2>5, Zenon DEF MergeInv, Sound, IsReport, IsSuite, Complete
<1>2. CASE TestsFinished
  <2>1. /\ ~junit.warned /\ merged' = mergeResults(merged, junit) /\ junit' = EmptyReport
    BY <1>2 DEF TestsFinished, AtTop, At, Running, Aborted, Cleared
  <2>2. Complete(junit) /\ IsReport(junit) /\ Complete(merged) /\ IsReport(merged)
    BY <2>1 DEF MergeInv, Sound
  <2>3. PICK m : m = mergeResults(merged, junit)
    OBVIOUS
  <2>4. IsReport(m) /\ Complete(m)
    BY <2>2, <2>3, MergeSound
  <2>5. Sound(junit')
    BY <2>1, EmptySound
  <2>6. IsReport(merged') /\ Complete(merged')
    BY <2>1, <2>3, <2>4
  <2> QED
    BY <2>5, <2>6, Zenon DEF MergeInv, Sound, IsReport, IsSuite, Complete
<1> QED
  BY <1>1, <1>2, ReportSteps

\* What the parent merges, over all the batches of a worker, is complete suites: a worker
\* that counted in a suite that initSuite had not made has had a PHP error first, on which
\* the parent gives up.
THEOREM MergedIsComplete == Spec => []MergesComplete
<1>1. Init => MergeInv
  BY EmptySound DEF Init, MergeInv, Sound, Complete, EmptyReport
<1>2. TriesInv /\ RedirectInv /\ MergeInv /\ [Next]_vars => MergeInv'
  BY MergeNext
<1>3. MergeInv => MergesComplete
  BY DEF MergeInv, MergesComplete
<1> QED
  BY <1>1, <1>2, <1>3, TriesInvariant, RedirectInvariant, PTL DEF Spec

(***************************************************************************)
(* Sums over finite sets.                                                  *)
(***************************************************************************)

\* What the sum makes of a subset: the element it takes first, and those that remain.
First(s) == CHOOSE x \in s : TRUE
SumStep(f, g, s) == IF s = {} THEN 0 ELSE f[First(s)] + g[s \ {First(s)}]
Summing(f, S) == CHOOSE g : g = [s \in SUBSET S |-> SumStep(f, g, s)]

LEMMA TotalOf == ASSUME NEW f, NEW S PROVE Total(f, S) = Summing(f, S)[S]
BY DEF Total, MapThenSumSet, MapThenFoldSet, Summing, SumStep, First

LEMMA Least ==
  ASSUME NEW S, S \subseteq Nat, S # {}
  PROVE  \E x \in S : \A y \in S : x <= y
<1>1. PICK x \in S : \A y \in S : ~(<<y, x>> \in OpToRel(<, Nat))
  BY NatLessThanWellFounded, WFMin, Zenon
<1>2. \A y \in S : ~(y < x)
  BY <1>1, Zenon DEF OpToRel
<1> QED
  BY <1>2

\* A set without its first element.
LEMMA WithoutFirst ==
  ASSUME NEW S, IsFiniteSet(S), NEW s \in SUBSET S, s # {}
  PROVE  /\ First(s) \in s /\ s \ {First(s)} \in SUBSET S
         /\ Cardinality(s) \in Nat /\ Cardinality(s \ {First(s)}) \in Nat
         /\ Cardinality(s \ {First(s)}) = Cardinality(s) - 1
<1>1. First(s) \in s
  BY DEF First
<1>2. IsFiniteSet(s)
  BY FS_Subset
<1>3. Cardinality(s \ {First(s)}) = Cardinality(s) - 1 /\ IsFiniteSet(s \ {First(s)})
  BY <1>1, <1>2, FS_RemoveElement
<1> QED
  BY <1>1, <1>2, <1>3, FS_CardinalityType

\* Induction on subsets: of those that fail, one has all smaller ones that hold.
LEMMA SmallestSubset ==
  ASSUME NEW S, IsFiniteSet(S), NEW B, B \subseteq SUBSET S, B # {}
  PROVE  \E s \in B : s # {} => s \ {First(s)} \notin B
<1> DEFINE Sizes == {Cardinality(s) : s \in B}
<1>1. \A s \in B : Cardinality(s) \in Nat
  BY FS_Subset, FS_CardinalityType
<1>2. Sizes \subseteq Nat /\ Sizes # {}
  BY <1>1
<1>3. PICK n \in Sizes : \A m \in Sizes : n <= m
  <2> HIDE DEF Sizes
  <2> QED
    BY <1>2, Least
<1>4. PICK s \in B : Cardinality(s) = n
  OBVIOUS
<1>5. ASSUME s # {}, s \ {First(s)} \in B PROVE FALSE
  <2>1. Cardinality(s \ {First(s)}) = Cardinality(s) - 1 /\ Cardinality(s) \in Nat
    BY <1>5, WithoutFirst
  <2>2. n <= Cardinality(s \ {First(s)})
    BY <1>3, <1>5
  <2> QED
    BY <1>4, <2>1, <2>2
<1> QED
  BY <1>5

\* The sums of the subsets with up to n elements are defined.
UpToSize(S, n) == {r \in SUBSET S : Cardinality(r) <= n}
SumsMade(f, S, n) == \E g : g = [s \in UpToSize(S, n) |-> SumStep(f, g, s)]

LEMMA SumsUpTo ==
  ASSUME NEW S, IsFiniteSet(S), NEW f, NEW n \in Nat
  PROVE  SumsMade(f, S, n)
<1> DEFINE UpTo(m) == UpToSize(S, m)
           Made(m) == SumsMade(f, S, m)
           Bad == {m \in Nat : ~Made(m)}
<1>1. Bad \subseteq Nat
  OBVIOUS
<1>2. ASSUME Bad # {} PROVE FALSE
  <2>1. PICK m \in Bad : \A k \in Bad : m <= k
    <3> HIDE DEF Bad
    <3> QED
      BY <1>1, <1>2, Least
  <2>2. CASE m = 0
    <3> DEFINE g == [s \in UpTo(0) |-> 0]
    <3>1. \A s \in UpTo(0) : s = {}
      <4> SUFFICES ASSUME NEW s \in UpTo(0), s # {} PROVE FALSE
        OBVIOUS
      <4>1. Cardinality(s) \in Nat /\ Cardinality(s \ {First(s)}) \in Nat
              /\ Cardinality(s \ {First(s)}) = Cardinality(s) - 1
        BY WithoutFirst DEF UpToSize
      <4> QED
        BY <4>1 DEF UpToSize
    <3>2. \A s \in UpTo(0) : SumStep(f, g, s) = 0
      BY <3>1 DEF SumStep
    <3>3. g = [s \in UpTo(0) |-> SumStep(f, g, s)]
      BY <3>2
    <3>4. Made(0)
      <4> HIDE DEF g
      <4> QED
        BY <3>3 DEF SumsMade
    <3> QED
      BY <2>1, <2>2, <3>4
  <2>3. CASE m # 0
    <3>1. m - 1 \in Nat /\ m - 1 \notin Bad
      <4>1. m \in Nat /\ m - 1 \in Nat /\ ~(m <= m - 1)
        BY <2>1, <2>3
      <4> HIDE DEF Bad
      <4> QED
        BY <2>1, <4>1
    <3>2. PICK g : g = [s \in UpTo(m - 1) |-> SumStep(f, g, s)]
      BY <3>1 DEF SumsMade
    <3> DEFINE h == [s \in UpTo(m) |-> SumStep(f, g, s)]
    <3>3. \A s \in UpTo(m - 1) : s \in UpTo(m) /\ h[s] = g[s]
      <4> SUFFICES ASSUME NEW s \in UpTo(m - 1) PROVE s \in UpTo(m) /\ h[s] = g[s]
        OBVIOUS
      <4>1. Cardinality(s) \in Nat
        BY FS_Subset, FS_CardinalityType DEF UpToSize
      <4>2. s \in UpTo(m)
        BY <2>1, <4>1 DEF UpToSize
      <4>3. g[s] = SumStep(f, g, s)
        BY <3>2
      <4> QED
        BY <4>2, <4>3
    <3>4. \A s \in UpTo(m) : SumStep(f, g, s) = SumStep(f, h, s)
      <4> SUFFICES ASSUME NEW s \in UpTo(m), s # {}
                   PROVE  g[s \ {First(s)}] = h[s \ {First(s)}]
        BY DEF SumStep
      <4>1. /\ s \ {First(s)} \in SUBSET S /\ Cardinality(s) \in Nat
            /\ Cardinality(s \ {First(s)}) = Cardinality(s) - 1
        BY WithoutFirst DEF UpToSize
      <4>2. s \ {First(s)} \in UpTo(m - 1)
        BY <2>1, <4>1 DEF UpToSize
      <4> HIDE DEF h
      <4> QED
        BY <3>3, <4>2
    <3>5. h = [s \in UpTo(m) |-> SumStep(f, h, s)]
      BY <3>4
    <3>6. Made(m)
      <4> HIDE DEF h
      <4> QED
        BY <3>5 DEF SumsMade
    <3> QED
      BY <2>1, <3>6
  <2> QED
    BY <2>2, <2>3
<1>3. Made(n)
  BY <1>2
<1> QED
  BY <1>3

LEMMA SummingIs ==
  ASSUME NEW S, IsFiniteSet(S), NEW f
  PROVE  /\ Summing(f, S)[{}] = 0
         /\ \A s \in SUBSET S : s # {} =>
              Summing(f, S)[s] = f[First(s)] + Summing(f, S)[s \ {First(s)}]
<1> DEFINE n == Cardinality(S)
<1>1. n \in Nat
  BY FS_CardinalityType
<1>2. UpToSize(S, n) = SUBSET S
  BY FS_Subset DEF UpToSize
<1>3. \E g : g = [s \in SUBSET S |-> SumStep(f, g, s)]
  <2> HIDE DEF n
  <2>1. SumsMade(f, S, n)
    BY <1>1, SumsUpTo, Zenon
  <2>2. PICK g : g = [s \in UpToSize(S, n) |-> SumStep(f, g, s)]
    BY <2>1, Zenon DEF SumsMade
  <2>3. g = [s \in SUBSET S |-> SumStep(f, g, s)]
    BY <1>2, <2>2
  <2> QED
    BY <2>3, Zenon
<1> DEFINE g == Summing(f, S)
<1>4. g = [s \in SUBSET S |-> SumStep(f, g, s)]
  BY <1>3 DEF Summing
<1> HIDE DEF g
<1>5. \A s \in SUBSET S : g[s] = SumStep(f, g, s)
  BY <1>4
<1>6. g[{}] = 0
  BY <1>5 DEF SumStep
<1>7. \A s \in SUBSET S : s # {} => g[s] = f[First(s)] + g[s \ {First(s)}]
  BY <1>5 DEF SumStep
<1> QED
  BY <1>6, <1>7 DEF g

LEMMA SumNat ==
  ASSUME NEW S, IsFiniteSet(S), NEW f, \A x \in S : f[x] \in Nat
  PROVE  \A s \in SUBSET S : Summing(f, S)[s] \in Nat
<1> DEFINE g == Summing(f, S)
           Bad == {s \in SUBSET S : g[s] \notin Nat}
<1>1. ASSUME Bad # {} PROVE FALSE
  <2>1. Bad \subseteq SUBSET S
    OBVIOUS
  <2>2. PICK s \in Bad : s # {} => s \ {First(s)} \notin Bad
    <3> HIDE DEF Bad
    <3> QED
      BY <1>1, <2>1, SmallestSubset
  <2>3. s # {}
    <3>1. g[{}] = 0
      BY SummingIs
    <3> HIDE DEF g
    <3>2. g[s] \notin Nat
      OBVIOUS
    <3> QED
      BY <3>1, <3>2
  <2>4. s \ {First(s)} \in SUBSET S /\ First(s) \in S
    BY <2>3, WithoutFirst
  <2>5. g[s \ {First(s)}] \in Nat /\ f[First(s)] \in Nat
    BY <2>2, <2>3, <2>4
  <2>6. g[s] = f[First(s)] + g[s \ {First(s)}]
    BY <2>3, SummingIs
  <2> HIDE DEF g
  <2>7. g[s] \in Nat
    BY <2>5, <2>6
  <2> QED
    BY <2>7
<1> QED
  BY <1>1

\* Counting one more of d.
LEMMA SumCounted ==
  ASSUME NEW S, IsFiniteSet(S), NEW d, NEW f, NEW h,
         \A x \in S : f[x] \in Nat /\ h[x] = f[x] + (IF x = d THEN 1 ELSE 0)
  PROVE  /\ Total(f, S) \in Nat
         /\ Total(h, S) = Total(f, S) + (IF d \in S THEN 1 ELSE 0)
<1> DEFINE F == Summing(f, S)
           H == Summing(h, S)
           Bad == {s \in SUBSET S : H[s] # F[s] + (IF d \in s THEN 1 ELSE 0)}
<1>0. \A s \in SUBSET S : F[s] \in Nat
  BY SumNat
<1>1. ASSUME Bad # {} PROVE FALSE
  <2>1. Bad \subseteq SUBSET S
    OBVIOUS
  <2>2. PICK s \in Bad : s # {} => s \ {First(s)} \notin Bad
    <3> HIDE DEF Bad
    <3> QED
      BY <1>1, <2>1, SmallestSubset
  <2>3. s # {}
    <3>1. F[{}] = 0 /\ H[{}] = 0
      BY SummingIs
    <3> HIDE DEF F, H
    <3>2. H[s] # F[s] + (IF d \in s THEN 1 ELSE 0)
      BY <2>2
    <3>3. CASE s = {}
      BY <3>1, <3>2, <3>3
    <3> QED
      BY <3>3
  <2> DEFINE x == First(s)
  <2>4. s \ {x} \in SUBSET S /\ x \in S /\ x \in s
    BY <2>3, WithoutFirst
  <2>5. F[s] = f[x] + F[s \ {x}] /\ H[s] = h[x] + H[s \ {x}]
    BY <2>3, SummingIs
  <2> HIDE DEF x, F, H
  <2>6. H[s \ {x}] = F[s \ {x}] + (IF d \in s \ {x} THEN 1 ELSE 0)
    BY <2>2, <2>3, <2>4 DEF x
  <2>7. F[s \ {x}] \in Nat /\ f[x] \in Nat /\ h[x] = f[x] + (IF x = d THEN 1 ELSE 0)
    BY <1>0, <2>4
  <2>8. H[s] = F[s] + (IF d \in s THEN 1 ELSE 0)
    <3>1. CASE x = d
      BY <3>1, <2>4, <2>5, <2>6, <2>7
    <3>2. CASE x # d
      <4>1. d \in s \ {x} <=> d \in s
        BY <3>2
      <4> QED
        BY <3>2, <4>1, <2>5, <2>6, <2>7
    <3> QED
      BY <3>1, <3>2
  <2> QED
    BY <2>2, <2>8
<1>2. F[S] \in Nat /\ H[S] = F[S] + (IF d \in S THEN 1 ELSE 0)
  BY <1>0, <1>1
<1> QED
  BY <1>2, TotalOf

\* Adding.
LEMMA SumAdded ==
  ASSUME NEW S, IsFiniteSet(S), NEW f, NEW g, NEW h,
         \A x \in S : f[x] \in Nat /\ g[x] \in Nat /\ h[x] = f[x] + g[x]
  PROVE  Total(h, S) = Total(f, S) + Total(g, S)
<1> DEFINE F == Summing(f, S)
           G == Summing(g, S)
           H == Summing(h, S)
           Bad == {s \in SUBSET S : H[s] # F[s] + G[s]}
<1>0. \A s \in SUBSET S : F[s] \in Nat /\ G[s] \in Nat
  BY SumNat
<1>1. ASSUME Bad # {} PROVE FALSE
  <2>1. Bad \subseteq SUBSET S
    OBVIOUS
  <2>2. PICK s \in Bad : s # {} => s \ {First(s)} \notin Bad
    <3> HIDE DEF Bad
    <3> QED
      BY <1>1, <2>1, SmallestSubset
  <2>3. s # {}
    <3>1. F[{}] = 0 /\ G[{}] = 0 /\ H[{}] = 0
      BY SummingIs
    <3> HIDE DEF F, G, H
    <3>2. H[s] # F[s] + G[s]
      BY <2>2
    <3>3. CASE s = {}
      BY <3>1, <3>2, <3>3
    <3> QED
      BY <3>3
  <2> DEFINE x == First(s)
  <2>4. s \ {x} \in SUBSET S /\ x \in S
    BY <2>3, WithoutFirst
  <2>5. F[s] = f[x] + F[s \ {x}] /\ G[s] = g[x] + G[s \ {x}] /\ H[s] = h[x] + H[s \ {x}]
    BY <2>3, SummingIs
  <2> HIDE DEF x, F, G, H
  <2>6. H[s \ {x}] = F[s \ {x}] + G[s \ {x}]
    BY <2>2, <2>3, <2>4 DEF x
  <2>7. /\ F[s \ {x}] \in Nat /\ G[s \ {x}] \in Nat
        /\ f[x] \in Nat /\ g[x] \in Nat /\ h[x] = f[x] + g[x]
    BY <1>0, <2>4
  <2>8. H[s] = F[s] + G[s]
    BY <2>5, <2>6, <2>7
  <2> QED
    BY <2>2, <2>8
<1>2. H[S] = F[S] + G[S]
  BY <1>1
<1> QED
  BY <1>2, TotalOf

LEMMA SumZero ==
  ASSUME NEW S, IsFiniteSet(S), NEW f, \A x \in S : f[x] = 0
  PROVE  Total(f, S) = 0
<1>1. \A x \in S : f[x] \in Nat /\ f[x] = f[x] + f[x]
  OBVIOUS
<1>2. Total(f, S) = Total(f, S) + Total(f, S)
  BY <1>1, SumAdded
<1>3. Total(f, S) \in Nat
  <2>1. Summing(f, S)[S] \in Nat
    BY <1>1, SumNat
  <2> QED
    BY <2>1, TotalOf
<1> HIDE DEF Total
<1>4. \A n \in Nat : n = n + n => n = 0
  OBVIOUS
<1> QED
  BY <1>2, <1>3, <1>4, Zenon

(***************************************************************************)
(* A report adds up.                                                       *)
(***************************************************************************)

\* The counters of the run are those of the suites together.
Tallied(j) ==
  /\ IsReport(j) /\ j.root \in [Counters -> Nat]
  /\ \A d \in Dirs : /\ j.suites[d].count \in [Counters -> Nat]
                     /\ j.suites[d].fields = {} => j.suites[d].count = Zero
  /\ \A c \in Counters : j.root[c] = Total([d \in Dirs |-> j.suites[d].count[c]], Dirs)

LEMMA FiniteSums == IsFiniteSet(Dirs) /\ IsFiniteSet(Outcomes)
<1>1. IsFiniteSet(Outcomes)
  <2>1. IsFiniteSet({"test_pass"})
    BY FS_Singleton
  <2>2. IsFiniteSet({"test_pass"} \cup {"test_fail"})
    BY <2>1, FS_AddElement
  <2>3. IsFiniteSet({"test_pass"} \cup {"test_fail"} \cup {"test_error"})
    BY <2>2, FS_AddElement
  <2>4. IsFiniteSet({"test_pass"} \cup {"test_fail"} \cup {"test_error"} \cup {"test_skip"})
    BY <2>3, FS_AddElement
  <2>5. IsFiniteSet({"test_pass"} \cup {"test_fail"} \cup {"test_error"} \cup {"test_skip"}
                    \cup {"test_warn"})
    BY <2>4, FS_AddElement
  <2> QED
    BY <2>5, Zenon DEF Outcomes
<1> QED
  BY <1>1, RunTestAssumption

\* A report with a suite replaced by one with the same counters.
LEMMA SameCounts ==
  ASSUME NEW j, Tallied(j), NEW d \in Dirs, NEW s, IsSuite(s), s.count = j.suites[d].count,
         s.fields = {} => j.suites[d].fields = {},
         NEW k, DOMAIN k = DOMAIN j, k.warned \in BOOLEAN, k.root = j.root,
         k.suites = [j.suites EXCEPT ![d] = s]
  PROVE  Tallied(k)
<1>1. /\ DOMAIN k.suites = Dirs /\ k.suites[d] = s
      /\ \A e \in Dirs : e # d => k.suites[e] = j.suites[e]
  BY DEF Tallied, IsReport
<1>2. IsReport(k)
  BY <1>1 DEF Tallied, IsReport
<1>3. \A e \in Dirs : /\ k.suites[e].count = j.suites[e].count
                      /\ k.suites[e].fields = {} => j.suites[e].fields = {}
  BY <1>1
<1>4. \A c \in Counters : [e \in Dirs |-> k.suites[e].count[c]] = [e \in Dirs |-> j.suites[e].count[c]]
  BY <1>3
<1> QED
  BY <1>2, <1>3, <1>4 DEF Tallied

LEMMA InitTallied ==
  ASSUME NEW j, Tallied(j), NEW d \in Dirs
  PROVE  LET k == initSuite(j, d) IN Tallied(k) /\ k.root = j.root /\ DOMAIN k = DOMAIN j
<1>1. CASE j.suites[d].fields = {}
  <2> DEFINE k == [j EXCEPT !.suites[d] = EMPTY_SUITE]
  <2>1. /\ DOMAIN k = DOMAIN j /\ k.warned \in BOOLEAN /\ k.root = j.root
        /\ k.suites = [j.suites EXCEPT ![d] = EMPTY_SUITE]
    BY DEF Tallied, IsReport
  <2>2. IsSuite(EMPTY_SUITE) /\ EMPTY_SUITE.count = Zero /\ j.suites[d].count = Zero
    BY <1>1 DEF EMPTY_SUITE, IsSuite, Tallied
  <2> HIDE DEF k
  <2>3. Tallied(k)
    BY <1>1, <2>1, <2>2, SameCounts
  <2> QED
    BY <1>1, <2>1, <2>3 DEF initSuite, k
<1>2. CASE j.suites[d].fields # {}
  BY <1>2 DEF initSuite
<1> QED
  BY <1>1, <1>2

LEMMA TimersTallied ==
  ASSUME NEW j, Tallied(j), NEW d \in Dirs, NEW file
  PROVE  LET k == stopTimer(startTimer(j, d, file), file) IN Tallied(k) /\ k.root = j.root
<1> DEFINE made == initSuite(j, d)
           s == [made.suites[d] EXCEPT !.files = @ \cup {file}, !.fields = @ \cup {"files"}]
           timed == startTimer(j, d, file)
           k == stopTimer(timed, file)
<1>1. Tallied(made) /\ made.root = j.root
  BY InitTallied
<1>2. timed = [made EXCEPT !.started = @ \cup {file}, !.suites[d].files = @ \cup {file},
                           !.suites[d].fields = @ \cup {"files"}]
  BY DEF startTimer
<1>3. k = [timed EXCEPT !.started = @ \ {file}]
  BY DEF stopTimer
<1> HIDE DEF made, timed, k
<1>4. /\ DOMAIN made = {"suites", "root", "started", "warned"} /\ made.warned \in BOOLEAN
      /\ IsSuite(made.suites[d]) /\ DOMAIN made.suites = Dirs
  BY <1>1 DEF Tallied, IsReport
<1>5. /\ DOMAIN timed = DOMAIN made /\ timed.warned = made.warned /\ timed.root = made.root
      /\ timed.suites = [made.suites EXCEPT ![d] = s]
  BY <1>2, <1>4 DEF IsSuite
<1>6. /\ DOMAIN k = DOMAIN made /\ k.warned \in BOOLEAN /\ k.root = made.root
      /\ k.suites = [made.suites EXCEPT ![d] = s]
  BY <1>3, <1>4, <1>5
<1>7. IsSuite(s) /\ s.count = made.suites[d].count /\ s.fields # {}
  BY <1>4 DEF IsSuite
<1> HIDE DEF s
<1>8. Tallied(k)
  BY <1>1, <1>6, <1>7, SameCounts
<1> QED
  BY <1>1, <1>6, <1>8 DEF k, timed

\* A counter is counted in the run and in the suite.
LEMMA RecordTallied ==
  ASSUME NEW j, Tallied(j), NEW d \in Dirs, NEW c \in Counters
  PROVE  LET k == record(j, d, c)
         IN  /\ Tallied(k) /\ k.root[c] = j.root[c] + 1
             /\ \A b \in Counters : b # c => k.root[b] = j.root[b]
<1> DEFINE s == [j.suites[d] EXCEPT !.count[c] = @ + 1, !.fields = @ \cup {c}]
           k == record(j, d, c)
<1>1. /\ DOMAIN j = {"suites", "root", "started", "warned"} /\ j.warned \in BOOLEAN
      /\ IsSuite(j.suites[d]) /\ DOMAIN j.suites = Dirs
      /\ j.root \in [Counters -> Nat] /\ j.suites[d].count \in [Counters -> Nat]
  BY DEF Tallied, IsReport
<1>2. /\ DOMAIN k = DOMAIN j /\ k.warned \in BOOLEAN
      /\ k.root = [j.root EXCEPT ![c] = @ + 1] /\ k.suites = [j.suites EXCEPT ![d] = s]
  BY <1>1 DEF record, IsSuite
<1> HIDE DEF k
<1>3. /\ IsSuite(s) /\ s.fields # {} /\ s.count = [j.suites[d].count EXCEPT ![c] = @ + 1]
  BY <1>1 DEF IsSuite
<1> HIDE DEF s
<1>4. /\ DOMAIN k.suites = Dirs /\ k.suites[d] = s
      /\ \A e \in Dirs : e # d => k.suites[e] = j.suites[e]
  BY <1>1, <1>2
<1>5. IsReport(k)
  BY <1>1, <1>2, <1>3, <1>4 DEF Tallied, IsReport
<1>6. s.count \in [Counters -> Nat] /\ k.root \in [Counters -> Nat]
  BY <1>1, <1>2, <1>3
<1>7. \A e \in Dirs : /\ k.suites[e].count \in [Counters -> Nat]
                      /\ k.suites[e].fields = {} => k.suites[e].count = Zero
  BY <1>3, <1>4, <1>6 DEF Tallied
<1>8. k.root[c] = j.root[c] + 1 /\ \A b \in Counters : b # c => k.root[b] = j.root[b]
  BY <1>1, <1>2
<1>9. ASSUME NEW b \in Counters
      PROVE  k.root[b] = Total([e \in Dirs |-> k.suites[e].count[b]], Dirs)
  <2> DEFINE f == [e \in Dirs |-> j.suites[e].count[b]]
             h == [e \in Dirs |-> k.suites[e].count[b]]
  <2>1. j.root[b] = Total(f, Dirs)
    BY DEF Tallied
  <2>2. CASE b = c
    <3>1. \A e \in Dirs : f[e] \in Nat /\ h[e] = f[e] + (IF e = d THEN 1 ELSE 0)
      <4> SUFFICES ASSUME NEW e \in Dirs
                   PROVE  f[e] \in Nat /\ h[e] = f[e] + (IF e = d THEN 1 ELSE 0)
        OBVIOUS
      <4>1. j.suites[e].count \in [Counters -> Nat]
        BY DEF Tallied
      <4>2. CASE e = d
        BY <1>1, <1>3, <1>4, <2>2, <4>2
      <4>3. CASE e # d
        BY <1>4, <4>1, <4>3
      <4> QED
        BY <4>2, <4>3
    <3> HIDE DEF f, h
    <3>2. Total(h, Dirs) = Total(f, Dirs) + 1
      BY <3>1, FiniteSums, SumCounted
    <3> QED
      BY <1>8, <2>1, <2>2, <3>2 DEF h
  <2>3. CASE b # c
    <3>1. \A e \in Dirs : k.suites[e].count[b] = j.suites[e].count[b]
      BY <1>1, <1>3, <1>4, <2>3
    <3>2. h = f
      BY <3>1
    <3> HIDE DEF f, h
    <3> QED
      BY <1>8, <2>1, <2>3, <3>2 DEF h
  <2> QED
    BY <2>2, <2>3
<1>10. Tallied(k)
  BY <1>5, <1>6, <1>7, <1>9 DEF Tallied
<1> QED
  BY <1>8, <1>10 DEF k

\* A result is counted, and one outcome of it.
LEMMA MarkTallied ==
  ASSUME NEW j, Tallied(j), j.root["test_total"] = Total(j.root, Outcomes),
         NEW d \in Dirs, NEW types
  PROVE  LET k == markTestAs(j, d, types)
         IN  /\ Tallied(k) /\ k.root["test_total"] = Total(k.root, Outcomes)
             /\ k.root["test_total"] = j.root["test_total"] + 1
<1>0. PICK o \in Outcomes : o = Outcome(types)
  BY DEF Outcome, Outcomes
<1>1. "test_total" \in Counters /\ Outcomes \subseteq Counters /\ "test_total" \notin Outcomes
  BY DEF Counters, Outcomes
<1>2. PICK counted : counted = record(j, d, "test_total")
  OBVIOUS
<1>3. /\ Tallied(counted) /\ counted.root["test_total"] = j.root["test_total"] + 1
      /\ \A b \in Counters : b # "test_total" => counted.root[b] = j.root[b]
  BY <1>1, <1>2, RecordTallied
<1> DEFINE s == [counted.suites[d] EXCEPT !.fields = @ \cup {"execution_time"}]
<1>4. PICK timed : timed = [counted EXCEPT !.suites[d].fields = @ \cup {"execution_time"}]
  OBVIOUS
<1>5. Tallied(timed) /\ timed.root = counted.root
  <2>1. /\ DOMAIN counted = {"suites", "root", "started", "warned"}
        /\ IsSuite(counted.suites[d]) /\ DOMAIN counted.suites = Dirs
        /\ counted.warned \in BOOLEAN
    BY <1>3 DEF Tallied, IsReport
  <2>2. /\ DOMAIN timed = DOMAIN counted /\ timed.warned \in BOOLEAN
        /\ timed.root = counted.root /\ timed.suites = [counted.suites EXCEPT ![d] = s]
    BY <1>4, <2>1
  <2>3. IsSuite(s) /\ s.count = counted.suites[d].count /\ s.fields # {}
    BY <2>1 DEF IsSuite
  <2> HIDE DEF s
  <2> QED
    BY <1>3, <2>2, <2>3, SameCounts
<1>6. PICK k : k = record(timed, d, o)
  OBVIOUS
<1>7. /\ Tallied(k) /\ k.root[o] = counted.root[o] + 1
      /\ \A b \in Counters : b # o => k.root[b] = counted.root[b]
  BY <1>1, <1>5, <1>6, RecordTallied
<1>8. k.root["test_total"] = j.root["test_total"] + 1
  BY <1>0, <1>1, <1>3, <1>7
<1>9. j.root \in [Counters -> Nat]
  BY DEF Tallied
<1>10. \A x \in Outcomes : /\ j.root[x] \in Nat
                           /\ k.root[x] = j.root[x] + (IF x = o THEN 1 ELSE 0)
  <2> SUFFICES ASSUME NEW x \in Outcomes
               PROVE  j.root[x] \in Nat /\ k.root[x] = j.root[x] + (IF x = o THEN 1 ELSE 0)
    OBVIOUS
  <2>1. x \in Counters /\ x # "test_total"
    BY <1>1
  <2>2. j.root[x] \in Nat /\ counted.root[x] = j.root[x]
    BY <1>3, <1>9, <2>1
  <2>3. CASE x = o
    BY <1>7, <2>2, <2>3
  <2>4. CASE x # o
    BY <1>7, <2>1, <2>2, <2>4
  <2> QED
    BY <2>3, <2>4
<1>11. Total(k.root, Outcomes) = Total(j.root, Outcomes) + 1
  <2> DEFINE f == j.root
             h == k.root
  <2>1. \A x \in Outcomes : f[x] \in Nat /\ h[x] = f[x] + (IF x = o THEN 1 ELSE 0)
    BY <1>10
  <2> HIDE DEF f, h
  <2>2. Total(h, Outcomes) = Total(f, Outcomes) + (IF o \in Outcomes THEN 1 ELSE 0)
    BY <2>1, FiniteSums, SumCounted
  <2> QED
    BY <1>0, <2>2 DEF f, h
<1>12. markTestAs(j, d, types) = k
  BY <1>0, <1>2, <1>4, <1>6 DEF markTestAs
<1> QED
  BY <1>7, <1>8, <1>11, <1>12

\* Two reports that add up make one that does.
LEMMA MergeTallied ==
  ASSUME NEW j, NEW k, Tallied(j), AddsUp(j), Tallied(k), AddsUp(k)
  PROVE  LET m == mergeResults(j, k)
         IN  Tallied(m) /\ AddsUp(m) /\ m.root["test_total"] = j.root["test_total"] + k.root["test_total"]
<1> DEFINE m == mergeResults(j, k)
<1>1. /\ DOMAIN m = DOMAIN j /\ m.warned = j.warned
      /\ m.suites = [d \in Dirs |-> mergeSuites(j.suites[d], k.suites[d])]
      /\ m.root = [c \in Counters |-> j.root[c] + k.root[c]]
  BY DEF mergeResults, Tallied, IsReport
<1> HIDE DEF m
<1>2. j.root \in [Counters -> Nat] /\ k.root \in [Counters -> Nat]
  BY DEF Tallied
<1>3. ASSUME NEW d \in Dirs
      PROVE  LET s == j.suites[d]
                 u == k.suites[d]
                 v == m.suites[d]
             IN  /\ IsSuite(v) /\ v.count \in [Counters -> Nat]
                 /\ v.fields = {} => v.count = Zero
                 /\ \A c \in Counters : v.count[c] = s.count[c] + u.count[c]
  <2> DEFINE s == j.suites[d]
             u == k.suites[d]
             v == m.suites[d]
  <2>1. /\ IsSuite(s) /\ s.count \in [Counters -> Nat] /\ (s.fields = {} => s.count = Zero)
        /\ IsSuite(u) /\ u.count \in [Counters -> Nat] /\ (u.fields = {} => u.count = Zero)
    BY DEF Tallied, IsReport
  <2>2. v = mergeSuites(s, u)
    BY <1>1
  <2>3. \A c \in Counters : Zero[c] = 0
    BY DEF Zero
  <2> HIDE DEF s, u, v
  <2>4. CASE u.fields = {}
    <3>1. v = s
      BY <2>2, <2>4 DEF mergeSuites
    <3> QED
      BY <2>1, <2>3, <2>4, <3>1 DEF s, u, v
  <2>5. CASE u.fields # {} /\ s.fields = {}
    <3>1. v = u
      BY <2>2, <2>5 DEF mergeSuites
    <3> QED
      BY <2>1, <2>3, <2>5, <3>1 DEF s, u, v
  <2>6. CASE u.fields # {} /\ s.fields # {}
    <3>1. v = [fields |-> s.fields \cup u.fields, files |-> s.files \cup u.files,
               count |-> [c \in Counters |-> s.count[c] + u.count[c]]]
      BY <2>2, <2>6 DEF mergeSuites
    <3>2. IsSuite(v) /\ v.fields # {} /\ v.count = [c \in Counters |-> s.count[c] + u.count[c]]
      BY <2>6, <3>1 DEF IsSuite
    <3> QED
      BY <2>1, <3>2 DEF s, u, v
  <2> QED
    BY <2>4, <2>5, <2>6
<1>4. IsReport(m)
  BY <1>1, <1>3 DEF Tallied, IsReport
<1>5. m.root \in [Counters -> Nat] /\ \A c \in Counters : m.root[c] = j.root[c] + k.root[c]
  BY <1>1, <1>2
<1>6. ASSUME NEW c \in Counters
      PROVE  m.root[c] = Total([d \in Dirs |-> m.suites[d].count[c]], Dirs)
  <2> DEFINE f == [d \in Dirs |-> j.suites[d].count[c]]
             g == [d \in Dirs |-> k.suites[d].count[c]]
             h == [d \in Dirs |-> m.suites[d].count[c]]
  <2>1. \A d \in Dirs : f[d] \in Nat /\ g[d] \in Nat /\ h[d] = f[d] + g[d]
    BY <1>3 DEF Tallied
  <2>2. j.root[c] = Total(f, Dirs) /\ k.root[c] = Total(g, Dirs)
    BY DEF Tallied
  <2> HIDE DEF f, g, h
  <2>3. Total(h, Dirs) = Total(f, Dirs) + Total(g, Dirs)
    BY <2>1, FiniteSums, SumAdded
  <2> QED
    BY <1>5, <2>2, <2>3 DEF h
<1>7. Tallied(m)
  BY <1>3, <1>4, <1>5, <1>6 DEF Tallied
<1>8. "test_total" \in Counters /\ Outcomes \subseteq Counters
  BY DEF Counters
<1>9. \A x \in Outcomes : j.root[x] \in Nat /\ k.root[x] \in Nat /\ m.root[x] = j.root[x] + k.root[x]
  BY <1>2, <1>5, <1>8
<1>10. Total(m.root, Outcomes) = Total(j.root, Outcomes) + Total(k.root, Outcomes)
  BY <1>9, FiniteSums, SumAdded
<1>11. m.root["test_total"] = Total(m.root, Outcomes)
  BY <1>5, <1>8, <1>10 DEF AddsUp
<1>12. AddsUp(m)
  BY <1>7, <1>11 DEF AddsUp, Tallied
<1> QED
  BY <1>5, <1>7, <1>8, <1>12 DEF m

LEMMA EmptyTallied ==
  Tallied(EmptyReport) /\ AddsUp(EmptyReport) /\ EmptyReport.root["test_total"] = 0
<1> DEFINE j == EmptyReport
<1>1. /\ DOMAIN j = {"suites", "root", "started", "warned"} /\ j.warned = FALSE
      /\ DOMAIN j.suites = Dirs /\ \A d \in Dirs : j.suites[d] = Absent
      /\ j.root = Zero
  BY DEF EmptyReport
<1>2. IsSuite(Absent) /\ Absent.count = Zero
  BY DEF Absent, IsSuite
<1>3. Zero \in [Counters -> Nat] /\ \A c \in Counters : Zero[c] = 0
  BY DEF Zero
<1>4. "test_total" \in Counters /\ Outcomes \subseteq Counters
  BY DEF Counters
<1> HIDE DEF j
<1>5. ASSUME NEW c \in Counters
      PROVE  j.root[c] = Total([d \in Dirs |-> j.suites[d].count[c]], Dirs)
  <2> DEFINE f == [d \in Dirs |-> j.suites[d].count[c]]
  <2>1. \A d \in Dirs : f[d] = 0
    BY <1>1, <1>2, <1>3
  <2> HIDE DEF f
  <2>2. Total(f, Dirs) = 0
    BY <2>1, FiniteSums, SumZero
  <2> QED
    BY <1>1, <1>3, <2>2 DEF f
<1>6. Total(j.root, Outcomes) = 0
  <2>1. \A x \in Outcomes : j.root[x] = 0
    BY <1>1, <1>3, <1>4
  <2> QED
    BY <2>1, FiniteSums, SumZero
<1>7. IsReport(j)
  BY <1>1, <1>2 DEF IsReport
<1>8. Tallied(j)
  BY <1>1, <1>2, <1>3, <1>5, <1>7 DEF Tallied
<1>9. AddsUp(j) /\ j.root["test_total"] = 0
  BY <1>1, <1>3, <1>4, <1>6, <1>8 DEF AddsUp, Tallied
<1> QED
  BY <1>8, <1>9 DEF j

\* Both reports add up, and together they have counted each run_test once.
TallyInv ==
  /\ Tallied(junit) /\ AddsUp(junit)
  /\ Tallied(merged) /\ AddsUp(merged) /\ (~worker => merged = EmptyReport)
  /\ IsFiniteSet(done)
  /\ Cardinality(done) = junit.root["test_total"] + merged.root["test_total"]

\* A run_test that returns is not over before.
LEMMA NewEntry ==
  ASSUME TriesInv, RedirectInv, UniqueInv, NEW n \in DOMAIN calls, calls[n].run.at # "next",
         n \in {1, Len(calls)}, NEW first, NEW types, NEW d
  PROVE  Entry(n, first, types, d) \notin done
<1> DEFINE e == Entry(n, first, types, d)
<1>1. /\ e.test = calls[n].run.test /\ e.only = calls[n].run.only /\ e.via = ViaOf(n)
  BY EntryOf
<1> HIDE DEF e
<1>2. CallsInv /\ Len(calls) \in {1, 2}
  BY CurrentCall DEF TriesInv, RedirectInv
<1>3. CASE n = 1
  <2>1. ~Over(e.test, None, e.only) /\ e.via = None
    BY <1>1, <1>3 DEF UniqueInv, OuterInv, Current, ViaOf
  <2>2. e \notin done
    BY <2>1 DEF Over
  <2> QED
    BY <2>2 DEF e
<1>4. CASE n = 2 /\ Len(calls) = 2
  <2>1. ~Over(e.test, calls[1].run.test, None) /\ e.only = None /\ e.via = calls[1].run.test
    BY <1>1, <1>4 DEF UniqueInv, InnerInv, Current, ViaOf
  <2>2. e \notin done
    BY <2>1 DEF Over
  <2> QED
    BY <2>2 DEF e
<1> QED
  BY <1>2, <1>3, <1>4

LEMMA TallyNext ==
  ASSUME TriesInv, RedirectInv, UniqueInv, TallyInv, [Next]_vars
  PROVE  TallyInv'
<1>1. worker' = worker
  BY OptionsKept
<1>2. TestDir \in Dirs => /\ Tallied(Timed(junit)) /\ AddsUp(Timed(junit))
                          /\ Timed(junit).root = junit.root
  <2> SUFFICES ASSUME TestDir \in Dirs
               PROVE  /\ Tallied(Timed(junit)) /\ AddsUp(Timed(junit))
                      /\ Timed(junit).root = junit.root
    OBVIOUS
  <2>1. PICK k : k = Timed(junit)
    OBVIOUS
  <2>2. Tallied(k) /\ k.root = junit.root
    BY <2>1, TimersTallied DEF TallyInv, Timed
  <2>3. AddsUp(k)
    BY <2>2 DEF TallyInv, AddsUp, Tallied
  <2> QED
    BY <2>1, <2>2, <2>3
<1>3. CASE ReportKept
  <2>1. PICK k : k = junit' /\ Tallied(k) /\ AddsUp(k) /\ k.root = junit.root
    BY <1>2, <1>3 DEF ReportKept, TallyInv
  <2>2. UNCHANGED <<done, merged>>
    BY <1>3 DEF ReportKept
  <2>3. Tallied(junit') /\ AddsUp(junit') /\ junit'.root = junit.root
    BY <2>1
  <2>4. PICK m : m = merged'
    OBVIOUS
  <2>5. Tallied(m) /\ AddsUp(m) /\ (~worker => m = EmptyReport) /\ IsFiniteSet(done)
    BY <2>2, <2>4, Zenon DEF TallyInv
  <2>6. Tallied(merged') /\ AddsUp(merged') /\ (~worker => merged' = EmptyReport)
    BY <2>4, <2>5
  <2>7. IsFiniteSet(done') /\ Cardinality(done') = junit'.root["test_total"] + merged'.root["test_total"]
    BY <2>2, <2>3, <2>5 DEF TallyInv
  <2> QED
    BY <1>1, <2>3, <2>6, <2>7, Zenon DEF TallyInv, Tallied, AddsUp, IsReport, IsSuite
<1>4. CASE ReportsReturn
  <2>1. PICK n, d, first, types, entries, j :
          /\ n \in DOMAIN calls /\ d \in Dirs /\ Before(j) /\ calls[n].run.at # "next" /\ n \in {1, Len(calls)}
          /\ ReturnFrom(n, first, types, entries, j, d)
    BY <1>4, Zenon DEF ReportsReturn
  <2>2. Tallied(j) /\ AddsUp(j) /\ j.root = junit.root
    <3>0. Before(j)
      BY <2>1, Zenon
    <3>1. CASE \E e \in Dirs : j = initSuite(junit, e)
      <4>1. Tallied(j) /\ j.root = junit.root
        BY <3>1, InitTallied DEF TallyInv
      <4> QED
        BY <4>1 DEF TallyInv, AddsUp, Tallied
    <3> QED
      BY <3>0, <3>1, <1>2, Zenon DEF Before, TallyInv
  <2>3. d \in Dirs /\ junit' = markTestAs(j, d, types) /\ UNCHANGED merged
    BY <2>1, Zenon DEF ReturnFrom
  <2>4. PICK k : k = markTestAs(j, d, types)
    OBVIOUS
  <2>5. /\ Tallied(k) /\ k.root["test_total"] = Total(k.root, Outcomes)
        /\ k.root["test_total"] = junit.root["test_total"] + 1
    BY <2>2, <2>3, <2>4, MarkTallied DEF AddsUp
  <2>6. AddsUp(k)
    BY <2>5 DEF AddsUp, Tallied
  <2> DEFINE e == Entry(n, first, types, d)
  <2>7. done' = done \cup {e} /\ e \notin done
    <3>1. done' = done \cup {e}
      BY <2>1, EntryMade, Zenon
    <3> QED
      BY <2>1, <3>1, NewEntry, Zenon
  <2> HIDE DEF e
  <2>8. IsFiniteSet(done') /\ Cardinality(done') = Cardinality(done) + 1
    BY <2>7, FS_AddElement DEF TallyInv
  <2>9. junit.root["test_total"] \in Nat /\ merged.root["test_total"] \in Nat
    BY DEF TallyInv, Tallied, Counters
  <2>10. Tallied(junit') /\ AddsUp(junit')
    BY <2>3, <2>4, <2>5, <2>6
  <2>11. PICK m : m = merged'
    OBVIOUS
  <2>12. m = merged
    BY <2>3, <2>11
  <2>13. Tallied(m) /\ AddsUp(m) /\ (~worker => m = EmptyReport)
    BY <2>12, Zenon DEF TallyInv
  <2>14. Tallied(merged') /\ AddsUp(merged') /\ (~worker => merged' = EmptyReport)
    BY <2>11, <2>13
  <2>15. Cardinality(done') = junit'.root["test_total"] + merged'.root["test_total"]
    BY <2>3, <2>4, <2>5, <2>8, <2>9, <2>11, <2>12 DEF TallyInv
  <2> QED
    BY <1>1, <2>14, <2>8, <2>10, <2>15, Zenon DEF TallyInv, Tallied, AddsUp, IsReport, IsSuite
<1>5. CASE TestsFinished
  <2>1. /\ worker /\ merged' = mergeResults(merged, junit) /\ junit' = EmptyReport
        /\ UNCHANGED done
    BY <1>5 DEF TestsFinished, Cleared
  <2>2. PICK m : m = mergeResults(merged, junit)
    OBVIOUS
  <2>3. /\ Tallied(m) /\ AddsUp(m)
        /\ m.root["test_total"] = merged.root["test_total"] + junit.root["test_total"]
    BY <2>2, MergeTallied DEF TallyInv
  <2>4. PICK k : k = EmptyReport /\ Tallied(k) /\ AddsUp(k) /\ k.root["test_total"] = 0
    BY EmptyTallied
  <2>5. junit.root["test_total"] \in Nat /\ merged.root["test_total"] \in Nat
    BY DEF TallyInv, Tallied, Counters
  <2>6. Tallied(merged') /\ AddsUp(merged') /\ Tallied(junit') /\ AddsUp(junit')
    BY <2>1, <2>2, <2>3, <2>4
  <2>7. Cardinality(done') = junit'.root["test_total"] + merged'.root["test_total"]
    BY <2>1, <2>2, <2>3, <2>4, <2>5 DEF TallyInv
  <2>8. IsFiniteSet(done')
    BY <2>1 DEF TallyInv
  <2> QED
    BY <1>1, <2>1, <2>6, <2>7, <2>8, Zenon DEF TallyInv, Tallied, AddsUp, IsReport, IsSuite
<1> QED
  BY <1>3, <1>4, <1>5, ReportSteps

\* If no list names a test that redirects both alone and with one of its tests: the report -
\* of a worker, with what the parent has merged of its batches - counts each run_test once, with one outcome,
\* in the run and in the suites.
THEOREM CountedOnce == ASSUME NamedOnce PROVE Spec => []ReportAddsUp
<1>1. Init => UniqueInv /\ TallyInv
  <2> SUFFICES ASSUME Init PROVE TallyInv
    BY UniqueInit
  <2>1. junit = EmptyReport /\ merged = EmptyReport /\ done = {}
    BY DEF Init
  <2> QED
    BY <2>1, EmptyTallied, FS_EmptySet DEF TallyInv
<1>2. TriesInv /\ RedirectInv /\ UniqueInv /\ TallyInv /\ [Next]_vars => UniqueInv' /\ TallyInv'
  BY UniqueNext, TallyNext
<1>3. TallyInv => ReportAddsUp
  <2> SUFFICES ASSUME TallyInv PROVE ReportAddsUp
    OBVIOUS
  <2>1. junit.root["test_total"] \in Nat /\ merged.root["test_total"] \in Nat
    BY DEF TallyInv, Tallied, Counters
  <2>2. CASE worker
    <3>1. PICK m : m = mergeResults(merged, junit)
      OBVIOUS
    <3>2. AddsUp(m) /\ m.root["test_total"] = merged.root["test_total"] + junit.root["test_total"]
      BY <3>1, MergeTallied DEF TallyInv
    <3>3. Whole = m
      BY <2>2, <3>1 DEF Whole
    <3> QED
      BY <2>1, <3>2, <3>3 DEF TallyInv, ReportAddsUp
  <2>3. CASE ~worker
    <3>1. Whole = junit /\ merged.root["test_total"] = 0
      BY <2>3, EmptyTallied DEF Whole, TallyInv
    <3> QED
      BY <2>1, <3>1 DEF TallyInv, ReportAddsUp
  <2> QED
    BY <2>2, <2>3
<1> QED
  BY <1>1, <1>2, <1>3, TriesInvariant, RedirectInvariant, PTL DEF Spec

(***************************************************************************)
(* Every process comes to its end: what each step uses up.                 *)
(***************************************************************************)

\* How far a run_test is from its end; it may be tried once more.
Sections(run) == IF run.at = "parse" THEN 4
                 ELSE IF run.at = "SKIPIF" THEN 3
                 ELSE IF run.at = "zlib" THEN 2
                 ELSE IF run.at \in {"judge", "redirected"} THEN 1
                 ELSE 0
Ahead(run) == Sections(run) + IF run.at \in {"parse", "SKIPIF", "zlib", "judge"} /\ ~run.retried
                              THEN 4 ELSE 0

\* What is left to do, from what is used up last to what is used up first.
Left == <<Cardinality(calls[1].todo), Ahead(calls[1].run),
          IF Len(calls) = 2 THEN Cardinality(calls[2].todo) ELSE 0,
          IF Len(calls) = 2 THEN Ahead(calls[2].run) ELSE 0,
          IF junit = EmptyReport THEN 0 ELSE 1,
          IF exit = None THEN 1 ELSE 0>>

\* Of two lists of numbers, the first that they differ in decides.
Lower(a, b) == \E n \in DOMAIN b : a[n] < b[n] /\ \A m \in 1 .. n - 1 : a[m] = b[m]

\* It is a number.
LEMMA AheadNat == ASSUME NEW run PROVE Ahead(run) \in Nat
BY DEF Ahead, Sections

\* The current test comes nearer to its end.
Advances == \E run : SetRun(run) /\ Ahead(run) < Ahead(Run)

\* Once it has chosen its program, its parsing is behind it.
LEMMA PrepareAdvances == ASSUME TriesInv, Prepare PROVE Advances
<1> DEFINE run == [Prepared EXCEPT !.at = IF t.SKIPIF = None THEN "zlib" ELSE "SKIPIF"]
<1>1. Run.at = "parse" /\ SetRun(run)
  BY DEF Prepare, At
<1>2. IsRun(Run)
  BY <1>1, AtWork
<1>3. run.at \in {"SKIPIF", "zlib"} /\ run.retried = Run.retried
  BY <1>2 DEF Prepared, IsRun, Locals
<1> HIDE DEF run
<1>4. Ahead(run) < Ahead(Run)
  BY <1>1, <1>3 DEF Ahead, Sections
<1> QED
  BY <1>1, <1>4 DEF Advances

\* And its SKIPIF once that has let it go on.
LEMMA AnswerAdvances ==
  ASSUME TriesInv, Run.at = "SKIPIF", NEW answer, AfterAnswer(answer),
         answer \notin {"skip", "junk"}
  PROVE  Advances
<1> DEFINE run == [Run EXCEPT !.at = "zlib", !.answer = answer, !.warn = (answer = "warn"),
                              !.XFAIL = @ \/ answer = "xfail",
                              !.flaky = @ \/ answer = "flaky"]
<1>1. SetRun(run)
  BY DEF AfterAnswer
<1>2. IsRun(Run)
  BY AtWork
<1>3. run.at = "zlib" /\ run.retried = Run.retried
  BY <1>2 DEF IsRun, Locals
<1> HIDE DEF run
<1>4. Ahead(run) < Ahead(Run)
  BY <1>3 DEF Ahead, Sections
<1> QED
  BY <1>1, <1>4 DEF Advances

\* Its program was run.
LEMMA ExecuteAdvances == ASSUME TriesInv, Execute PROVE Advances
<1>1. Run.at = "zlib"
  BY DEF Execute, ToRun, Ready, At
<1>2. IsRun(Run)
  BY <1>1, AtWork
<1>3. PICK passed \in BOOLEAN, leaked \in BOOLEAN, failed_headers \in BOOLEAN,
           flakyOutput \in BOOLEAN, cleanOutput \in BOOLEAN :
       /\ leaked => option.valgrind
       /\ failed_headers => t.EXPECTHEADERS
       /\ flakyOutput => ~passed
       /\ cleanOutput => t.CLEAN /\ ~option.no_clean
       /\ LET preloads == Run.preloads + (IF option.preload THEN 1 ELSE 0)
          IN  SetRun([Run EXCEPT !.at = "judge", !.preloads = preloads,
                !.tries = Append(@, <<Run.php, passed>>),
                !.passed = passed, !.leaked = leaked, !.failed_headers = failed_headers,
                !.flakyOutput = flakyOutput, !.cleanOutput = cleanOutput])
  BY Zenon DEF Execute
<1> DEFINE preloads == Run.preloads + (IF option.preload THEN 1 ELSE 0)
           run == [Run EXCEPT !.at = "judge", !.preloads = preloads,
                     !.tries = Append(@, <<Run.php, passed>>),
                     !.passed = passed, !.leaked = leaked, !.failed_headers = failed_headers,
                     !.flakyOutput = flakyOutput, !.cleanOutput = cleanOutput]
<1>4. run.at = "judge" /\ run.retried = Run.retried
  BY <1>2 DEF IsRun, Locals
<1>5. SetRun(run)
  BY <1>3
<1> HIDE DEF run
<1>6. Ahead(run) < Ahead(Run)
  BY <1>1, <1>4 DEF Ahead, Sections
<1> QED
  BY <1>5, <1>6 DEF Advances

\* It begins anew, but cannot do so again.
LEMMA RetryAdvances == ASSUME Retry PROVE Advances
<1> DEFINE run == [Idle EXCEPT !.test = Run.test, !.only = Run.only, !.at = "parse",
                     !.php = Run.php, !.orig_php = Run.orig_php, !.rr = Run.rr,
                     !.preloads = Run.preloads, !.retried = TRUE, !.tries = Run.tries]
<1>1. Run.at = "judge" /\ ~Run.retried /\ SetRun(run)
  BY DEF Retry, At, MayRetry
<1>2. run.at = "parse" /\ run.retried = TRUE
  BY DEF Idle
<1> HIDE DEF run
<1>3. Ahead(run) < Ahead(Run)
  BY <1>1, <1>2 DEF Ahead, Sections
<1> QED
  BY <1>1, <1>3 DEF Advances

\* All steps.
LEMMA StepsOn ==
  ASSUME TriesInv, [Next]_vars
  PROVE  NextTest \/ Advances \/ Returns \/ Redirect \/ RedirectEnds \/ TestsFinished
         \/ Summarize \/ UNCHANGED vars
<1>1. CASE Prepare \/ Execute \/ Retry
  BY <1>1, PrepareAdvances, ExecuteAdvances, RetryAdvances
<1>2. CASE SkipCached \/ CheckSkip
  <2>1. exit = None /\ Run.at = "SKIPIF" /\ UNCHANGED <<IN_REDIRECT, stuck>>
    BY <1>2 DEF SkipCached, CheckSkip, At, Running
  <2>2. PICK answer : AfterAnswer(answer)
    BY <1>2, Zenon DEF SkipCached, CheckSkip
  <2>3. CASE answer \in {"skip", "junk"}
    <3>1. \E report, d :
            \/ Return("SKIP", {"SKIP"}, {}, report, d)
            \/ Return("BORK", {"BORK"}, {"BORKED"}, report, d)
      <4>1. Skip(Timed(junit)) \/ Bork(Timed(junit))
        BY <2>2, <2>3 DEF AfterAnswer
      <4> QED
        BY <4>1, Zenon DEF Skip, Bork
    <3>2. \E first, types, entries, report, d :
            Return(first, types, entries, report, d) /\ Judged(Run, first, types, entries)
      BY <3>1, <2>1, JudgedEarly, Zenon
    <3> QED
      BY <2>1, <3>2 DEF Returns
  <2>4. CASE answer \notin {"skip", "junk"}
    BY <2>1, <2>2, <2>4, AnswerAdvances
  <2> QED
    BY <2>3, <2>4
<1>3. CASE \/ Unparsed \/ SkipTest \/ SkipExtensions \/ SkipZlib
           \/ RedirectEmpty \/ NoRedirection \/ EmptyRequest
  BY <1>3, EarlyReturns
<1>4. CASE BorkedByClean \/ Pass \/ Report
  BY <1>4, LateReturns
<1>5. CASE TestsFinished \/ Summarize \/ Ended \/ UNCHANGED vars
  BY <1>5 DEF Ended
<1> QED
  BY <1>1, <1>2, <1>3, <1>4, <1>5, Zenon DEF Next

\* The numbers of what is left.
LEMMA LeftTypes ==
  ASSUME IsFiniteSet(Tests), CallsInv, Len(calls) \in {1, 2}
  PROVE  /\ Left \in [1 .. 6 -> Nat]
         /\ \A n \in DOMAIN calls : IsFiniteSet(calls[n].todo)
<1>1. IsFiniteSet(Tests \X Test)
  <2>1. IsFiniteSet(Test)
    BY FS_AddElement DEF Test
  <2> QED
    BY <2>1, FS_Product
<1>2. \A n \in DOMAIN calls : IsFiniteSet(calls[n].todo)
  BY <1>1, FS_Subset DEF CallsInv, IsCall
<1>3. 1 \in DOMAIN calls /\ (Len(calls) = 2 => 2 \in DOMAIN calls)
  BY CurrentCall
<1>4. /\ Cardinality(calls[1].todo) \in Nat
      /\ Len(calls) = 2 => Cardinality(calls[2].todo) \in Nat
  BY <1>2, <1>3, FS_CardinalityType
<1>5. Ahead(calls[1].run) \in Nat /\ Ahead(calls[2].run) \in Nat
  BY AheadNat
<1> QED
  BY <1>2, <1>4, <1>5 DEF Left

\* One of the numbers falls, and those before it are as they were.
LEMMA Falls ==
  ASSUME NEW a, NEW b, DOMAIN b = 1 .. 6, NEW n \in 1 .. 6, a[n] < b[n],
         \A m \in 1 .. n - 1 : a[m] = b[m]
  PROVE  Lower(a, b)
BY DEF Lower

\* The six numbers.
LEMMA Numbers ==
  /\ DOMAIN Left = 1 .. 6
  /\ Left[1] = Cardinality(calls[1].todo) /\ Left[2] = Ahead(calls[1].run)
  /\ Left[3] = IF Len(calls) = 2 THEN Cardinality(calls[2].todo) ELSE 0
  /\ Left[4] = IF Len(calls) = 2 THEN Ahead(calls[2].run) ELSE 0
  /\ Left[5] = IF junit = EmptyReport THEN 0 ELSE 1
  /\ Left[6] = IF exit = None THEN 1 ELSE 0
BY DEF Left

\* And after a step.
LEMMA NumbersNext ==
  /\ Left'[1] = Cardinality(calls'[1].todo) /\ Left'[2] = Ahead(calls'[1].run)
  /\ Left'[3] = IF Len(calls') = 2 THEN Cardinality(calls'[2].todo) ELSE 0
  /\ Left'[4] = IF Len(calls') = 2 THEN Ahead(calls'[2].run) ELSE 0
  /\ Left'[5] = IF junit' = EmptyReport THEN 0 ELSE 1
  /\ Left'[6] = IF exit' = None THEN 1 ELSE 0
BY DEF Left

\* The run_test of a call comes nearer to its end, or to its return.
LEMMA AheadFalls ==
  ASSUME Len(calls) \in {1, 2}, NEW n \in 1 .. Len(calls), SameBelow(n),
         Ahead(calls'[n].run) < Ahead(calls[n].run)
  PROVE  Lower(Left', Left)
<1>1. CASE n = 1
  <2>1. calls'[1].todo = calls[1].todo
    BY <1>1 DEF SameBelow
  <2>2. Left'[2] < Left[2] /\ Left'[1] = Left[1]
    BY <1>1, <2>1, Numbers, NumbersNext
  <2>3. \A m \in 1 .. 2 - 1 : Left'[m] = Left[m]
    BY <2>2
  <2>4. DOMAIN Left = 1 .. 6
    BY Numbers
  <2> HIDE DEF Left
  <2> QED
    BY <2>2, <2>3, <2>4, Falls
<1>2. CASE n = 2
  <2>1. Len(calls) = 2 /\ Len(calls') = 2 /\ calls'[1] = calls[1] /\ calls'[2].todo = calls[2].todo
    BY <1>2 DEF SameBelow
  <2>2. Left'[4] < Left[4] /\ Left'[1] = Left[1] /\ Left'[2] = Left[2] /\ Left'[3] = Left[3]
    BY <1>2, <2>1, Numbers, NumbersNext
  <2>3. \A m \in 1 .. 4 - 1 : Left'[m] = Left[m]
    BY <2>2
  <2>4. DOMAIN Left = 1 .. 6
    BY Numbers
  <2> QED
    BY <2>2, <2>3, <2>4, Falls
<1> QED
  BY <1>1, <1>2

\* A test fewer is to be run.
LEMMA NextTestFalls ==
  ASSUME IsFiniteSet(Tests), CallsInv, Len(calls) \in {1, 2}, NextTest
  PROVE  Lower(Left', Left)
<1>1. PICK e \in Call.todo :
        /\ Len(calls') = Len(calls) /\ \A m \in 1 .. Len(calls) - 1 : calls'[m] = calls[m]
        /\ Call'.todo = Call.todo \ {e}
  BY NextTestEffect
<1>2. IsFiniteSet(Call.todo)
  BY LeftTypes, CurrentCall DEF Call
<1>3. /\ Cardinality(Call'.todo) = Cardinality(Call.todo) - 1
      /\ Cardinality(Call.todo) \in Nat
  BY <1>1, <1>2, FS_RemoveElement, FS_CardinalityType
<1>4. DOMAIN Left = 1 .. 6
  BY Numbers
<1>5. CASE Len(calls) = 1
  <2>0. Call = calls[1] /\ Call' = calls'[1]
    BY <1>1, <1>5 DEF Call
  <2>1. Left'[1] < Left[1]
    <3>1. Cardinality(calls'[1].todo) < Cardinality(calls[1].todo)
      BY <1>3, <2>0
    <3> QED
      BY <3>1, Numbers, NumbersNext
  <2>2. \A m \in 1 .. 1 - 1 : Left'[m] = Left[m]
    OBVIOUS
  <2> QED
    BY <1>4, <2>1, <2>2, Falls
<1>6. CASE Len(calls) = 2
  <2>1. calls'[1] = calls[1]
    BY <1>1, <1>6
  <2>0. Call = calls[2] /\ Call' = calls'[2]
    BY <1>1, <1>6 DEF Call
  <2>2. Left'[3] < Left[3] /\ Left'[1] = Left[1] /\ Left'[2] = Left[2]
    <3>1. Cardinality(calls'[2].todo) < Cardinality(calls[2].todo)
      BY <1>3, <2>0
    <3> QED
      BY <1>1, <1>6, <2>1, <3>1, Numbers, NumbersNext
  <2>3. \A m \in 1 .. 3 - 1 : Left'[m] = Left[m]
    BY <2>2
  <2> QED
    BY <1>4, <2>2, <2>3, Falls
<1> QED
  BY <1>5, <1>6

\* Every step lowers one of them, and leaves those before it.
LEMMA LeftStep ==
  ASSUME IsFiniteSet(Tests), TriesInv, RedirectInv, [Next]_vars
  PROVE  [Lower(Left', Left)]_vars
<1>1. CallsInv /\ DOMAIN calls = 1 .. Len(calls) /\ Len(calls) \in {1, 2}
  BY CurrentCall DEF TriesInv, RedirectInv
<1>2. /\ Len(calls) \in 1 .. Len(calls) /\ 1 \in 1 .. Len(calls)
      /\ Run = calls[Len(calls)].run
  BY <1>1 DEF Run, Call
<1>3. CASE NextTest
  BY <1>1, <1>3, NextTestFalls
<1>4. CASE Advances
  <2>1. PICK run : SetRun(run) /\ Ahead(run) < Ahead(Run)
    BY <1>4 DEF Advances
  <2>2. SameBelow(Len(calls)) /\ Run' = run
    BY <1>1, <2>1, SetRunEffect
  <2>3. calls'[Len(calls)].run = run
    BY <2>2 DEF SameBelow, Run, Call
  <2> QED
    BY <1>1, <1>2, <2>1, <2>2, <2>3, AheadFalls
<1>5. CASE Returns
  <2>1. PICK first, types, entries, report, d : Return(first, types, entries, report, d)
    BY <1>5, Zenon DEF Returns
  <2>2. SameBelow(Len(calls)) /\ calls'[Len(calls)].run = Idle
    BY <1>1, <1>2, <2>1, ReturnEffect DEF Return
  <2>3. Ahead(Idle) = 0 /\ Ahead(Run) > 0
    BY <1>5 DEF Ahead, Sections, Idle, Returns
  <2> QED
    BY <1>1, <1>2, <2>2, <2>3, AheadFalls
<1>6. CASE Redirect
  <2>1. Run.at = "zlib" /\ t.redirect = "TESTS"
    BY <1>6 DEF Redirect, Ready, At
  <2>2. Len(calls) = 1
    BY <1>1, <2>1, RedirectsOnce
  <2>3. calls'[1].todo = calls[1].todo /\ calls'[1].run.at = "redirected"
    BY <1>1, <1>6, <2>2, RedirectEffect
  <2>4. Ahead(calls'[1].run) = 1 /\ Ahead(calls[1].run) > 1
    BY <1>2, <2>1, <2>2, <2>3 DEF Ahead, Sections
  <2>5. Left'[2] < Left[2] /\ Left'[1] = Left[1]
    BY <2>3, <2>4, Numbers, NumbersNext
  <2>6. \A m \in 1 .. 2 - 1 : Left'[m] = Left[m]
    BY <2>5
  <2>7. DOMAIN Left = 1 .. 6
    BY Numbers
  <2> QED
    BY <2>5, <2>6, <2>7, Falls
<1>7. CASE RedirectEnds
  <2>1. /\ Len(calls) = 2
        /\ ReturnFrom(1, "REDIR", {"PASS"}, {}, junit, T[calls[1].run.test].dir)
    BY <1>7 DEF RedirectEnds
  <2>2. SameBelow(1) /\ calls'[1].run = Idle
    BY <1>1, <1>2, <2>1, ReturnEffect
  <2>3. calls[1].run.at = "redirected"
    BY <1>1, <2>1 DEF CallsInv
  <2>4. Ahead(Idle) = 0 /\ Ahead(calls[1].run) = 1
    BY <2>3 DEF Ahead, Sections, Idle
  <2> QED
    BY <1>1, <1>2, <2>2, <2>4, AheadFalls
<1>8. CASE TestsFinished
  <2>1. UNCHANGED <<calls, exit>> /\ junit # EmptyReport /\ junit' = EmptyReport
    BY <1>8 DEF TestsFinished, Cleared
  <2>2. Left'[5] < Left[5] /\ \A m \in 1 .. 4 : Left'[m] = Left[m]
    BY <2>1, Numbers, NumbersNext
  <2>3. \A m \in 1 .. 5 - 1 : Left'[m] = Left[m]
    BY <2>2
  <2>4. DOMAIN Left = 1 .. 6
    BY Numbers
  <2> QED
    BY <2>2, <2>3, <2>4, Falls
<1>9. CASE Summarize
  <2>1. UNCHANGED <<calls, junit>> /\ exit = None /\ exit' \in {0, 1}
    BY <1>9 DEF Summarize, AtTop, At, Running
  <2>2. exit' # None
    BY <2>1, RunTestAssumption
  <2>3. Left'[6] < Left[6] /\ \A m \in 1 .. 5 : Left'[m] = Left[m]
    BY <2>1, <2>2, Numbers, NumbersNext
  <2>4. \A m \in 1 .. 6 - 1 : Left'[m] = Left[m]
    BY <2>3
  <2>5. DOMAIN Left = 1 .. 6
    BY Numbers
  <2> QED
    BY <2>3, <2>4, <2>5, Falls
<1> QED
  BY <1>3, <1>4, <1>5, <1>6, <1>7, <1>8, <1>9, StepsOn

\* Every step of a process leaves less to do: no test is tried, redirected or reported
\* for ever, whatever the tests print and the SKIPIF scripts answer.
THEOREM EveryStepUsesUp ==
  ASSUME IsFiniteSet(Tests)
  PROVE  Spec => [](Left \in [1 .. 6 -> Nat]) /\ [][Lower(Left', Left)]_vars
<1>1. TriesInv /\ RedirectInv => Left \in [1 .. 6 -> Nat]
  <2> SUFFICES ASSUME TriesInv, RedirectInv PROVE Left \in [1 .. 6 -> Nat]
    OBVIOUS
  <2>1. CallsInv /\ Len(calls) \in {1, 2}
    BY DEF TriesInv, RedirectInv
  <2> QED
    BY <2>1, LeftTypes
<1>2. TriesInv /\ RedirectInv /\ [Next]_vars => [Lower(Left', Left)]_vars
  BY LeftStep
<1> QED
  BY <1>1, <1>2, TriesInvariant, RedirectInvariant, PTL DEF Spec
=============================================================================
