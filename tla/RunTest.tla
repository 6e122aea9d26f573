-------------------------------- MODULE RunTest --------------------------------
(***************************************************************************)
(* The life of the tests of one process of run-tests.php: run_all_tests    *)
(* takes them one by one and run_test takes each through its sections,     *)
(* SKIPIF (with the skip cache), REDIRECTTEST (a nested run_all_tests),    *)
(* the program itself, CLEAN, a retry, and the classes of its result.  The *)
(* process is the parent, or a worker that sends results and JUnit reports *)
(* to the parent.  Durations (SLOW), texts and --show options are left out.*)
(*                                                                         *)
(* What a program does is chosen freely at every run of it; what a SKIPIF  *)
(* script answers is chosen when it first runs in given circumstances, and *)
(* is the same when it runs in them again.                                 *)
(***************************************************************************)
EXTENDS JUnitReport, Sequences

CONSTANTS
  Tests,      \* the test files
  T,          \* what each of them says: a function to records, see TestRecords
  Lists,      \* the lists of tests that are run: sets of <<test, None or inner test>>
  None,       \* no test, no script, no result
  ReadsEnv,   \* the SKIPIF scripts whose answer depends on the ENV section
  Options     \* what is installed and asked for, see OptionRecords

Scripts == {T[t].SKIPIF : t \in Tests} \ {None}
TestRecords ==
  [parses : BOOLEAN, dir : Dirs,
   sapi : {"cli", "cgi", "phpdbg"}, repeatable : BOOLEAN, zlib : BOOLEAN,
   extensions : {"none", "loaded", "missing"},
   SKIPIF : Scripts \cup {None}, ENV : BOOLEAN,   \* ENV sets what SKIPIF may ask for
   redirect : {"no", "TESTS", "empty"}, inner : SUBSET Tests,
   request : {"none", "body", "empty"},           \* POST_RAW, PUT
   CLEAN : BOOLEAN, EXPECTHEADERS : BOOLEAN, flaky : BOOLEAN,
   XFAIL : BOOLEAN, XLEAK : BOOLEAN]
OptionRecords ==
  [cgi : BOOLEAN, phpdbg : BOOLEAN, zlib : BOOLEAN, valgrind : BOOLEAN, preload : BOOLEAN,
   repeat : BOOLEAN, no_clean : BOOLEAN]
Answers == {"", "skip", "warn", "xfail", "flaky", "junk", "nocache"}
Results == {"PASSED", "WARNED", "SKIPPED", "FAILED", "BORKED", "LEAKED",
            "XFAILED", "XLEAKED", "REDIR"}

ASSUME RunTestAssumption ==
  /\ IsFiniteSet(Dirs)
  /\ None \notin Tests /\ None \notin Answers /\ None \notin {0, 1}
  /\ T \in [Tests -> TestRecords]
  /\ \A l \in Lists : l \subseteq Tests \X (Tests \cup {None})
  /\ \A u \in Tests : T[u].EXPECTHEADERS \/ T[u].request # "none" => T[u].sapi = "cgi"
  /\ Options \subseteq OptionRecords

VARIABLES
  option,       \* the options of this run
  worker,       \* whether the process is a worker
  calls,        \* run_all_tests and its nested call: the tests and the current run_test
  IN_REDIRECT,  \* the test whose redirection tests are run by, or None
  skips,        \* skipCache: <<command, directory, code>> to answer
  junit,        \* the report of this process
  merged,       \* what the parent has merged from a worker
  test_results, \* <<test, via, result>>, with the tests that redirect to them
  failed_tests, \* PHP_FAILED_TESTS: <<class, test, via>>
  exit,         \* the exit status, None before
  said,         \* history: <<script, command, directory, ENV>> to answer
  done,         \* history: what is known of the run_tests that are over
  stuck         \* history: a redirection had no TESTS

vars == <<option, worker, calls, IN_REDIRECT, skips, junit, merged, test_results, failed_tests,
          exit, said, done, stuck>>

\* run_all_tests before its first or after its last test.
Idle == [test |-> None, only |-> None, at |-> "next", php |-> "cli", orig_php |-> "cli",
         rr |-> FALSE, preloads |-> 0, retried |-> FALSE, warn |-> FALSE, XFAIL |-> FALSE,
         flaky |-> FALSE, answer |-> None, passed |-> FALSE, leaked |-> FALSE,
         failed_headers |-> FALSE, flakyOutput |-> FALSE, cleanOutput |-> FALSE,
         tries |-> <<>>]
Loop(tests) == [todo |-> tests, run |-> Idle]

Init ==
  /\ option \in Options /\ worker \in BOOLEAN
  /\ \E l \in Lists : calls = <<Loop(l)>>
  /\ IN_REDIRECT = None /\ exit = None /\ stuck = FALSE
  /\ junit = EmptyReport /\ merged = EmptyReport
  /\ skips = [k \in {} |-> ""] /\ said = [k \in {} |-> ""]
  /\ test_results = {} /\ failed_tests = {} /\ done = {}

\* Faulty variant: a worker without an error handler.
NeverAborted == FALSE

\* A warning in a worker is a php_error, on which the parent gives up.
Aborted == worker /\ junit.warned
Running == exit = None /\ ~Aborted

Call == calls[Len(calls)]
Run == Call.run
t == T[Run.test]
At(place) == Running /\ Run.at = place
SetRun(run) == calls' = [calls EXCEPT ![Len(calls)].run = run]

\* The directory of its files, and the suite it is reported in once it is parsed.
TestDir == IF IN_REDIRECT # None THEN T[IN_REDIRECT].dir ELSE t.dir
Command(php) == <<php, Run.rr, Run.preloads>>

(***************************************************************************)
(* The end of a run_test, and what run_all_tests does with its result.     *)
(* types are the classes of the result, report is what JUnit has before    *)
(* the test is marked in suite d; entries are those of PHP_FAILED_TESTS.   *)
(***************************************************************************)

ResultOf ==
  [PASS |-> "PASSED", WARN |-> "WARNED", SKIP |-> "SKIPPED", FAIL |-> "FAILED",
   BORK |-> "BORKED", LEAK |-> "LEAKED", XFAIL |-> "XFAILED", XLEAK |-> "XLEAKED",
   REDIR |-> "REDIR"]

\* What the parent is told or keeps: not the redirecting tests.
Kept(n, result) == calls[n].run.only = None /\ result # "REDIR"

\* The run_test of the n-th call of run_all_tests returns.
ReturnFrom(n, first, types, entries, report, d) ==
  LET run == calls[n].run
      via == IF n > 1 THEN calls[1].run.test ELSE None
      result == ResultOf[first]
  IN  /\ junit' = markTestAs(report, d, types)
      /\ calls' = [SubSeq(calls, 1, n) EXCEPT ![n].run = Idle]
      /\ test_results' = IF Kept(n, result) THEN test_results \cup {<<run.test, via, result>>}
                         ELSE test_results
      /\ failed_tests' =
           IF Kept(n, result) \/ ~worker
           THEN failed_tests \cup {<<e, run.test, via>> : e \in entries} ELSE failed_tests
      /\ done' = done \cup {[test |-> run.test, via |-> via, only |-> run.only,
                             result |-> result, types |-> types, dir |-> d, run |-> run]}
      /\ UNCHANGED <<option, worker, merged, exit>>

Return(first, types, entries, report, d) ==
  ReturnFrom(Len(calls), first, types, entries, report, d)

Skip(report) == Return("SKIP", {"SKIP"}, {}, report, TestDir)
Bork(report) == Return("BORK", {"BORK"}, {"BORKED"}, report, TestDir)

(***************************************************************************)
(* The sections before the program is run.                                 *)
(***************************************************************************)

NextTest ==
  /\ At("next")
  /\ \E e \in Call.todo :
       calls' = [calls EXCEPT ![Len(calls)] =
                   [todo |-> @.todo \ {e},
                    run |-> [Idle EXCEPT !.test = e[1], !.only = e[2], !.at = "parse"]]]
  /\ UNCHANGED <<option, worker, IN_REDIRECT, skips, junit, merged, test_results, failed_tests,
                 exit, said, done, stuck>>

\* A redirection from within a redirection is refused by the parser.
Refused == IN_REDIRECT # None /\ t.redirect # "no"

Unparsed ==
  /\ At("parse")
  /\ ~t.parses \/ Refused
  /\ Return("BORK", {"BORK"}, {"BORKED"}, junit, t.dir)
  /\ UNCHANGED <<IN_REDIRECT, skips, said, stuck>>

\* With --repeat neither of the other programs is used, nor a test with CLEAN or with
\* what makes it not repeatable: STDIN or CAPTURE_STDIO.
Unavailable ==
  \/ t.sapi = "cgi" /\ ~option.cgi
  \/ t.sapi = "phpdbg" /\ ~option.phpdbg
  \/ option.repeat /\ (~t.repeatable \/ t.CLEAN \/ t.sapi # "cli")

\* skip_test.
SkipTest ==
  /\ At("parse")
  /\ t.parses /\ ~Refused /\ Unavailable
  /\ Return("SKIP", {"SKIP"}, {}, initSuite(junit, t.dir), t.dir)
  /\ UNCHANGED <<IN_REDIRECT, skips, said, stuck>>

\* Faulty variant: the executable is chosen once.
ChosenOnce(run) == IF run.retried THEN run.orig_php ELSE t.sapi

\* The retry label: $php is still that of the first attempt, and CLI for the first.
Chosen(run) == IF t.sapi = "cli" THEN run.php ELSE t.sapi

\* The query for the extensions passes phpdbg's option to the CLI, which then
\* reports no extensions at all.
NotLoaded(run) ==
  \/ t.extensions = "missing"
  \/ IN_REDIRECT # None /\ T[IN_REDIRECT].extensions = "missing"
  \/ /\ t.extensions # "none" \/ (IN_REDIRECT # None /\ T[IN_REDIRECT].extensions # "none")
     /\ run.orig_php = "cli" /\ run.rr

Prepared ==
  [Run EXCEPT !.orig_php = Run.php, !.php = Chosen(Run), !.rr = (t.sapi = "phpdbg"),
              !.warn = FALSE, !.XFAIL = t.XFAIL, !.flaky = t.flaky]

Prepare ==
  /\ At("parse")
  /\ t.parses /\ ~Refused /\ ~Unavailable /\ ~NotLoaded(Prepared)
  /\ SetRun([Prepared EXCEPT !.at = IF t.SKIPIF = None THEN "zlib" ELSE "SKIPIF"])
  /\ UNCHANGED <<option, worker, IN_REDIRECT, skips, junit, merged, test_results, failed_tests,
                 exit, said, done, stuck>>

SkipExtensions ==
  /\ At("parse")
  /\ t.parses /\ ~Refused /\ ~Unavailable /\ NotLoaded(Prepared)
  /\ Return("SKIP", {"SKIP"}, {}, initSuite(junit, TestDir), TestDir)
  /\ UNCHANGED <<IN_REDIRECT, skips, said, stuck>>

Timed(report) == stopTimer(startTimer(report, TestDir, Run.test), Run.test)

\* Faulty variant: the directory is not part of the key.
CodeKey(command, dir, code) == <<command, code>>

\* Keyed by the directory, too, for scripts that require 'skipif.inc'.
CacheKey(command, dir, code) == <<command, dir, code>>

\* What the answer of a script depends on.
Asked(script, command, dir, env) == <<script, command, dir, env /\ script \in ReadsEnv>>

\* Where the script of t is run now.
Circumstances == Asked(t.SKIPIF, Command(Run.php), TestDir, t.ENV)

\* checkSkip, and what run_test makes of the answer.
AfterAnswer(answer) ==
  CASE answer = "skip" -> Skip(Timed(junit))
    [] answer = "junk" -> Bork(Timed(junit))
    [] OTHER ->
         /\ SetRun([Run EXCEPT !.at = "zlib", !.answer = answer, !.warn = (answer = "warn"),
                               !.XFAIL = @ \/ answer = "xfail",
                               !.flaky = @ \/ answer = "flaky"])
         /\ junit' = Timed(junit)
         /\ UNCHANGED <<option, worker, merged, exit, test_results, failed_tests, done>>

SkipCached ==
  LET key == CacheKey(Command(Run.php), TestDir, t.SKIPIF)
  IN  /\ At("SKIPIF") /\ key \in DOMAIN skips
      /\ AfterAnswer(skips[key])
      /\ UNCHANGED <<IN_REDIRECT, skips, said, stuck>>

CheckSkip ==
  LET key == CacheKey(Command(Run.php), TestDir, t.SKIPIF)
  IN  /\ At("SKIPIF") /\ key \notin DOMAIN skips
      /\ \E answer \in Answers :
           /\ Circumstances \in DOMAIN said => answer = said[Circumstances]
           /\ said' = [c \in DOMAIN said \cup {Circumstances} |->
                         IF c = Circumstances THEN answer ELSE said[c]]
           /\ skips' = IF answer = "nocache" THEN skips
                       ELSE [k \in DOMAIN skips \cup {key} |->
                               IF k = key THEN answer ELSE skips[k]]
           /\ AfterAnswer(IF answer = "nocache" THEN "" ELSE answer)
      /\ UNCHANGED <<IN_REDIRECT, stuck>>

(***************************************************************************)
(* Redirections.                                                           *)
(***************************************************************************)

\* The zlib check, for which no suite was made.
SkipZlib ==
  /\ At("zlib")
  /\ t.zlib /\ ~option.zlib
  /\ Skip(junit)
  /\ UNCHANGED <<IN_REDIRECT, skips, said, stuck>>
Ready == At("zlib") /\ (t.zlib => option.zlib)

\* The tests that the redirection runs: the one the list named, or all.
Redirect ==
  /\ Ready /\ t.redirect = "TESTS"
  /\ IN_REDIRECT' = Run.test
  /\ calls' = Append([calls EXCEPT ![1].run.at = "redirected"],
                     Loop({<<i, None>> : i \in IF Run.only # None THEN {Run.only} ELSE t.inner}))
  /\ UNCHANGED <<option, worker, skips, junit, merged, test_results, failed_tests, exit,
                 said, done, stuck>>

\* Faulty variant: the redirection is not ended.
StillRedirected == IN_REDIRECT

NotRedirected == None

RedirectEnds ==
  /\ At("next") /\ Len(calls) = 2 /\ Call.todo = {}
  /\ IN_REDIRECT' = NotRedirected
  /\ ReturnFrom(1, "REDIR", {"PASS"}, {}, junit, T[calls[1].run.test].dir)
  /\ UNCHANGED <<skips, said, stuck>>

\* Without TESTS the test is BORKED, and $IN_REDIRECT stays set.
RedirectEmpty ==
  /\ Ready /\ t.redirect = "empty"
  /\ IN_REDIRECT' = Run.test /\ stuck' = TRUE
  /\ Bork(junit)
  /\ UNCHANGED <<skips, said>>

NoRedirection ==
  /\ Ready /\ t.redirect = "no" /\ Run.only # None
  /\ Bork(junit)
  /\ UNCHANGED <<IN_REDIRECT, skips, said, stuck>>

(***************************************************************************)
(* The program, and its result.                                            *)
(***************************************************************************)

ToRun == Ready /\ t.redirect = "no" /\ Run.only = None

\* An empty POST_RAW or PUT: PHP_FAILED_TESTS has nothing of it.
EmptyRequest ==
  /\ ToRun /\ t.request = "empty"
  /\ Return("BORK", {"BORK"}, {}, junit, TestDir)
  /\ UNCHANGED <<IN_REDIRECT, skips, said, stuck>>

Execute ==
  /\ ToRun /\ t.request # "empty"
  /\ \E passed, leaked, failed_headers, flakyOutput, cleanOutput \in BOOLEAN :
       /\ leaked => option.valgrind
       /\ failed_headers => t.EXPECTHEADERS
       /\ flakyOutput => ~passed
       /\ cleanOutput => t.CLEAN /\ ~option.no_clean
       /\ LET preloads == Run.preloads + (IF option.preload THEN 1 ELSE 0)
          IN  SetRun([Run EXCEPT !.at = "judge", !.preloads = preloads,
                !.tries = Append(@, <<Run.php, passed>>),
                !.passed = passed, !.leaked = leaked, !.failed_headers = failed_headers,
                !.flakyOutput = flakyOutput, !.cleanOutput = cleanOutput])
  /\ junit' = Timed(junit)
  /\ UNCHANGED <<option, worker, IN_REDIRECT, skips, merged, test_results, failed_tests, exit,
                 said, done, stuck>>

\* Faulty variant: as often as it fails.
AnyRetry == ~Run.passed /\ (Run.flaky \/ Run.flakyOutput)

\* error_may_be_retried, once.
MayRetry == ~Run.passed /\ ~Run.retried /\ (Run.flaky \/ Run.flakyOutput)

\* Faulty variant: the label is above the line that sets $retried.
RetryAnew ==
  /\ At("judge") /\ MayRetry
  /\ SetRun([Idle EXCEPT !.test = Run.test, !.at = "parse"])
  /\ UNCHANGED <<option, worker, IN_REDIRECT, skips, junit, merged, test_results,
                 failed_tests, exit, said, done, stuck>>

\* goto retry: all is read again, but the locals keep their values until then.
Retry ==
  /\ At("judge") /\ MayRetry
  /\ SetRun([Idle EXCEPT !.test = Run.test, !.only = Run.only, !.at = "parse",
                         !.php = Run.php, !.orig_php = Run.orig_php, !.rr = Run.rr,
                         !.preloads = Run.preloads, !.retried = TRUE, !.tries = Run.tries])
  /\ UNCHANGED <<option, worker, IN_REDIRECT, skips, junit, merged, test_results, failed_tests, exit,
                 said, done, stuck>>

Clean == Run.passed /\ ~Run.leaked /\ ~Run.failed_headers

BorkedByClean ==
  /\ At("judge") /\ Clean /\ Run.cleanOutput
  /\ Bork(junit)
  /\ UNCHANGED <<IN_REDIRECT, skips, said, stuck>>

\* A test that passes although it should not, or only when tried again.
Unexpected == Run.XFAIL \/ t.XLEAK \/ Run.retried

Pass ==
  /\ At("judge") /\ Clean /\ ~Run.cleanOutput /\ ~Unexpected
  /\ Return("PASS", {"PASS"}, {}, junit, TestDir)
  /\ UNCHANGED <<IN_REDIRECT, skips, said, stuck>>

\* Faulty variant: a leak is reported instead of the failure.
LeakOnly ==
  LET one(present, class) == IF present THEN <<class>> ELSE <<>>
  IN  IF Run.leaked THEN <<IF t.XLEAK THEN "XLEAK" ELSE "LEAK">>
      ELSE one(Run.warn, "WARN") \o
           one(~Run.passed \/ Run.failed_headers, IF Run.XFAIL THEN "XFAIL" ELSE "FAIL")

\* $restype, of which the first is the result.
restype ==
  LET one(present, class) == IF present THEN <<class>> ELSE <<>>
  IN  one(Run.leaked, IF t.XLEAK THEN "XLEAK" ELSE "LEAK")
      \o one(Run.warn \/ Clean, "WARN")
      \o one(~Run.passed \/ Run.failed_headers,
             IF Run.XFAIL THEN "XFAIL" ELSE IF t.XLEAK THEN "XLEAK" ELSE "FAIL")

Report ==
  /\ At("judge") /\ ~MayRetry
  /\ Clean => ~Run.cleanOutput /\ Unexpected
  /\ LET types == {restype[i] : i \in DOMAIN restype}
     IN  Return(restype[1], types, {ResultOf[y] : y \in types}, junit, TestDir)
  /\ UNCHANGED <<IN_REDIRECT, skips, said, stuck>>

(***************************************************************************)
(* The end of a worker's batch, and of the run.                            *)
(***************************************************************************)

AtTop == At("next") /\ Len(calls) = 1

\* Faulty variant: the worker goes on with the report of the batch before.
NotCleared == junit

Cleared == EmptyReport

TestsFinished ==
  /\ AtTop /\ worker /\ junit # EmptyReport
  /\ merged' = mergeResults(merged, junit)
  /\ junit' = Cleared
  /\ UNCHANGED <<option, worker, calls, IN_REDIRECT, skips, test_results, failed_tests, exit,
                 said, done, stuck>>

\* Faulty variant: the classes of failures, as the summary lists them.
ExitOnFailed == \E r \in test_results : r[3] = "FAILED"

ExitOne == \E r \in test_results : r[3] \in {"FAILED", "BORKED", "LEAKED"}

Summarize ==
  /\ AtTop /\ Call.todo = {} /\ (worker => junit = EmptyReport)
  /\ exit' = IF ExitOne THEN 1 ELSE 0
  /\ UNCHANGED <<option, worker, calls, IN_REDIRECT, skips, junit, merged, test_results, failed_tests,
                 said, done, stuck>>

Ended == ~Running /\ UNCHANGED vars

Next ==
  \/ NextTest \/ Unparsed \/ SkipTest \/ Prepare \/ SkipExtensions
  \/ SkipCached \/ CheckSkip \/ SkipZlib
  \/ Redirect \/ RedirectEnds \/ RedirectEmpty \/ NoRedirection
  \/ EmptyRequest \/ Execute \/ Retry \/ BorkedByClean \/ Pass \/ Report
  \/ TestsFinished \/ Summarize \/ Ended

Spec == Init /\ [][Next]_vars /\ WF_vars(Next)

(***************************************************************************)
(* Properties.                                                             *)
(***************************************************************************)

RunRecords == DOMAIN Idle
TypeOK ==
  /\ option \in Options /\ worker \in BOOLEAN /\ stuck \in BOOLEAN
  /\ Len(calls) \in 1 .. 2
  /\ \A i \in 1 .. Len(calls) :
       /\ calls[i].todo \subseteq Tests \X (Tests \cup {None})
       /\ calls[i].run.php \in {"cli", "cgi", "phpdbg"} /\ calls[i].run.preloads \in 0 .. 2
       /\ calls[i].run.answer \in Answers \cup {None}
  /\ IN_REDIRECT \in Tests \cup {None}
  /\ \A k \in DOMAIN skips : skips[k] \in Answers
  /\ test_results \subseteq Tests \X (Tests \cup {None}) \X (Results \ {"REDIR"})
  /\ failed_tests \subseteq (Results \ {"PASSED", "REDIR"}) \X Tests \X (Tests \cup {None})
  /\ exit \in {None, 0, 1}

\* The result of a test whose program was run: what the last attempt showed.
Executed(d) == d.run.tries # <<>> /\ d.run.at = "judge"
Mismatch(d) == ~d.run.passed \/ d.run.failed_headers

\* The two returns of run_test that do not say in PHP_FAILED_TESTS that they are
\* BORKED: an empty POST_RAW (2324-2327) and an empty PUT (2355-2358).
EmptyBorked(run) ==
  run.at = "zlib" /\ run.only = None /\ T[run.test].redirect = "no"
  /\ T[run.test].request = "empty"

\* However a test comes to its result, a wrong output or a leak that nothing
\* announced is in PHP_FAILED_TESTS under its own name, PASSED means that the
\* program's last and only output was right, and a test whose result is not good
\* is listed under it (the classification at the end of run_test, after any
\* retry, for every SKIPIF answer): all but the tests BORKED for an empty request,
\* which the summary counts and never names.
FailuresListed ==
  \A d \in done : d.only = None /\ d.result # "REDIR" =>
    LET listed(class) == <<class, d.test, d.via>> \in failed_tests
    IN  /\ Executed(d) /\ Mismatch(d) /\ ~d.run.XFAIL /\ ~T[d.test].XLEAK => listed("FAILED")
        /\ Executed(d) /\ d.run.leaked /\ ~T[d.test].XLEAK => listed("LEAKED")
        /\ d.result = "PASSED" => /\ Executed(d) /\ ~Mismatch(d) /\ ~d.run.leaked
                                  /\ Len(d.run.tries) = 1
        /\ d.result \notin {"PASSED", "SKIPPED"} =>
             listed(d.result) \/ (d.result = "BORKED" /\ EmptyBorked(d.run))

\* Exit status 0 hides nothing but what a SKIPIF's "warn" was put before, and the
\* tests that the list named with their redirection.
ExitTruthful ==
  exit = 0 => \A d \in done : d.only = None =>
    /\ "BORK" \notin d.types /\ "LEAK" \notin d.types
    /\ "FAIL" \in d.types => d.run.answer = "warn"

\* A test was tried again only after a failure, once, and with the program of the
\* first attempt.
TriedAgain ==
  \A d \in done : /\ Len(d.run.tries) <= 2
                  /\ Len(d.run.tries) = 2 => ~d.run.tries[1][2]
                  /\ \A i \in DOMAIN d.run.tries : d.run.tries[i][1] = T[d.test].sapi

\* Every test of the list, and of a redirection, has one result at the end, and was
\* tried again only as it may be.
OneResult ==
  /\ \A d \in done : \A e \in done : d.test = e.test /\ d.via = e.via /\ d.only = e.only => d = e
  /\ \A r, s \in test_results : r[1] = s[1] /\ r[2] = s[2] => r = s
  /\ TriedAgain
  /\ exit # None => \A d \in done :
       d.only = None /\ d.result # "REDIR" => <<d.test, d.via, d.result>> \in test_results

\* A script's answers, at some time: what it gave in circumstances c was acted on.
Gave(answers, c, answer) ==
  c \in DOMAIN answers /\ answer = (IF answers[c] = "nocache" THEN "" ELSE answers[c])

\* The answer is what the script said to this command in this directory, in this ENV;
\* or, of a script whose answer depends on ENV, what it said in another one, unless
\* that was "nocache": the key of the cache has no ENV (3733).
SaidIn(answers, script, command, dir, env, answer) ==
  \/ Gave(answers, Asked(script, command, dir, env), answer)
  \/ /\ script \in ReadsEnv
     /\ \E e \in BOOLEAN : LET c == Asked(script, command, dir, e)
                          IN  Gave(answers, c, answer) /\ answers[c] # "nocache"

\* The answer a test acted on is what its own script said where it would have been
\* run: the same command and directory, and the same ENV.  Only the answer of a script
\* that depends on ENV may be that of another ENV, and only if the script let it be
\* kept, where it could have said "nocache" (3729-3734).
SkipFresh ==
  \A d \in done : Executed(d) /\ T[d.test].SKIPIF # None =>
    SaidIn(said, T[d.test].SKIPIF,
           <<d.run.php, d.run.rr, d.run.preloads - (IF option.preload THEN 1 ELSE 0)>>,
           d.dir, T[d.test].ENV, d.run.answer)

\* A test's files are written to its own directory unless a redirection runs it,
\* then to that of the redirecting test; until a redirection had no TESTS.
OwnDirectory ==
  ~stuck => \A d \in done : Executed(d) =>
    d.dir = T[IF d.via # None THEN d.via ELSE d.test].dir

\* The report counts each run_test once, with one outcome, in the run and in the
\* suites, over any batches of a worker.
Whole == IF worker THEN mergeResults(merged, junit) ELSE junit
ReportAddsUp ==
  AddsUp(Whole) /\ Whole.root["test_total"] = Cardinality(done)

\* What the parent merges is complete suites: a part of one is a PHP error first.
MergesComplete == Complete(merged)

\* The message of the parser (run-tests.php:3999): a redirection is refused when it
\* is run by another.
RefusedInside ==
  \A d \in done : d.run.at = "parse" /\ T[d.test].parses /\ T[d.test].redirect # "no"
                  /\ d.result = "BORKED" => d.via # None

\* Every run ends.
Terminates == <>~Running
=============================================================================
