------------------------------ MODULE JUnitReport ------------------------------
(***************************************************************************)
(* The JUnit report of run-tests.php (class JUnit) when one is wanted:     *)
(* counters of the run and of each suite (a directory), and the test files *)
(* that each suite lists.  A suite is made by initSuite; a counter of a    *)
(* suite that was not made is a PHP warning and makes a part of one.       *)
(***************************************************************************)
EXTENDS Naturals, FiniteSets, FiniteSetsExt

CONSTANT Dirs   \* directories, each of them a suite

Outcomes == {"test_pass", "test_fail", "test_error", "test_skip", "test_warn"}
Counters == {"test_total", "execution_time"} \cup Outcomes
Fields == {"name", "files"} \cup Counters

Zero == [c \in Counters |-> 0]
Absent == [fields |-> {}, count |-> Zero, files |-> {}]
EMPTY_SUITE == [fields |-> Fields, count |-> Zero, files |-> {}]
\* suites, the counters of rootSuite, the running timers, and whether PHP has
\* warned of a field that is not there.
EmptyReport ==
  [suites |-> [d \in Dirs |-> Absent], root |-> Zero, started |-> {}, warned |-> FALSE]

initSuite(j, d) ==
  IF j.suites[d].fields = {} THEN [j EXCEPT !.suites[d] = EMPTY_SUITE] ELSE j

\* startTimer of a file whose timer does not run.
startTimer(j, d, file) ==
  LET made == initSuite(j, d)
  IN  [made EXCEPT !.started = @ \cup {file},
                   !.suites[d].files = @ \cup {file},
                   !.suites[d].fields = @ \cup {"files"}]
stopTimer(j, file) == [j EXCEPT !.started = @ \ {file}]

record(j, d, c) ==
  [j EXCEPT !.root[c] = @ + 1,
            !.suites[d].count[c] = @ + 1, !.suites[d].fields = @ \cup {c},
            !.warned = @ \/ c \notin j.suites[d].fields]

\* The counter of a result, of which a test may have several.
Outcome(types) ==
  CASE types \cap {"XFAIL", "XLEAK", "PASS"} # {} -> "test_pass"
    [] types = {"BORK"} -> "test_error"
    [] types = {"SKIP"} -> "test_skip"
    [] "FAIL" \in types -> "test_fail"
    [] "WARN" \in types -> "test_warn"
    [] OTHER -> "test_error"

\* markTestAs: the time is added to a counter, too, whatever it is.
markTestAs(j, d, types) ==
  LET counted == record(j, d, "test_total")
      timed == [counted EXCEPT !.suites[d].fields = @ \cup {"execution_time"}]
  IN  record(timed, d, Outcome(types))

\* mergeSuites and mergeResults.
mergeSuites(s, t) ==
  CASE t.fields = {} -> s
    [] t.fields # {} /\ s.fields = {} -> t
    [] OTHER -> [fields |-> s.fields \cup t.fields, files |-> s.files \cup t.files,
                 count |-> [c \in Counters |-> s.count[c] + t.count[c]]]
mergeResults(j, other) ==
  [j EXCEPT !.suites = [d \in Dirs |-> mergeSuites(j.suites[d], other.suites[d])],
            !.root = [c \in Counters |-> j.root[c] + other.root[c]]]

\* What a report adds up to: every test has one outcome, and the suites make up
\* the run.
Total(count, S) == MapThenSumSet(LAMBDA x : count[x], S)
AddsUp(j) ==
  /\ j.root["test_total"] = Total(j.root, Outcomes)
  /\ \A c \in Counters : j.root[c] = Total([d \in Dirs |-> j.suites[d].count[c]], Dirs)
Complete(j) == \A d \in Dirs : j.suites[d].fields \in {{}, Fields}
=============================================================================
