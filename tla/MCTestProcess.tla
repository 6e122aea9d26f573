----------------------------- MODULE MCTestProcess -----------------------------
(* Small runs of TestProcess: the calls that run-tests.php makes.          *)
EXTENDS TestProcess

(* A test: all streams with 2>&1 and some stdin, or what CAPTURE_STDIO     *)
(* asks for.                                                               *)
TestCalls ==
  {[captured |-> Stream, merged |-> TRUE, input |-> 2],
   [captured |-> {"in", "out"}, merged |-> FALSE, input |-> 1],
   [captured |-> {"err"}, merged |-> FALSE, input |-> 0]}

(* SKIPIF and CLEAN: all streams, no 2>&1, no stdin.                       *)
SkipCall == [captured |-> Stream, merged |-> FALSE, input |-> 0]

MCCalls == TestCalls \cup {SkipCall}

OnlySkipCall == {SkipCall}

-------------------------------------------------------------------------------
(* "Set timeout for individual tests, where <n> is the number of seconds"  *)
(* (run-tests.php:107): every call comes back.                             *)
Returns == <>(pc = "returned")

(* "Termsig=" (run-tests.php:1250): the number is that of the signal that  *)
(* ended the child.                                                        *)
TermsigIsSignal ==
  termsig # -1 /\ fate[child].signal > 0 => termsig = fate[child].signal

===============================================================================
