-------------------------- MODULE MCRunTestsParallel --------------------------
(* Small runs of RunTestsParallel: the lists of tests that the .cfg files   *)
(* give to the constants.                                                   *)
EXTENDS RunTestsParallelInv

CONSTANTS a1, a2, a3, ab, b1, free, s1, s2, redir, sub1, sub2

MCTest == {a1, a2, a3, ab, b1, free, s1, s2, redir, sub1, sub2}

MCRedirected == [t \in MCTest |-> IF t = redir THEN <<sub1, sub2>> ELSE <<>>]

MCConflicts ==
  [t \in MCTest |-> CASE t \in {a1, a2, a3, sub1} -> <<"A">>
                      [] t = ab -> <<"A", "B">>
                      [] t = b1 -> <<"B">>
                      [] t \in {s1, s2} -> <<"all">>
                      [] OTHER -> <<>>]

(* Two keys and a test with both, which waits for one key and then for the *)
(* other; two tests behind it that share a key; two that run alone.        *)
MixedList == <<b1, redir, ab, s1, a1, free, a2, a3, s2>>

(* Two tests that share a key, one that runs alone, a redirection.         *)
FaultList == <<a1, s1, a2, redir>>
===============================================================================
