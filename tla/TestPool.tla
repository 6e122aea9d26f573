------------------------------- MODULE TestPool -------------------------------
(***************************************************************************)
(* What a parallel test run promises, without its scheduler: a pool of     *)
(* pending tests, leased in batches to workers and handed back when the    *)
(* worker is done with them.  Two tests that conflict are never on lease   *)
(* to two workers at once, no test leaves the pool unless it is leased,    *)
(* and a run that ends well has leased every test.                         *)
(***************************************************************************)
EXTENDS FiniteSets

CONSTANTS
  Worker,        \* the workers
  Test,          \* the tests of the run
  Conflict(_, _) \* Conflict(t, u): t and u may not be on lease to two workers

VARIABLES
  pending,       \* tests nobody has been given yet
  leased,        \* worker -> tests it has been given and not handed back
  status         \* "running", "done" or "failed"

vars == <<pending, leased, status>>

Init == /\ pending = Test
        /\ leased = [w \in Worker |-> {}]
        /\ status = "running"

Lease(w, batch) ==
  /\ status = "running"
  /\ leased[w] = {}
  /\ batch # {}
  /\ \A v \in Worker \ {w} : \A t \in batch, u \in leased[v] : ~Conflict(t, u)
  /\ pending' = pending \ batch
  /\ leased' = [leased EXCEPT ![w] = batch]
  /\ UNCHANGED status

HandBack(w) ==
  /\ status = "running"
  /\ leased[w] # {}
  /\ leased' = [leased EXCEPT ![w] = {}]
  /\ UNCHANGED <<pending, status>>

Finish == /\ status = "running"
          /\ pending = {}
          /\ \A w \in Worker : leased[w] = {}
          /\ status' = "done"
          /\ UNCHANGED <<pending, leased>>

Fail == /\ status = "running"
        /\ status' = "failed"
        /\ UNCHANGED <<pending, leased>>

Next == \/ \E w \in Worker : \E batch \in SUBSET pending : Lease(w, batch)
        \/ \E w \in Worker : HandBack(w)
        \/ Finish
        \/ Fail

Spec == Init /\ [][Next]_vars
===============================================================================
