------------------------------ MODULE TryStatement ------------------------------
(***************************************************************************)
(* What try, catch, finally, return, break and a destroyed generator mean, *)
(* statement by statement: Eval gives what a statement completes with and  *)
(* the expressions it evaluates, in order, when each expression does what  *)
(* did says.  It knows nothing of opcodes, and is what ZendExceptions is   *)
(* compared with.                                                          *)
(***************************************************************************)
EXTENDS Integers, Sequences, FiniteSets

(***************************************************************************)
(* Statements.  A label names an expression.  A switch holds the value of  *)
(* its subject until its end, where it is destroyed (label freed).         *)
(***************************************************************************)
ExprStmt(l) == [kind |-> "expr", label |-> l]
ReturnStmt(l) == [kind |-> "return", label |-> l]
YieldStmt(l) == [kind |-> "yield", label |-> l]
Break == [kind |-> "break", label |-> 0]
Call == [kind |-> "call", label |-> 0]
ReturnCall == [kind |-> "return call", label |-> 0]
Generator == [kind |-> "generator", label |-> 0]
Block(s, t) == [kind |-> "block", first |-> s, second |-> t]
Switch(l, freed, s) == [kind |-> "switch", label |-> l, freed |-> freed, body |-> s]
\* catches: a sequence of [class, body]; finally: the block, in a sequence, or none.
Try(s, catches, finally) ==
  [kind |-> "try", body |-> s, catches |-> catches, finally |-> finally]
CatchOf(class, s) == [class |-> class, body |-> s]

(***************************************************************************)
(* Completions: how, the exception with its previous ones, the trace.      *)
(***************************************************************************)
Completion(how, chain, trace) == [how |-> how, chain |-> chain, trace |-> trace]
Normal(trace) == Completion("normal", << >>, trace)
After(trace, c) == [c EXCEPT !.trace = trace \o @]

\* What the evaluation of the expression l completes with.
Evaluate(l, did) ==
  CASE did[l] = "ok"      -> Normal(<<l>>)
    [] did[l] = "destroy" -> Completion("close", << >>, <<l>>)
    [] did[l] = "exit"    -> Completion("exit", <<l>>, <<l>>)
    [] OTHER              -> Completion("throw", <<l>>, <<l>>)

\* A finally block that completed with f after r: it overrides what was pending,
\* and what it throws has the pending exception as its last previous one.
Finished(r, f) ==
  IF f.how = "normal" THEN [r EXCEPT !.trace = @ \o f.trace]
  ELSE After(r.trace, IF f.how = "throw" /\ r.how = "throw"
                      THEN [f EXCEPT !.chain = @ \o r.chain] ELSE f)

RECURSIVE Eval(_, _, _)
Eval(s, callee, did) ==
  CASE s.kind = "expr" -> Evaluate(s.label, did)
    [] s.kind = "yield" -> Evaluate(s.label, did)
    [] s.kind = "return" ->
         LET r == Evaluate(s.label, did)
         IN  IF r.how = "normal" THEN [r EXCEPT !.how = "return"] ELSE r
    [] s.kind = "break" -> Completion("break", << >>, << >>)
    [] s.kind \in {"call", "return call", "generator"} ->
         LET r == Eval(callee, callee, did)
         IN  IF r.how \in {"throw", "exit"} THEN r
             ELSE Completion(IF s.kind = "return call" THEN "return" ELSE "normal",
                             << >>, r.trace)
    [] s.kind = "block" ->
         LET r == Eval(s.first, callee, did)
         IN  IF r.how = "normal" THEN After(r.trace, Eval(s.second, callee, did))
             ELSE r
    [] s.kind = "switch" ->
         LET subject == Evaluate(s.label, did)
             r == After(subject.trace, Eval(s.body, callee, did))
             end == Evaluate(s.freed, did)
         IN  IF subject.how # "normal" THEN subject
             ELSE IF r.how \in {"normal", "break", "return"}
             THEN After(r.trace,
                        IF end.how # "normal" THEN end
                        ELSE IF r.how = "return" THEN [end EXCEPT !.how = "return"] ELSE end)
             ELSE r
    [] s.kind = "try" ->
         LET r == Eval(s.body, callee, did)
             match == {i \in DOMAIN s.catches :
                         r.how = "throw" /\ did[r.chain[1]] = s.catches[i].class}
             first == CHOOSE i \in match : \A j \in match : i <= j
             c == IF match = {} THEN r
                  ELSE After(r.trace, Eval(s.catches[first].body, callee, did))
         IN  IF s.finally = << >> \/ c.how = "exit" THEN c
             ELSE Finished(c, Eval(s.finally[1], callee, did))
=============================================================================
