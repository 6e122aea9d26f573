---------------------------- MODULE MCZendExceptions ----------------------------
(***************************************************************************)
(* Programs for TLC: try statements nested in each other, in switches and  *)
(* in callees, and generators.  A function runs each expression once.      *)
(***************************************************************************)
EXTENDS ZendExceptions, ZendCompile

Simple(l) == {ExprStmt(l), ReturnStmt(l)}
Tries(bodies, handlers, finals) ==
  {Try(b, <<CatchOf("A", c)>>, <<f>>) : b \in bodies, c \in handlers, f \in finals}
  \cup {Try(b, << >>, <<f>>) : b \in bodies, f \in finals}
  \cup {Try(b, <<CatchOf("A", c)>>, << >>) : b \in bodies, c \in handlers}

Flat(l) ==
  Tries(Simple(l + 1), Simple(l + 2), Simple(l + 3))
  \cup {Switch(l + 1, l + 2, s) : s \in Simple(l + 3) \cup {Break}}

Nested ==
  Tries(Flat(10), {ExprStmt(20)}, Simple(30))
  \cup Tries({ExprStmt(10)}, Flat(20), {ExprStmt(30)})
  \cup Tries(Simple(10), {ExprStmt(20)}, Flat(30))
  \cup {Switch(40, 41, s) : s \in Flat(10)}
  \cup {Switch(40, 41, Try(Break, << >>, <<s>>)) : s \in Flat(10)}
  \cup {Try(Try(ReturnStmt(10), << >>, <<s>>), << >>, <<ExprStmt(20)>>) : s \in Flat(30)}
  \cup {Try(ExprStmt(10), <<CatchOf("A", ExprStmt(11)), CatchOf("B", ReturnStmt(12))>>,
            <<ExprStmt(13)>>)}

Callers == Tries({Call, ReturnCall}, {ExprStmt(50)}, Simple(51))
Users == Tries({Block(Generator, ExprStmt(53))}, {ExprStmt(50)}, {ExprStmt(51)})

\* Suspended in a try block, in a finally block that something is pending in,
\* between two finally blocks, in a switch.
Generators ==
  {Block(Try(YieldStmt(1), << >>, <<ExprStmt(2)>>), ExprStmt(3)),
   Try(ReturnStmt(1), << >>, <<Block(YieldStmt(2), ExprStmt(3))>>),
   Try(Switch(1, 2, YieldStmt(3)), <<CatchOf("A", ExprStmt(4))>>, <<ReturnStmt(5)>>)}
  \cup {Try(Try(s, <<CatchOf("B", ExprStmt(4))>>, <<t>>), << >>, <<ExprStmt(5)>>) :
         s \in {YieldStmt(1), ReturnStmt(1)}, t \in {YieldStmt(2)} \cup Simple(2)}

Compiled(mains, callees) ==
  {[main |-> OpArrayOf(s), callee |-> OpArrayOf(t)] : s \in mains, t \in callees}
MCPrograms ==
  Compiled(Nested, {ExprStmt(99)}) \cup Compiled(Callers, Flat(60)) \cup Compiled(Users, Generators)

\* Three levels, which are too many programs to run: they are WellFormed as well.
Deeper ==
  Tries({ReturnStmt(70)}, {ExprStmt(71)}, Nested)
  \cup {Switch(90, 91, Try(ReturnStmt(92), << >>, <<s>>)) : s \in Nested}
ASSUME DeeperAssumption == \A s \in Deeper : WellFormed(OpArrayOf(s))

\* What the expressions did, and what the statements then mean.
Did == [l \in {log[i][1] : i \in DOMAIN log} |-> Outcome(<<l>>)]
Meaning == Eval(program.main.source, program.callee.source, Did)

\* The jumps through catch and finally blocks do what the statements mean: the
\* same expressions in the same order, each finally block once, and at the end
\* the same exception with the same previous ones - or none.
Structured ==
  pc = "done" =>
    /\ Meaning.trace = [i \in DOMAIN log |-> log[i][1]]
    /\ Meaning.chain = exception
=============================================================================
