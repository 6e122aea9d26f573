------------------------------- MODULE ZendCompile -------------------------------
(***************************************************************************)
(* The op_array of a statement, as the handlers of zend_vm_def.h expect    *)
(* it: where catch, finally, FAST_CALL, FAST_RET and DISCARD_EXCEPTION     *)
(* stand, what the frees before a return are, and the live ranges of the   *)
(* temporaries.  The compiler itself (zend_compile.c) is not in this       *)
(* repository: the layout is the one that the handlers rely on.            *)
(***************************************************************************)
EXTENDS TryStatement

\* An opcode with no operands; the others change what they need.
Op(opcode) ==
  [opcode |-> opcode, label |-> 0, op1 |-> 0, op2 |-> 0, result |-> 0,
   target |-> 0, class |-> "none", flag |-> FALSE]

\* What has been compiled: opcodes, try_catch_array, number of temporaries, the
\* stack of what a jump out of here has to run or free, the enclosing try block.
Start == [ops |-> << >>, tcs |-> << >>, T |-> 0, loops |-> << >>, offset |-> 0]

Emit(c, op) == [c EXCEPT !.ops = Append(@, op)]
NextNumber(c) == Len(c.ops) + 1
NewTmp(c) == [c EXCEPT !.T = @ + 1]
Push(c, opcode, var, offset) ==
  [c EXCEPT !.loops = Append(@, [opcode |-> opcode, var |-> var, offset |-> offset])]
Leave(c) == [c EXCEPT !.loops = SubSeq(@, 1, Len(@) - 1)]

RECURSIVE Unwinding(_, _, _)
\* The opcodes of a return (to the bottom of the stack) or of a break (to the
\* innermost loop), from entry n of the stack down; value: the RETURN's operand.
Unwinding(loops, value, isReturn) ==
  IF loops = << >> THEN << >>
  ELSE LET top == loops[Len(loops)]
           rest == SubSeq(loops, 1, Len(loops) - 1)
       IN  CASE top.opcode = "FAST_CALL" ->
                  <<[Op("FAST_CALL") EXCEPT !.result = top.var, !.op2 = value,
                                            !.target = top.offset]>>
                  \o Unwinding(rest, value, isReturn)
             [] top.opcode = "DISCARD_EXCEPTION" ->
                  <<[Op("DISCARD_EXCEPTION") EXCEPT !.op1 = top.var]>>
                  \o Unwinding(rest, value, isReturn)
             [] top.opcode = "FREE" ->
                  IF isReturn
                  THEN <<[Op("FREE") EXCEPT !.op1 = top.var, !.flag = TRUE,
                                            !.label = top.offset]>>
                       \o Unwinding(rest, value, isReturn)
                  ELSE << >>

EmitAll(c, ops) == [c EXCEPT !.ops = @ \o ops]

InnermostLoop(c) ==
  c.loops[CHOOSE i \in DOMAIN c.loops : /\ c.loops[i].opcode = "FREE"
            /\ \A j \in i + 1 .. Len(c.loops) : c.loops[j].opcode # "FREE"].var

Result(c, op) == Emit(NewTmp(c), [op EXCEPT !.result = c.T + 1])

\* return with the value of the last opcode.
ReturnLast(c) ==
  EmitAll(c, Append(Unwinding(c.loops, c.T, TRUE), [Op("RETURN") EXCEPT !.op1 = c.T]))

\* Every opcode from n on that jumps out of the loop of var goes to its end.
PatchBreaks(c, n, var) ==
  [c EXCEPT !.ops = [i \in DOMAIN @ |->
     IF i >= n /\ @[i].opcode = "JMP" /\ @[i].op1 = var
     THEN [@[i] EXCEPT !.target = NextNumber(c), !.op1 = 0] ELSE @[i]]]

\* The jumps at the ends of try and catch blocks, to what follows them.
PatchEnds(c, tc) ==
  [c EXCEPT !.ops = [i \in DOMAIN @ |->
     IF @[i].opcode = "JMP" /\ @[i].op2 = tc
     THEN [@[i] EXCEPT !.target = NextNumber(c), !.op2 = 0] ELSE @[i]]]

RECURSIVE Compile(_, _), Catches(_, _, _)

Catches(c, catches, tc) ==
  IF catches = << >> THEN c
  ELSE LET last == Len(catches) = 1
           n == NextNumber(c)
           body == Compile(Head(catches).body,
                     Emit(c, [Op("CATCH") EXCEPT !.class = Head(catches).class, !.flag = last]))
           end == IF last THEN body ELSE Emit(body, [Op("JMP") EXCEPT !.op2 = tc])
       IN  Catches([end EXCEPT !.ops[n].target = NextNumber(end)], Tail(catches), tc)

Compile(s, c) ==
  CASE s.kind = "expr" -> Emit(c, [Op("DO_ICALL") EXCEPT !.label = s.label])
    [] s.kind = "yield" -> Emit(c, [Op("YIELD") EXCEPT !.label = s.label])
    [] s.kind = "call" -> Emit(c, Op("DO_UCALL"))
    [] s.kind = "generator" -> Emit(c, Op("RUN_GENERATOR"))
    [] s.kind = "return" -> ReturnLast(Result(c, [Op("DO_ICALL") EXCEPT !.label = s.label]))
    [] s.kind = "return call" -> ReturnLast(Result(c, Op("DO_UCALL")))
    [] s.kind = "break" ->
         EmitAll(c, Append(Unwinding(c.loops, 0, FALSE),
                           [Op("JMP") EXCEPT !.op1 = InnermostLoop(c)]))
    [] s.kind = "block" -> Compile(s.second, Compile(s.first, c))
    [] s.kind = "switch" ->
         LET subject == Result(c, [Op("DO_ICALL") EXCEPT !.label = s.label])
             body == Compile(s.body, Push(subject, "FREE", subject.T, s.freed))
             end == PatchBreaks(body, NextNumber(c), subject.T)
         IN  Leave(Emit(end, [Op("FREE") EXCEPT !.op1 = subject.T, !.label = s.freed]))
    [] s.kind = "try" ->
         LET tc == Len(c.tcs) + 1
             hasFinally == s.finally # << >>
             var == c.T + 1
             begin == [c EXCEPT !.tcs = Append(@, [try_op |-> NextNumber(c), catch_op |-> 0,
                                                   finally_op |-> 0, finally_end |-> 0]),
                                !.offset = tc]
             try == Compile(s.body, IF hasFinally THEN Push(NewTmp(begin), "FAST_CALL", var, tc)
                                    ELSE begin)
             jump == IF s.catches = << >> THEN try
                     ELSE Emit(try, [Op("JMP") EXCEPT !.op2 = tc])
             catch == Catches([jump EXCEPT !.tcs[tc].catch_op =
                                 IF s.catches = << >> THEN 0 ELSE NextNumber(jump)],
                              s.catches, tc)
             caught == PatchEnds(catch, tc)
             called == Emit(Emit(Leave(caught),
                         [Op("FAST_CALL") EXCEPT !.result = var, !.target = tc]),
                         [Op("JMP") EXCEPT !.op2 = tc])
             final == Leave(Compile(s.finally[1],
                        Push([called EXCEPT !.tcs[tc].finally_op = NextNumber(called)],
                             "DISCARD_EXCEPTION", var, 0)))
             ended == Emit([final EXCEPT !.tcs[tc].finally_end = NextNumber(final)],
                           [Op("FAST_RET") EXCEPT !.op1 = var, !.op2 = c.offset])
         IN  IF hasFinally THEN [PatchEnds(ended, tc) EXCEPT !.offset = c.offset]
             ELSE [caught EXCEPT !.offset = c.offset]

\* From the opcode after the one that makes the value up to the one that takes
\* it; a free on the way to a return is not the one.
LiveRanges(ops) ==
  {r \in {[var |-> ops[i].result, start |-> i + 1,
           end |-> CHOOSE j \in DOMAIN ops :
             /\ ops[j].op1 = ops[i].result
             /\ \/ ops[j].opcode = "RETURN"
                \/ ops[j].opcode = "FREE" /\ ~ops[j].flag] :
          i \in {k \in DOMAIN ops : ops[k].opcode \in {"DO_ICALL", "DO_UCALL"}
                                    /\ ops[k].result # 0}} :
     r.start # r.end}

\* A FAST_CALL gets the address of its block, and a function ends with RETURN.
OpArrayOf(s) ==
  LET c == Emit(Compile(s, Start), Op("RETURN"))
      ops == [i \in DOMAIN c.ops |->
                IF c.ops[i].opcode = "FAST_CALL"
                THEN [c.ops[i] EXCEPT !.target = c.tcs[@].finally_op] ELSE c.ops[i]]
  IN  [opcodes |-> ops, try_catch |-> c.tcs, T |-> c.T, live_range |-> LiveRanges(ops),
       source |-> s]
=============================================================================
