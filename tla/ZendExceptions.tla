----------------------------- MODULE ZendExceptions -----------------------------
(***************************************************************************)
(* How the virtual machine of the shipped PHP unwinds (zend_vm_def.h): an  *)
(* exception leaves an opcode, HANDLE_EXCEPTION looks up the innermost try *)
(* block, the dispatch helper walks the blocks outwards to a catch, into a *)
(* finally block, or out of the function; return and break call finally    *)
(* blocks like subroutines (FAST_CALL, FAST_RET), a return out of a        *)
(* finally block discards what was pending (DISCARD_EXCEPTION), and a      *)
(* generator that is destroyed runs the finally blocks it is suspended in. *)
(*                                                                         *)
(* One action is one opcode, or one block of the dispatch helper's loop.   *)
(* What an expression does is a choice made when it is executed, and log   *)
(* keeps the choices.  An exception is the sequence of the labels of its   *)
(* expressions: what was thrown, then its previous exceptions.  A          *)
(* temporary is undef, null (nothing to free) or live (a value to free).   *)
(*                                                                         *)
(* The destructors that may throw are those that FREE runs: where a loop   *)
(* ends, and at the end of an expression.  What DISCARD_EXCEPTION,         *)
(* cleanup_live_vars, FAST_RET, the dispatch helper and the destruction of *)
(* a generator free is taken to have destructors that do not.              *)
(***************************************************************************)
EXTENDS Integers, Sequences, FiniteSets

CONSTANTS
  Programs,  \* programs: function name -> op_array; "main" is run first
  Outcomes   \* what an expression may do, of "ok", "A", "B", "exit"

NoVar == 0        \* an operand that is IS_UNUSED
NoOp == 0         \* (uint32_t)-1 in the second half of a fast_call variable
Unset == -1       \* a fast_call variable that nothing has written
NoException == << >>
Value == {"undef", "null", "live"}

ASSUME OutcomesAssumption ==
  Outcomes \subseteq {"ok", "A", "B", "exit"} /\ "ok" \in Outcomes

\* The FREE of a loop variable on the way to a RETURN (ZEND_FREE_ON_RETURN).
OnReturn(op) == op.opcode = "FREE" /\ op.flag

\* The try blocks whose finally block op is in; its fast_call variable is op1 of the
\* FAST_RET at its end.
FinallyAround(op_array, op) ==
  {i \in DOMAIN op_array.try_catch :
     LET block == op_array.try_catch[i]
     IN  block.finally_op # 0 /\ block.finally_op <= op /\ op <= block.finally_end}
FastCallOf(op_array, i) == op_array.opcodes[op_array.try_catch[i].finally_end].op1

\* op goes on at an opcode that is there, and not into a finally block from outside.
Leads(op_array, op, to) ==
  /\ to \in DOMAIN op_array.opcodes
  /\ FinallyAround(op_array, to) \subseteq FinallyAround(op_array, op)

\* A function begins at 1 and ends with an opcode that does not go on to a next one.  A
\* finally block is entered by a FAST_CALL with its variable, or from its try block.
OpcodesInPlace(op_array) ==
  LET ops == op_array.opcodes
  IN  /\ 1 \in DOMAIN ops /\ 0 \notin DOMAIN ops
      /\ \A i \in DOMAIN ops :
           /\ ops[i].opcode \notin {"JMP", "RETURN", "FAST_RET"} => Leads(op_array, i, i + 1)
           /\ ops[i].opcode \in {"JMP", "CATCH"} => Leads(op_array, i, ops[i].target)
           /\ ops[i].opcode = "FAST_CALL" =>
                /\ ops[i].target \in DOMAIN ops /\ ops[i].result \in 1 .. op_array.T
                /\ \A b \in FinallyAround(op_array, ops[i].target) :
                     b \in FinallyAround(op_array, i) \/ FastCallOf(op_array, b) = ops[i].result
           /\ ops[i].opcode = "FAST_RET" =>
                /\ \E b \in FinallyAround(op_array, i) : FastCallOf(op_array, b) = ops[i].op1
                /\ ops[i].op2 = 0 \/ ops[i].op2 \in DOMAIN op_array.try_catch
                /\ ops[i].op2 # 0 => op_array.try_catch[ops[i].op2].try_op <= i

\* The try blocks are in the order in which they begin, and nest.
BlocksInPlace(op_array) ==
  LET tc == op_array.try_catch
  IN  /\ Len(tc) \in Nat /\ DOMAIN tc = 1 .. Len(tc) /\ op_array.T \in Nat
      /\ \A i \in DOMAIN tc :
           /\ {tc[i].try_op, tc[i].catch_op, tc[i].finally_op, tc[i].finally_end} \subseteq Nat
           /\ \A j \in 1 .. i : tc[j].try_op <= tc[i].try_op
           /\ tc[i].catch_op # 0 => Leads(op_array, tc[i].try_op, tc[i].catch_op)
           /\ tc[i].finally_op # 0 =>
                /\ 1 <= tc[i].try_op /\ tc[i].try_op < tc[i].finally_op
                /\ tc[i].finally_op \in DOMAIN op_array.opcodes
                /\ FastCallOf(op_array, i) \in 1 .. op_array.T
                /\ FinallyAround(op_array, tc[i].finally_op) \ {i}
                     \subseteq FinallyAround(op_array, tc[i].try_op)
      /\ \A r \in op_array.live_range :
           FinallyAround(op_array, r.end) \subseteq FinallyAround(op_array, r.start)

(***************************************************************************)
(* The values that an opcode finds.  A value is held from where it is made *)
(* to the opcode that takes it, but for what the frees on the way to a     *)
(* RETURN have released; and in a finally block waits the value of the     *)
(* RETURN that called it, until it is left or given up.                    *)
(***************************************************************************)
OnWayOut(op) == OnReturn(op) \/ op.opcode \in {"FAST_CALL", "DISCARD_EXCEPTION"}
Before(op_array, op) ==
  {i \in DOMAIN op_array.opcodes :
     i < op /\ \A j \in i .. op - 1 : OnWayOut(op_array.opcodes[j])}
Operands(op_array, ops) == {op_array.opcodes[i].op1 : i \in ops} \ {NoVar}

InRange(op_array, op) ==
  {r.var : r \in {q \in op_array.live_range : q.start <= op /\ op < q.end}}
Held(op_array, op) ==
  LET ops == op_array.opcodes
  IN  (InRange(op_array, op)
         \ Operands(op_array, {i \in Before(op_array, op) : OnReturn(ops[i])}))
      \cup Operands(op_array, {op} \cap {i \in DOMAIN ops : ops[i].opcode \in {"FREE", "RETURN"}})

\* The finally blocks around op that are not given up.
Inside(op_array, op) ==
  LET given == Operands(op_array, {i \in Before(op_array, op) :
                 op_array.opcodes[i].opcode = "DISCARD_EXCEPTION"})
  IN  {b \in FinallyAround(op_array, op) : FastCallOf(op_array, b) \notin given}

\* From i the machine goes on at to, with the same values but for those made and taken.
Hands(op_array, i, to, made, taken) ==
  /\ Held(op_array, to) = (Held(op_array, i) \ taken) \cup made
  /\ made \cap Held(op_array, i) = {} /\ taken \subseteq Held(op_array, i)
SameBlocks(op_array, i, to) == Inside(op_array, to) = Inside(op_array, i)
InTheOpen(op_array, i) ==
  Inside(op_array, i) = FinallyAround(op_array, i)

\* What an opcode finds is what was made before it: all of it is in a live range where it
\* may throw, but for what it takes; at a RETURN there is its operand and nothing else.
ValuesInPlace(op_array) ==
  LET ops == op_array.opcodes
      tc == op_array.try_catch
      Var(v) == {v} \ {NoVar}
  IN  /\ Held(op_array, 1) = {}
      /\ \A i \in DOMAIN ops :
           LET op == ops[i]
           IN  /\ Held(op_array, i) \subseteq 1 .. op_array.T
               /\ op.opcode \in {"DO_ICALL", "DO_UCALL", "CATCH", "YIELD", "RUN_GENERATOR"} =>
                    /\ op.result \in (IF op.opcode \in {"DO_ICALL", "DO_UCALL"}
                                      THEN 0 .. op_array.T ELSE {NoVar})
                    /\ Hands(op_array, i, i + 1, Var(op.result), {})
                    /\ SameBlocks(op_array, i, i + 1)
                    /\ Held(op_array, i) = InRange(op_array, i) /\ InTheOpen(op_array, i)
               /\ op.opcode \in {"JMP", "CATCH"} =>
                    Hands(op_array, i, op.target, {}, {}) /\ SameBlocks(op_array, i, op.target)
               /\ op.opcode = "FREE" =>
                    /\ op.result = NoVar /\ op.op1 # NoVar
                    /\ Hands(op_array, i, i + 1, {}, {op.op1}) /\ SameBlocks(op_array, i, i + 1)
                    /\ ~op.flag => InRange(op_array, i) = Held(op_array, i) \ {op.op1}
                                   /\ InTheOpen(op_array, i)
               /\ op.opcode = "RETURN" => Held(op_array, i) = Var(op.op1) /\ Inside(op_array, i) = {}
               /\ op.opcode = "DISCARD_EXCEPTION" =>
                    /\ Hands(op_array, i, i + 1, {}, {})
                    /\ \E b \in Inside(op_array, i) :
                         /\ FastCallOf(op_array, b) = op.op1
                         /\ Inside(op_array, i + 1) = Inside(op_array, i) \ {b}
               /\ op.opcode = "FAST_CALL" =>
                    /\ Hands(op_array, i, i + 1, {}, {}) /\ SameBlocks(op_array, i, i + 1)
                    /\ Hands(op_array, i, op.target, {}, Var(op.op2))
                    /\ \E b \in DOMAIN tc \ Inside(op_array, i) :
                         /\ tc[b].finally_op = op.target /\ FastCallOf(op_array, b) = op.result
                         /\ Inside(op_array, op.target) = Inside(op_array, i) \cup {b}
                         /\ \A j \in tc[b].finally_op .. tc[b].finally_end :
                              ops[j].opcode \in {"DO_ICALL", "DO_UCALL"} =>
                                ops[j].result \notin Var(op.op2)
               /\ op.opcode = "FAST_RET" =>
                    /\ Held(op_array, i) = InRange(op_array, i) /\ InTheOpen(op_array, i)
                    /\ \E b \in DOMAIN tc :
                         /\ tc[b].finally_end = i /\ FastCallOf(op_array, b) = op.op1
                         /\ Held(op_array, i) = Held(op_array, tc[b].finally_op)
                         /\ SameBlocks(op_array, i, tc[b].finally_op)
                         /\ b \in Inside(op_array, i)
                         /\ \A c \in Inside(op_array, i) : (c <= op.op2) <=> (c # b)

\* On the way to a RETURN the destructor of a loop variable throws at the end of its loop:
\* of what is held then, only the operand of the RETURN is not held there.
FreesInPlace(op_array) ==
  LET ops == op_array.opcodes
  IN  \A i \in DOMAIN ops : OnReturn(ops[i]) =>
        \A r \in op_array.live_range :
          r.var = ops[i].op1 /\ r.start <= i /\ i < r.end =>
            /\ Inside(op_array, i) = FinallyAround(op_array, r.end)
            /\ \E j \in DOMAIN ops \cap (i + 1 .. r.end - 1) :
                 /\ ops[j].opcode = "RETURN" /\ \A k \in i .. j - 1 : OnWayOut(ops[k])
                 /\ InRange(op_array, r.end)
                      = Held(op_array, i) \ {ops[i].op1, ops[j].op1}
                 /\ ops[j].op1 \in Held(op_array, i) \cup {NoVar} /\ ops[j].op1 # ops[i].op1

\* Live ranges and try blocks nest, and each finally block has its own variable.
RangesInPlace(op_array) ==
  LET ops == op_array.opcodes
      tc == op_array.try_catch
      Blocks == {b \in DOMAIN tc : tc[b].finally_op # 0}
  IN  /\ \A r \in op_array.live_range :
           /\ \A q \in op_array.live_range : q.var = r.var => q = r
           /\ \A b \in DOMAIN tc : \A to \in {tc[b].catch_op, tc[b].finally_op} \ {0} :
                r.start <= to /\ to < r.end => r.start <= tc[b].try_op
           /\ ops[r.end].opcode \in {"FREE", "RETURN"}
      /\ \A b \in DOMAIN tc \ Blocks : tc[b].finally_end = 0
      /\ \A b \in Blocks :
           /\ Held(op_array, tc[b].finally_op) = InRange(op_array, tc[b].finally_op)
           /\ InTheOpen(op_array, tc[b].finally_op)
           /\ ops[tc[b].finally_end].opcode = "FAST_RET"
           /\ tc[b].catch_op < tc[b].finally_op /\ tc[b].finally_op <= tc[b].finally_end
           /\ \A c \in Blocks : FastCallOf(op_array, b) = FastCallOf(op_array, c) => b = c
           /\ \A c \in DOMAIN tc : b < c =>
                LET last == IF tc[c].finally_op = 0 THEN tc[c].catch_op ELSE tc[c].finally_end
                IN  \/ last < tc[b].finally_op \/ tc[b].finally_end < tc[c].try_op
                    \/ tc[b].finally_op <= tc[c].try_op /\ last <= tc[b].finally_end

\* What the handlers rely on: a try block's catch_op is a CATCH, a CATCH that is not
\* the last of its block leads to the next one, a loop variable that is freed on the
\* way to a RETURN is in one of its live ranges; jumps, values and blocks as above.
WellFormed(op_array) ==
  LET ops == op_array.opcodes
  IN  /\ DOMAIN ops \subseteq Nat
      /\ \A i \in DOMAIN op_array.try_catch :
           LET catch_op == op_array.try_catch[i].catch_op
           IN  catch_op \in Nat /\ (catch_op # 0 => ops[catch_op].opcode = "CATCH")
      /\ \A i \in DOMAIN ops :
           /\ ops[i].opcode = "CATCH" /\ ~ops[i].flag => ops[ops[i].target].opcode = "CATCH"
           /\ OnReturn(ops[i]) =>
                \E r \in op_array.live_range : r.var = ops[i].op1 /\ r.start <= i /\ i < r.end
      /\ \A r \in op_array.live_range : r.start \in Nat /\ r.end \in Nat
      /\ OpcodesInPlace(op_array) /\ BlocksInPlace(op_array)
      /\ ValuesInPlace(op_array) /\ FreesInPlace(op_array) /\ RangesInPlace(op_array)

ASSUME ProgramsAssumption ==
  \A p \in Programs :
    /\ {"main", "callee"} \subseteq DOMAIN p
    /\ \A fn \in DOMAIN p : WellFormed(p[fn])

VARIABLES
  program,    \* the program that is run
  frames,     \* the call frames, the running one last
  suspended,  \* the frames of generators that are suspended (one at most)
  exception,  \* EG(exception)
  pc,         \* "run", "handle", "dispatch", "yielded" or "done"
  walk,       \* try_catch_offset and op_num of the dispatch helper
  log,        \* history: the expressions executed and what they did
  misuse      \* history: temporaries freed when undef, or not freed at all

vars == <<program, frames, suspended, exception, pc, walk, log, misuse>>

\* The running frame (execute_data), its op_array, its opcode.
EX == frames[Len(frames)]
OpArray(frame) == program[frame.fn]
opline == OpArray(EX).opcodes[EX.opline]

\* i_init_func_execute_data: a new frame at the first opcode.
NewFrame(fn, ret, gen) ==
  [fn |-> fn, opline |-> 1, ret |-> ret, gen |-> gen, forced |-> FALSE,
   tmp |-> [v \in 1 .. program[fn].T |-> "undef"],
   fast |-> [v \in 1 .. program[fn].T |-> [obj |-> NoException, ret |-> Unset]]]

SetTop(frame) == [frames EXCEPT ![Len(frames)] = frame]
Pop == SubSeq(frames, 1, Len(frames) - 1)
At(frame, op) == [frame EXCEPT !.opline = op]
NextOp(frame) == At(frame, frame.opline + 1)

\* zval_ptr_dtor on each of some variables of a frame, and what is wrong with it.
FreeVars(frame, vs) ==
  [frame EXCEPT !.tmp = [v \in DOMAIN @ |->
     IF v \in vs /\ @[v] = "live" THEN "undef" ELSE @[v]]]
FreedUndef(frame, vs) ==
  {<<"freed undef", frame.fn, v>> : v \in {w \in vs : frame.tmp[w] = "undef"}}
Leaked(frame) ==
  {<<"leaked", frame.fn, v>> : v \in {w \in DOMAIN frame.tmp : frame.tmp[w] = "live"}}

\* cleanup_live_vars: the temporaries that are live at op, but not at target.
LiveVars(frame, op, target) ==
  {r.var : r \in {q \in OpArray(frame).live_range :
     /\ q.start <= op /\ op < q.end
     /\ target = NoOp \/ target >= q.end}}

Logged(label, o) == Append(log, <<label, o>>)
IsUnwindExit(e) == e # NoException /\ \E i \in DOMAIN log : log[i] = <<e[1], "exit">>

Init ==
  /\ program \in Programs
  /\ frames = <<NewFrame("main", NoVar, FALSE)>>
  /\ suspended = << >>
  /\ exception = NoException
  /\ pc = "run"
  /\ walk = [offset |-> 0, op_num |-> 0]
  /\ log = << >>
  /\ misuse = {}

AtOpcode == EX.opline \in DOMAIN OpArray(EX).opcodes
Running(opcode) == pc = "run" /\ AtOpcode /\ opline.opcode = opcode

(***************************************************************************)
(* Opcodes that go on or throw.                                            *)
(***************************************************************************)

\* zend_rethrow_exception: the opcode of the frame is the one that threw.
ThrowAt(frame, e) ==
  /\ frames' = SetTop(frame)
  /\ exception' = e
  /\ pc' = "handle"

\* An expression with a result, or none: DO_ICALL stands for all of them.
DoICall ==
  /\ Running("DO_ICALL")
  /\ \E o \in Outcomes :
       LET ret == IF o = "ok" THEN "live" ELSE "null"
           f == IF opline.result = NoVar THEN EX
                ELSE [EX EXCEPT !.tmp[opline.result] = ret]
       IN  /\ log' = Logged(opline.label, o)
           /\ IF o = "ok"
              THEN /\ frames' = SetTop(NextOp(f))
                   /\ UNCHANGED <<exception, pc>>
              ELSE ThrowAt(f, <<opline.label>>)
  /\ UNCHANGED <<program, suspended, walk, misuse>>

\* FREE, FE_FREE: the destructor of the value may throw.
Free ==
  /\ Running("FREE")
  /\ misuse' = misuse \cup FreedUndef(EX, {opline.op1})
  /\ \E o \in Outcomes :
       LET f == FreeVars(EX, {opline.op1})
       IN  /\ log' = Logged(opline.label, o)
           /\ IF o = "ok"
              THEN /\ frames' = SetTop(NextOp(f))
                   /\ UNCHANGED <<exception, pc>>
              ELSE ThrowAt(f, <<opline.label>>)
  /\ UNCHANGED <<program, suspended, walk>>

Jmp ==
  /\ Running("JMP")
  /\ frames' = SetTop(At(EX, opline.target))
  /\ UNCHANGED <<program, suspended, exception, pc, walk, log, misuse>>

(***************************************************************************)
(* Calls and returns.                                                      *)
(***************************************************************************)

DoUCall ==
  /\ Running("DO_UCALL")
  /\ frames' = Append(frames, NewFrame("callee", opline.result, FALSE))
  /\ UNCHANGED <<program, suspended, exception, pc, walk, log, misuse>>

\* RETURN moves its operand to the caller's variable, or frees it when the
\* caller wants none; zend_leave_helper pops the frame.
Return ==
  /\ Running("RETURN") /\ ~EX.gen
  /\ LET f == IF opline.op1 = NoVar THEN EX ELSE [EX EXCEPT !.tmp[opline.op1] = "undef"]
         unread == IF opline.op1 = NoVar THEN {} ELSE FreedUndef(EX, {opline.op1})
         caller == frames[Len(frames) - 1]
     IN  /\ misuse' = misuse \cup unread \cup Leaked(f)
         /\ IF Len(frames) = 1
            THEN pc' = "done" /\ UNCHANGED frames
            ELSE /\ pc' = "run"
                 /\ frames' = Append(SubSeq(frames, 1, Len(frames) - 2),
                      NextOp(IF EX.ret = NoVar THEN caller
                             ELSE [caller EXCEPT !.tmp[EX.ret] = "live"]))
  /\ UNCHANGED <<program, suspended, exception, walk, log>>

(***************************************************************************)
(* catch and finally.                                                      *)
(***************************************************************************)

Outcome(e) == log[CHOOSE i \in DOMAIN log : log[i][1] = e[1]][2]

\* Faulty variant: the caught exception stays in EG(exception).
CatchKept ==
  /\ Running("CATCH")
  /\ \/ /\ exception = NoException
        /\ frames' = SetTop(At(EX, opline.target))
        /\ UNCHANGED pc
     \/ /\ exception # NoException /\ Outcome(exception) = opline.class
        /\ frames' = SetTop(NextOp(EX))
        /\ UNCHANGED pc
     \/ /\ exception # NoException /\ Outcome(exception) # opline.class
        /\ IF opline.flag
           THEN pc' = "handle" /\ UNCHANGED frames
           ELSE frames' = SetTop(At(EX, opline.target)) /\ UNCHANGED pc
  /\ UNCHANGED <<program, suspended, exception, walk, log, misuse>>

\* CATCH takes the exception, passes it on to the next CATCH, or - the last of
\* its block - throws it again from here.
Catch ==
  /\ Running("CATCH")
  /\ \/ /\ exception = NoException
        /\ frames' = SetTop(At(EX, opline.target))
        /\ UNCHANGED <<exception, pc>>
     \/ /\ exception # NoException /\ Outcome(exception) = opline.class
        /\ exception' = NoException
        /\ frames' = SetTop(NextOp(EX))
        /\ UNCHANGED pc
     \/ /\ exception # NoException /\ Outcome(exception) # opline.class
        /\ IF opline.flag
           THEN pc' = "handle" /\ UNCHANGED frames
           ELSE frames' = SetTop(At(EX, opline.target)) /\ UNCHANGED pc
        /\ UNCHANGED exception
  /\ UNCHANGED <<program, suspended, walk, log, misuse>>

FastCall ==
  /\ Running("FAST_CALL")
  /\ frames' = SetTop(At([EX EXCEPT !.fast[opline.result] =
                            [obj |-> NoException, ret |-> EX.opline]], opline.target))
  /\ UNCHANGED <<program, suspended, exception, pc, walk, log, misuse>>

FastRet ==
  /\ Running("FAST_RET")
  /\ LET fast_call == EX.fast[opline.op1]
     IN  \/ /\ fast_call.ret # NoOp
            /\ frames' = SetTop(At(EX, fast_call.ret + 1))
            /\ UNCHANGED <<exception, pc, walk>>
         \/ /\ fast_call.ret = NoOp
            /\ exception' = fast_call.obj
            /\ frames' = SetTop([EX EXCEPT !.fast[opline.op1].obj = NoException])
            /\ walk' = [offset |-> opline.op2, op_num |-> EX.opline]
            /\ pc' = "dispatch"
  /\ UNCHANGED <<program, suspended, log, misuse>>

\* Faulty variant: the value of an abandoned RETURN is forgotten.
NothingPending(frame, fast_call) == {}

\* The value of the RETURN that called the finally block of fast_call.
PendingReturn(frame, fast_call) ==
  IF fast_call.ret = NoOp THEN {}
  ELSE {OpArray(frame).opcodes[fast_call.ret].op2} \ {NoVar}

\* The pending return and the pending exception are given up, without the exceptions
\* that their destructors could throw.
DiscardException ==
  /\ Running("DISCARD_EXCEPTION")
  /\ LET pending == PendingReturn(EX, EX.fast[opline.op1])
     IN  /\ misuse' = misuse \cup FreedUndef(EX, pending)
         /\ frames' = SetTop(NextOp([FreeVars(EX, pending) EXCEPT
                                       !.fast[opline.op1].obj = NoException]))
  /\ UNCHANGED <<program, suspended, exception, pc, walk, log>>

(***************************************************************************)
(* HANDLE_EXCEPTION.                                                       *)
(***************************************************************************)

\* A destructor of a loop variable that is freed on the way to a RETURN throws
\* at the end of the loop; the RETURN after the frees loses its operand.
LoopRange(frame) ==
  CHOOSE r \in OpArray(frame).live_range :
    /\ r.var = OpArray(frame).opcodes[frame.opline].op1
    /\ r.start <= frame.opline /\ frame.opline < r.end

FreedReturn(frame) ==
  LET ops == OpArray(frame).opcodes
      range == LoopRange(frame)
      others == {i \in frame.opline .. range.end - 1 : ops[i].opcode # "FREE"}
      first == CHOOSE i \in others : \A j \in others : i <= j
  IN  IF others # {} /\ ops[first].opcode = "RETURN" THEN {ops[first].op1} \ {NoVar} ELSE {}

\* The innermost try block around op: the last one that starts before it and
\* has not ended.
Innermost(frame, op) ==
  LET tc == OpArray(frame).try_catch
      around == {i \in DOMAIN tc : /\ tc[i].try_op <= op
                                   /\ op < tc[i].catch_op \/ op < tc[i].finally_end}
  IN  IF around = {} THEN 0 ELSE CHOOSE i \in around : \A j \in around : j <= i

\* Faulty variant: the destructor of a loop variable throws inside its loop.
HandleInPlace ==
  /\ pc = "handle" /\ AtOpcode
  /\ LET result == {opline.result} \ {NoVar}
     IN  /\ misuse' = misuse \cup FreedUndef(EX, result)
         /\ frames' = SetTop(FreeVars(EX, result))
         /\ walk' = [offset |-> Innermost(EX, EX.opline), op_num |-> EX.opline]
  /\ pc' = "dispatch"
  /\ UNCHANGED <<program, suspended, exception, log>>

HandleException ==
  /\ pc = "handle" /\ AtOpcode
  /\ LET loop == OnReturn(opline)
         throw_op_num == IF loop THEN LoopRange(EX).end ELSE EX.opline
         unreturned == IF loop THEN FreedReturn(EX) ELSE {}
         result == {opline.result} \ {NoVar}
     IN  /\ misuse' = misuse \cup FreedUndef(EX, unreturned \cup result)
         /\ frames' = SetTop(FreeVars(EX, unreturned \cup result))
         /\ walk' = [offset |-> Innermost(EX, throw_op_num), op_num |-> throw_op_num]
  /\ pc' = "dispatch"
  /\ UNCHANGED <<program, suspended, exception, log>>

(***************************************************************************)
(* zend_dispatch_try_catch_finally_helper, one block at a time.            *)
(***************************************************************************)

try_catch == OpArray(EX).try_catch[walk.offset]
Outwards == walk' = [walk EXCEPT !.offset = @ - 1]
InBlocks == pc = "dispatch" /\ walk.offset \in DOMAIN OpArray(EX).try_catch
\* Faulty variant: a CATCH that throws again catches its own exception.
CatchHere == walk.op_num <= try_catch.catch_op /\ exception # NoException
CatchAhead == walk.op_num < try_catch.catch_op /\ exception # NoException
FinallyAhead == walk.op_num < try_catch.finally_op
InFinally == ~FinallyAhead /\ walk.op_num < try_catch.finally_end

\* cleanup_live_vars and the jump to the block at op.
JumpTo(frame, op) ==
  LET dead == LiveVars(frame, walk.op_num, op)
  IN  /\ misuse' = misuse \cup FreedUndef(frame, dead)
      /\ frames' = SetTop(At(FreeVars(frame, dead), op))
      /\ pc' = "run"

GoToCatch ==
  /\ InBlocks /\ CatchAhead
  /\ JumpTo(EX, try_catch.catch_op)
  /\ UNCHANGED <<program, suspended, exception, walk, log>>

\* The fast_call variable of the block: op1 of the FAST_RET at its end.
FastCallVar == OpArray(EX).opcodes[try_catch.finally_end].op1

SkipFinally ==
  /\ InBlocks /\ ~CatchAhead /\ FinallyAhead /\ IsUnwindExit(exception)
  /\ Outwards
  /\ UNCHANGED <<program, frames, suspended, exception, pc, log, misuse>>

GoToFinally ==
  /\ InBlocks /\ ~CatchAhead /\ FinallyAhead /\ ~IsUnwindExit(exception)
  /\ JumpTo([EX EXCEPT !.fast[FastCallVar] = [obj |-> exception, ret |-> NoOp]],
            try_catch.finally_op)
  /\ exception' = NoException
  /\ UNCHANGED <<program, suspended, walk, log>>

\* Faulty variant: what the finally block was entered with is dropped.
ChainNothing ==
  /\ InBlocks /\ ~CatchAhead /\ InFinally
  /\ LET pending == PendingReturn(EX, EX.fast[FastCallVar])
     IN  /\ misuse' = misuse \cup FreedUndef(EX, pending)
         /\ frames' = SetTop(FreeVars(EX, pending))
  /\ Outwards
  /\ UNCHANGED <<program, suspended, exception, pc, log>>

\* Out of a finally block: the RETURN that called it is given up, and what it
\* held becomes the previous exception.
ChainPrevious ==
  /\ InBlocks /\ ~CatchAhead /\ InFinally
  /\ LET fast_call == EX.fast[FastCallVar]
         pending == PendingReturn(EX, fast_call)
     IN  /\ misuse' = misuse \cup FreedUndef(EX, pending)
         /\ frames' = SetTop(FreeVars(EX, pending))
         /\ exception' = IF IsUnwindExit(exception) THEN exception
                         ELSE exception \o fast_call.obj
  /\ Outwards
  /\ UNCHANGED <<program, suspended, pc, log>>

PassBlock ==
  /\ InBlocks /\ ~CatchAhead /\ ~FinallyAhead /\ ~InFinally
  /\ Outwards
  /\ UNCHANGED <<program, frames, suspended, exception, pc, log, misuse>>

\* No block is left: the frame is given up, and the exception - none when a
\* generator is closed - goes on in the caller.
Uncaught ==
  /\ pc = "dispatch" /\ walk.offset = 0
  /\ LET dead == LiveVars(EX, walk.op_num, NoOp)
         caller == frames[Len(frames) - 1]
         told == IF EX.ret = NoVar THEN caller ELSE [caller EXCEPT !.tmp[EX.ret] = "null"]
     IN  /\ misuse' = misuse \cup FreedUndef(EX, dead) \cup Leaked(FreeVars(EX, dead))
         /\ IF Len(frames) = 1
            THEN pc' = "done" /\ UNCHANGED frames
            ELSE IF exception = NoException
                 THEN pc' = "run" /\ frames' = Append(SubSeq(frames, 1, Len(frames) - 2), NextOp(caller))
                 ELSE pc' = "handle" /\ frames' = Append(SubSeq(frames, 1, Len(frames) - 2), told)
  /\ UNCHANGED <<program, suspended, exception, walk, log>>

(***************************************************************************)
(* Generators.  RUN_GENERATOR stands for the caller's use of one: it is    *)
(* created, resumed until it ends, or destroyed where it is suspended.     *)
(***************************************************************************)

RunGenerator ==
  /\ Running("RUN_GENERATOR")
  /\ frames' = Append(frames, NewFrame("callee", NoVar, TRUE))
  /\ UNCHANGED <<program, suspended, exception, pc, walk, log, misuse>>

Yield ==
  /\ Running("YIELD") /\ EX.gen /\ ~EX.forced
  /\ suspended' = <<NextOp(EX)>>
  /\ frames' = Pop
  /\ pc' = "yielded"
  /\ UNCHANGED <<program, exception, walk, log, misuse>>

\* zend_yield_in_closed_generator_helper: an Error.
YieldInClosed ==
  /\ Running("YIELD") /\ EX.gen /\ EX.forced
  /\ log' = Logged(opline.label, "B")
  /\ ThrowAt(EX, <<opline.label>>)
  /\ UNCHANGED <<program, suspended, walk, misuse>>

GeneratorReturn ==
  /\ Running("RETURN") /\ EX.gen
  /\ LET f == IF opline.op1 = NoVar THEN EX ELSE [EX EXCEPT !.tmp[opline.op1] = "undef"]
         unread == IF opline.op1 = NoVar THEN {} ELSE FreedUndef(EX, {opline.op1})
     IN  misuse' = misuse \cup unread \cup Leaked(f)
  /\ frames' = Append(SubSeq(frames, 1, Len(frames) - 2), NextOp(frames[Len(frames) - 1]))
  /\ UNCHANGED <<program, suspended, exception, pc, walk, log>>

YieldOp == OpArray(suspended[1]).opcodes[suspended[1].opline - 1]

\* Faulty variant: the generator object keeps its suspended frame.
ResumeKept ==
  /\ pc = "yielded"
  /\ log' = Logged(YieldOp.label, "ok")
  /\ frames' = Append(frames, suspended[1])
  /\ pc' = "run"
  /\ UNCHANGED <<program, suspended, exception, walk, misuse>>

Resume ==
  /\ pc = "yielded"
  /\ log' = Logged(YieldOp.label, "ok")
  /\ frames' = Append(frames, suspended[1])
  /\ suspended' = << >>
  /\ pc' = "run"
  /\ UNCHANGED <<program, exception, walk, misuse>>

\* zend_generator_dtor_storage: the innermost finally block ahead is run, with
\* nothing pending; the finally blocks the generator is suspended in are given
\* up.  Without one the frame is freed (zend_generator_close).
Destroy ==
  /\ pc = "yielded"
  /\ log' = Logged(YieldOp.label, "destroy")
  /\ suspended' = << >>
  /\ LET gen == suspended[1]
         op == gen.opline - 1
         tc == OpArray(gen).try_catch
         ops == OpArray(gen).opcodes
         inner == Innermost(gen, op)
         ahead == {i \in 1 .. inner : op < tc[i].finally_op}
         last == IF ahead = {} THEN 0 ELSE CHOOSE i \in ahead : \A j \in ahead : j <= i
         left == {i \in last + 1 .. inner : op >= tc[i].finally_op /\ op < tc[i].finally_end}
         given == UNION {PendingReturn(gen, gen.fast[ops[tc[i].finally_end].op1]) : i \in left}
         dead == given \cup LiveVars(gen, op, IF last = 0 THEN NoOp ELSE tc[last].finally_op)
         f == FreeVars(gen, dead)
     IN  IF last = 0
         THEN /\ misuse' = misuse \cup FreedUndef(gen, dead) \cup Leaked(f)
              /\ frames' = SetTop(NextOp(EX))
         ELSE /\ misuse' = misuse \cup FreedUndef(gen, dead)
              /\ frames' = Append(frames, At([f EXCEPT
                   !.forced = TRUE,
                   !.fast[ops[tc[last].finally_end].op1] = [obj |-> NoException, ret |-> NoOp]],
                   tc[last].finally_op))
  /\ pc' = "run"
  /\ UNCHANGED <<program, exception, walk>>

Done == pc = "done" /\ UNCHANGED vars

Execute ==
  \/ DoICall \/ Free \/ Jmp \/ DoUCall \/ Return
  \/ Catch \/ FastCall \/ FastRet \/ DiscardException
  \/ RunGenerator \/ Yield \/ YieldInClosed \/ GeneratorReturn \/ Resume \/ Destroy

Unwind ==
  \/ HandleException \/ GoToCatch \/ SkipFinally \/ GoToFinally
  \/ ChainPrevious \/ PassBlock \/ Uncaught

Next == Execute \/ Unwind \/ Done
Spec == Init /\ [][Next]_vars
\* The machine goes on while it has something to execute.
FairSpec == Spec /\ WF_vars(Execute \/ Unwind)

(***************************************************************************)
(* Properties.                                                             *)
(***************************************************************************)

\* A frame is at one of its opcodes, its temporaries are undef, null or live,
\* and no generator's frame is suspended while one runs.
TypeOK ==
  /\ frames # << >>
  /\ \A i \in DOMAIN frames :
       /\ frames[i].opline \in DOMAIN OpArray(frames[i]).opcodes
       /\ \A v \in DOMAIN frames[i].tmp : frames[i].tmp[v] \in Value
  /\ pc \in {"run", "handle", "dispatch", "yielded", "done"}
  /\ pc = "dispatch" => walk.offset \in 0 .. Len(OpArray(EX).try_catch)
  /\ pc = "yielded" <=> suspended # << >>

\* While EG(exception) is set no opcode is executed but CATCH: no handler and no
\* finally block runs with an exception on its back.
ThrownOnlyToCatch ==
  pc = "run" /\ exception # NoException => opline.opcode = "CATCH"

\* Unwinding never frees a temporary that holds nothing: not one that is not
\* written yet, not one that was freed or returned before.
FreedOnce == \A m \in misuse : m[1] # "freed undef"

\* A returned value that HANDLE_EXCEPTION does not find: the destructor of a loop
\* variable threw, and the RETURN does not come right after the frees.
LostReturn(fn, v) ==
  LET ops == program[fn].opcodes
  IN  \E i \in DOMAIN ops, j \in DOMAIN ops :
        /\ i < j /\ OnReturn(ops[i]) /\ ops[j].opcode = "RETURN" /\ ops[j].op1 = v
        /\ \E k \in i .. j : ops[k].opcode \in {"FAST_CALL", "DISCARD_EXCEPTION"}
        /\ \E n \in DOMAIN log : log[n][1] = ops[i].label /\ log[n][2] # "ok"

\* A frame is left with none of its temporaries live, except for a LostReturn.
NothingLeaks == \A m \in misuse : m[1] = "leaked" => LostReturn(m[2], m[3])

\* The comment at zend_vm_def.h:7947 without the exception: the operand of the
\* RETURN that a throwing destructor interrupts is freed.
ReturnOperandFreed == \A m \in misuse : m[1] # "leaked"

\* Unwinding ends: no block is entered twice for one exception.
Terminates == <>(pc = "done")
=============================================================================
