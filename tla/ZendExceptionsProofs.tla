-------------------------- MODULE ZendExceptionsProofs --------------------------
(***************************************************************************)
(* No opcode runs with an exception pending but CATCH; the machine stays   *)
(* among a function's opcodes; each value is freed once, and none is left  *)
(* but those that LostReturn is about; an exception that is thrown comes   *)
(* to rest.  All for programs whose op_arrays are WellFormed, whatever     *)
(* their expressions do.                                                   *)
(***************************************************************************)
EXTENDS ZendExceptions, SequenceTheorems, NaturalsInduction, WellFoundedInduction, TLAPS

\* A frame is of a function of the program.
FrameOf(f) == {"fn", "opline", "gen"} \subseteq DOMAIN f /\ f.fn \in DOMAIN program

\* g is f after some of its opcodes: the function stays, and what the frame is.
Kept(f, g) == DOMAIN g = DOMAIN f /\ g.fn = f.fn /\ g.gen = f.gen

\* There is a frame to run, and the outermost one is not of a generator.
StackOK ==
  /\ \E S : frames \in Seq(S)
  /\ frames # << >>
  /\ \A i \in 1 .. Len(frames) : FrameOf(frames[i])
  /\ frames[1].gen = FALSE

WalkOK ==
  /\ {"offset", "op_num"} \subseteq DOMAIN walk
  /\ pc = "dispatch" => walk.op_num \in Nat

\* A generator is suspended with nothing thrown.
Quiet == pc = "yielded" => exception = NoException /\ FrameOf(suspended[1])

ThrownInv ==
  /\ program \in Programs
  /\ StackOK
  /\ WalkOK
  /\ Quiet
  /\ ThrownOnlyToCatch

(***************************************************************************)
(* Frames.                                                                 *)
(***************************************************************************)

LEMMA KeptAt ==
  ASSUME NEW f, FrameOf(f), NEW op
  PROVE  Kept(f, At(f, op)) /\ At(f, op).opline = op
  BY DEF FrameOf, Kept, At

LEMMA KeptNext == ASSUME NEW f, FrameOf(f) PROVE Kept(f, NextOp(f))
  BY DEF FrameOf, Kept, At, NextOp

LEMMA KeptFree == ASSUME NEW f, FrameOf(f), NEW vs PROVE Kept(f, FreeVars(f, vs))
  BY DEF FrameOf, Kept, FreeVars

LEMMA KeptTmp ==
  ASSUME NEW f, FrameOf(f), NEW v, NEW x
  PROVE  Kept(f, [f EXCEPT !.tmp[v] = x])
  BY DEF FrameOf, Kept

LEMMA KeptFast ==
  ASSUME NEW f, FrameOf(f), NEW v, NEW x
  PROVE  Kept(f, [f EXCEPT !.fast[v] = x]) /\ Kept(f, [f EXCEPT !.fast[v].obj = x])
  BY DEF FrameOf, Kept

LEMMA KeptTwice ==
  ASSUME NEW f, NEW g, NEW h, Kept(f, g), Kept(g, h), FrameOf(f)
  PROVE  Kept(f, h) /\ FrameOf(g)
  BY DEF FrameOf, Kept

LEMMA NewFrameOf ==
  ASSUME program \in Programs, NEW fn \in {"main", "callee"}, NEW ret, NEW gen
  PROVE  FrameOf(NewFrame(fn, ret, gen)) /\ NewFrame(fn, ret, gen).gen = gen
<1>1. fn \in DOMAIN program
  BY ProgramsAssumption
<1> QED
  BY <1>1 DEF FrameOf, NewFrame

(***************************************************************************)
(* What the actions do with the stack of frames.                           *)
(***************************************************************************)

\* The running frame.
LEMMA TopFrame ==
  ASSUME StackOK
  PROVE  Len(frames) \in Nat \ {0} /\ FrameOf(EX) /\ EX = frames[Len(frames)]
<1>1. PICK S : frames \in Seq(S)
  BY DEF StackOK
<1>2. Len(frames) \in Nat \ {0}
  BY <1>1, EmptySeq DEF StackOK
<1> QED
  BY <1>2 DEF StackOK, EX

\* It is replaced.
LEMMA TopSeq ==
  ASSUME StackOK, NEW g
  PROVE  /\ \E T : SetTop(g) \in Seq(T)
         /\ Len(SetTop(g)) = Len(frames) /\ SetTop(g)[Len(frames)] = g
         /\ \A i \in 1 .. Len(frames) : i # Len(frames) => SetTop(g)[i] = frames[i]
<1>1. PICK S : frames \in Seq(S)
  BY DEF StackOK
<1>2. Len(frames) \in Nat \ {0}
  BY TopFrame
<1>3. /\ SetTop(g) \in Seq(S \cup {g}) /\ Len(SetTop(g)) = Len(frames)
      /\ SetTop(g)[Len(frames)] = g
      /\ \A i \in 1 .. Len(frames) : i # Len(frames) => SetTop(g)[i] = frames[i]
  BY <1>1, <1>2 DEF SetTop
<1> QED
  BY <1>3, Zenon

\* It goes on as g.
LEMMA TopStep ==
  ASSUME StackOK, NEW g, Kept(EX, g), frames' = SetTop(g), program' = program
  PROVE  StackOK' /\ EX' = g
<1>2. Len(frames) \in Nat \ {0} /\ FrameOf(EX) /\ EX = frames[Len(frames)]
  BY TopFrame
<1>3. /\ \E T : frames' \in Seq(T)
      /\ Len(frames') = Len(frames)
      /\ frames'[Len(frames)] = g
      /\ \A i \in 1 .. Len(frames) : i # Len(frames) => frames'[i] = frames[i]
  BY TopSeq, Zenon
<1>4. frames' # << >>
  BY <1>2, <1>3
<1>5. \A i \in 1 .. Len(frames') : (FrameOf(frames[i]))'
  <2> SUFFICES ASSUME NEW i \in 1 .. Len(frames) PROVE (FrameOf(frames[i]))'
    BY <1>3
  <2>1. CASE i = Len(frames)
    BY <2>1, <1>2, <1>3 DEF FrameOf, Kept
  <2>2. CASE i # Len(frames)
    BY <2>2, <1>3 DEF StackOK, FrameOf
  <2> QED
    BY <2>1, <2>2
<1>6. frames'[1].gen = FALSE
  <2>1. CASE Len(frames) = 1
    BY <2>1, <1>2, <1>3 DEF StackOK, Kept
  <2>2. CASE Len(frames) # 1
    BY <2>2, <1>2, <1>3 DEF StackOK
  <2> QED
    BY <2>1, <2>2
<1> QED
  BY <1>3, <1>4, <1>5, <1>6 DEF StackOK, EX

\* A call: a frame is put on top.
LEMMA PushSeq ==
  ASSUME StackOK, NEW g
  PROVE  LET s == Append(frames, g)
         IN  /\ \E T : s \in Seq(T)
             /\ Len(s) = Len(frames) + 1 /\ s[Len(frames) + 1] = g
             /\ \A i \in 1 .. Len(frames) : s[i] = frames[i]
<1>1. PICK S : frames \in Seq(S)
  BY DEF StackOK
<1> DEFINE s == Append(frames, g)
<1>2. /\ s \in Seq(S \cup {g}) /\ Len(s) = Len(frames) + 1 /\ s[Len(frames) + 1] = g
      /\ \A i \in 1 .. Len(frames) : s[i] = frames[i]
  BY <1>1
<1> HIDE DEF s
<1>3. \E T : s \in Seq(T)
  BY <1>2, Zenon
<1> QED
  BY <1>2, <1>3 DEF s

LEMMA PushStep ==
  ASSUME StackOK, NEW g, FrameOf(g), frames' = Append(frames, g), program' = program
  PROVE  StackOK'
<1>2. Len(frames) \in Nat \ {0}
  BY TopFrame
<1>3. /\ \E T : frames' \in Seq(T)
      /\ Len(frames') = Len(frames) + 1 /\ frames'[Len(frames) + 1] = g
      /\ \A i \in 1 .. Len(frames) : frames'[i] = frames[i]
  BY PushSeq, Zenon
<1>4. \A i \in 1 .. Len(frames') : (FrameOf(frames[i]))'
  BY <1>2, <1>3 DEF StackOK, FrameOf
<1>5. frames' # << >> /\ frames'[1].gen = FALSE
  BY <1>2, <1>3 DEF StackOK
<1> QED
  BY <1>3, <1>4, <1>5 DEF StackOK

\* A return: the frame below goes on as g.
LEMMA PopSeq ==
  ASSUME StackOK, Len(frames) # 1, NEW g
  PROVE  LET s == Append(SubSeq(frames, 1, Len(frames) - 2), g)
         IN  /\ Len(frames) >= 2
             /\ \E T : s \in Seq(T)
             /\ Len(s) = Len(frames) - 1 /\ s[Len(frames) - 1] = g
             /\ \A i \in 1 .. Len(frames) - 2 : s[i] = frames[i]
<1>1. PICK S : frames \in Seq(S)
  BY DEF StackOK
<1>2. Len(frames) \in Nat /\ Len(frames) >= 2
  <2>1. Len(frames) \in Nat \ {0}
    BY TopFrame
  <2>2. \A n \in Nat \ {0} : n # 1 => n \in Nat /\ n >= 2
    OBVIOUS
  <2> QED
    BY <2>1, <2>2, Zenon
<1> DEFINE below == SubSeq(frames, 1, Len(frames) - 2)
<1>3. /\ below \in Seq(S) /\ Len(below) = Len(frames) - 2
      /\ \A i \in 1 .. Len(frames) - 2 : below[i] = frames[i]
  <2>1. \A i \in 1 .. Len(frames) - 2 : frames[i] \in S
    BY <1>1, <1>2
  <2>2. /\ below \in Seq(S)
        /\ Len(below) = IF 1 <= Len(frames) - 2 THEN (Len(frames) - 2) - 1 + 1 ELSE 0
        /\ \A i \in 1 .. (Len(frames) - 2) - 1 + 1 : below[i] = frames[1 + i - 1]
    BY <2>1, <1>2, SubSeqProperties
  <2> HIDE DEF below
  <2>3. IF 1 <= Len(frames) - 2 THEN Len(below) = Len(frames) - 2 ELSE Len(below) = 0
    BY <2>2, <1>2
  <2>4. Len(below) = Len(frames) - 2
    BY <2>3, <1>2
  <2> QED
    BY <2>2, <2>4, <1>2
<1> HIDE DEF below
<1> DEFINE s == Append(below, g)
<1>5. /\ s \in Seq(S \cup {g}) /\ Len(s) = Len(frames) - 1 /\ s[Len(frames) - 1] = g
      /\ \A i \in 1 .. Len(frames) - 2 : s[i] = frames[i]
  BY <1>2, <1>3
<1> HIDE DEF s
<1>6. \E T : s \in Seq(T)
  BY <1>5, Zenon
<1> QED
  BY <1>2, <1>5, <1>6 DEF s, below

LEMMA PopStep ==
  ASSUME StackOK, Len(frames) # 1, NEW g, Kept(frames[Len(frames) - 1], g),
         frames' = Append(SubSeq(frames, 1, Len(frames) - 2), g), program' = program
  PROVE  StackOK'
<1>2. Len(frames) \in Nat /\ Len(frames) >= 2
  BY TopFrame, PopSeq
<1>5. /\ \E T : frames' \in Seq(T)
      /\ Len(frames') = Len(frames) - 1 /\ frames'[Len(frames) - 1] = g
      /\ \A i \in 1 .. Len(frames) - 2 : frames'[i] = frames[i]
  BY PopSeq, Zenon
<1>6. \A i \in 1 .. Len(frames') : (FrameOf(frames[i]))'
  <2> SUFFICES ASSUME NEW i \in 1 .. Len(frames) - 1 PROVE (FrameOf(frames[i]))'
    BY <1>5
  <2>1. CASE i = Len(frames) - 1
    BY <2>1, <1>2, <1>5 DEF StackOK, FrameOf, Kept
  <2>2. CASE i # Len(frames) - 1
    BY <2>2, <1>2, <1>5 DEF StackOK, FrameOf
  <2> QED
    BY <2>1, <2>2
<1>7. frames'[1].gen = FALSE
  <2>1. CASE Len(frames) = 2
    BY <2>1, <1>5 DEF StackOK, Kept
  <2>2. CASE Len(frames) # 2
    BY <2>2, <1>2, <1>5 DEF StackOK
  <2> QED
    BY <2>1, <2>2
<1>8. frames' # << >>
  BY <1>2, <1>5
<1> QED
  BY <1>5, <1>6, <1>7, <1>8 DEF StackOK

(***************************************************************************)
(* The steps.                                                              *)
(***************************************************************************)

LEMMA NothingThrown ==
  ASSUME ThrownInv, NEW opcode, Running(opcode), opcode # "CATCH"
  PROVE  exception = NoException
  BY DEF ThrownInv, ThrownOnlyToCatch, Running

\* A step that leaves no exception.
LEMMA GoesOn ==
  ASSUME ThrownInv, StackOK', program' = program, walk' = walk,
         pc' \in {"run", "done"}, exception' = NoException
  PROVE  ThrownInv'
  BY DEF ThrownInv, WalkOK, Quiet, ThrownOnlyToCatch

\* A step that throws.
LEMMA Throws ==
  ASSUME ThrownInv, StackOK', program' = program, walk' = walk, pc' \in {"handle", "done"}
  PROVE  ThrownInv'
  BY DEF ThrownInv, WalkOK, Quiet, ThrownOnlyToCatch

\* A step to the dispatch helper.
LEMMA Dispatches ==
  ASSUME ThrownInv, StackOK', program' = program, WalkOK', pc' = "dispatch"
  PROVE  ThrownInv'
  BY DEF ThrownInv, Quiet, ThrownOnlyToCatch

LEMMA TopOf ==
  ASSUME ThrownInv
  PROVE  StackOK /\ FrameOf(EX) /\ WalkOK /\ program \in Programs
  BY TopFrame DEF ThrownInv

\* An opcode is one of a well-formed op_array, and has a number.
LEMMA OpcodeOf ==
  ASSUME ThrownInv, AtOpcode
  PROVE  WellFormed(OpArray(EX)) /\ EX.opline \in Nat
<1>1. OpArray(EX) = program[EX.fn] /\ EX.fn \in DOMAIN program /\ program \in Programs
  BY TopOf DEF OpArray, FrameOf
<1>2. WellFormed(OpArray(EX))
  BY <1>1, ProgramsAssumption
<1> QED
  BY <1>2 DEF WellFormed, AtOpcode

LEMMA DoICallStep == ASSUME ThrownInv, DoICall PROVE ThrownInv'
<1>1. PICK o \in Outcomes :
        LET ret == IF o = "ok" THEN "live" ELSE "null"
            f == IF opline.result = NoVar THEN EX
                 ELSE [EX EXCEPT !.tmp[opline.result] = ret]
        IN  IF o = "ok"
            THEN frames' = SetTop(NextOp(f)) /\ UNCHANGED <<exception, pc>>
            ELSE ThrowAt(f, <<opline.label>>)
  BY DEF DoICall
<1> DEFINE f == IF opline.result = NoVar THEN EX
                ELSE [EX EXCEPT !.tmp[opline.result] = IF o = "ok" THEN "live" ELSE "null"]
<1>2. StackOK /\ FrameOf(EX) /\ program' = program /\ walk' = walk
  BY TopOf DEF DoICall
<1>3. Kept(EX, f)
  BY <1>2, KeptTmp DEF Kept
<1>4. FrameOf(f) /\ Kept(f, NextOp(f)) /\ Kept(EX, NextOp(f))
  <2> HIDE DEF f
  <2> QED
    BY <1>2, <1>3, KeptNext DEF Kept, FrameOf
<1>5. exception = NoException /\ pc = "run"
  BY NothingThrown DEF DoICall, Running
<1>6. CASE o = "ok"
  <2>1. frames' = SetTop(NextOp(f)) /\ exception' = NoException /\ pc' = "run"
    BY <1>1, <1>5, <1>6
  <2> QED
    BY <2>1, <1>2, <1>4, TopStep, GoesOn
<1>7. CASE o # "ok"
  <2>1. frames' = SetTop(f) /\ pc' = "handle"
    BY <1>1, <1>7 DEF ThrowAt
  <2> QED
    BY <2>1, <1>2, <1>3, TopStep, Throws
<1> QED
  BY <1>6, <1>7

LEMMA FreeStep == ASSUME ThrownInv, Free PROVE ThrownInv'
<1> DEFINE f == FreeVars(EX, {opline.op1})
<1>1. PICK o \in Outcomes :
        IF o = "ok"
        THEN frames' = SetTop(NextOp(f)) /\ UNCHANGED <<exception, pc>>
        ELSE ThrowAt(f, <<opline.label>>)
  BY DEF Free
<1>2. StackOK /\ FrameOf(EX) /\ program' = program /\ walk' = walk
  BY TopOf DEF Free
<1>3. Kept(EX, f)
  BY <1>2, KeptFree
<1>4. Kept(EX, NextOp(f))
  <2> HIDE DEF f
  <2> QED
    BY <1>2, <1>3, KeptNext DEF Kept, FrameOf
<1>5. exception = NoException /\ pc = "run"
  BY NothingThrown DEF Free, Running
<1>6. CASE o = "ok"
  BY <1>1, <1>2, <1>4, <1>5, <1>6, TopStep, GoesOn
<1>7. CASE o # "ok"
  BY <1>1, <1>2, <1>3, <1>7, TopStep, Throws DEF ThrowAt
<1> QED
  BY <1>6, <1>7

LEMMA JumpStep ==
  ASSUME ThrownInv, Jmp \/ FastCall \/ DiscardException
  PROVE  ThrownInv'
<1>1. StackOK /\ FrameOf(EX) /\ program' = program /\ walk' = walk
  BY TopOf DEF Jmp, FastCall, DiscardException
<1>2. exception' = NoException /\ pc' = "run"
  BY NothingThrown DEF Jmp, FastCall, DiscardException, Running
<1>3. CASE Jmp
  BY <1>1, <1>2, <1>3, KeptAt, TopStep, GoesOn DEF Jmp
<1>4. CASE FastCall
  <2> DEFINE f == [EX EXCEPT !.fast[opline.result] = [obj |-> NoException, ret |-> EX.opline]]
  <2>1. Kept(EX, f) /\ frames' = SetTop(At(f, opline.target))
    BY <1>1, <1>4, KeptFast DEF FastCall
  <2> HIDE DEF f
  <2>2. Kept(EX, At(f, opline.target))
    BY <2>1, <1>1, KeptAt DEF Kept, FrameOf
  <2> QED
    BY <2>1, <2>2, <1>1, <1>2, TopStep, GoesOn
<1>5. CASE DiscardException
  <2> DEFINE pending == PendingReturn(EX, EX.fast[opline.op1])
             g == FreeVars(EX, pending)
             f == [g EXCEPT !.fast[opline.op1].obj = NoException]
  <2>1. frames' = SetTop(NextOp(f))
    BY <1>5 DEF DiscardException
  <2>2. Kept(EX, g) /\ FrameOf(g)
    BY <1>1, KeptFree, KeptTwice DEF Kept, FrameOf
  <2> HIDE DEF g
  <2>3. Kept(g, f)
    BY <2>2, KeptFast
  <2> HIDE DEF f
  <2>4. Kept(EX, f) /\ FrameOf(f)
    BY <2>2, <2>3, <1>1 DEF Kept, FrameOf
  <2>5. Kept(EX, NextOp(f))
    BY <2>4, KeptNext DEF Kept
  <2> QED
    BY <2>1, <2>5, <1>1, <1>2, TopStep, GoesOn
<1> QED
  BY <1>3, <1>4, <1>5

\* The caller's variable takes the value or null.
LEMMA KeptTold ==
  ASSUME NEW f, FrameOf(f), NEW ret, NEW x
  PROVE  Kept(f, IF ret = NoVar THEN f ELSE [f EXCEPT !.tmp[ret] = x])
  BY KeptTmp DEF Kept

\* The frame below the running one.
LEMMA CallerFrame ==
  ASSUME StackOK, Len(frames) # 1
  PROVE  FrameOf(frames[Len(frames) - 1])
<1>1. Len(frames) \in Nat \ {0}
  BY TopFrame
<1>2. \A n \in Nat \ {0} : n # 1 => n - 1 \in 1 .. n
  OBVIOUS
<1>3. Len(frames) - 1 \in 1 .. Len(frames)
  BY <1>1, <1>2, Zenon
<1> QED
  BY <1>3 DEF StackOK

LEMMA CallStep ==
  ASSUME ThrownInv, DoUCall \/ RunGenerator
  PROVE  ThrownInv'
<1>1. StackOK /\ program' = program /\ program \in Programs /\ walk' = walk
  BY TopOf DEF DoUCall, RunGenerator
<1>2. exception' = NoException /\ pc' = "run"
  BY NothingThrown DEF DoUCall, RunGenerator, Running
<1>3. CASE DoUCall
  BY <1>1, <1>2, <1>3, NewFrameOf, PushStep, GoesOn DEF DoUCall
<1>4. CASE RunGenerator
  BY <1>1, <1>2, <1>4, NewFrameOf, PushStep, GoesOn DEF RunGenerator
<1> QED
  BY <1>3, <1>4

\* The outermost frame is not of a generator.
LEMMA GeneratorFrame == ASSUME StackOK, EX.gen PROVE Len(frames) # 1
  BY TopFrame DEF StackOK

LEMMA ReturnStep ==
  ASSUME ThrownInv, Return \/ GeneratorReturn
  PROVE  ThrownInv'
<1> DEFINE caller == frames[Len(frames) - 1]
<1>1. StackOK /\ program' = program /\ walk' = walk
  BY TopOf DEF Return, GeneratorReturn
<1>2. exception' = NoException /\ pc = "run"
  BY NothingThrown DEF Return, GeneratorReturn, Running
<1>3. CASE Return /\ Len(frames) = 1
  <2>1. frames' = frames /\ pc' = "done"
    BY <1>3 DEF Return
  <2>2. StackOK'
    BY <2>1, <1>1 DEF StackOK, FrameOf
  <2> QED
    BY <2>1, <2>2, <1>1, <1>2, GoesOn
<1>4. CASE Return /\ Len(frames) # 1
  <2> DEFINE g == IF EX.ret = NoVar THEN caller ELSE [caller EXCEPT !.tmp[EX.ret] = "live"]
  <2>1. /\ frames' = Append(SubSeq(frames, 1, Len(frames) - 2), NextOp(g))
        /\ pc' = "run"
    BY <1>4 DEF Return
  <2>2. FrameOf(caller)
    BY <1>1, <1>4, CallerFrame
  <2> HIDE DEF caller
  <2>3. Kept(caller, g)
    BY <2>2, KeptTold
  <2> HIDE DEF g
  <2>4. Kept(caller, NextOp(g))
    BY <2>2, <2>3, KeptNext DEF Kept, FrameOf
  <2> QED
    BY <2>1, <2>4, <1>1, <1>2, <1>4, PopStep, GoesOn DEF caller
<1>5. CASE GeneratorReturn
  <2>1. /\ frames' = Append(SubSeq(frames, 1, Len(frames) - 2), NextOp(caller))
        /\ pc' = "run" /\ EX.gen
    BY <1>2, <1>5 DEF GeneratorReturn
  <2>2. Len(frames) # 1 /\ Kept(caller, NextOp(caller))
    BY <2>1, <1>1, GeneratorFrame, CallerFrame, KeptNext
  <2> QED
    BY <2>1, <2>2, <1>1, <1>2, PopStep, GoesOn
<1> QED
  BY <1>3, <1>4, <1>5

\* A CATCH takes the exception, leads to the next CATCH, or throws again.
LEMMA CatchStep == ASSUME ThrownInv, Catch PROVE ThrownInv'
<1>1. StackOK /\ FrameOf(EX) /\ program' = program /\ walk' = walk
  BY TopOf DEF Catch
<1>2. AtOpcode /\ pc = "run" /\ opline.opcode = "CATCH"
  BY DEF Catch, Running
<1>3. CASE exception = NoException
  <2>1. frames' = SetTop(At(EX, opline.target)) /\ exception' = NoException /\ pc' = "run"
    BY <1>2, <1>3 DEF Catch
  <2> QED
    BY <2>1, <1>1, KeptAt, TopStep, GoesOn
<1>4. CASE exception # NoException /\ Outcome(exception) = opline.class
  <2>1. frames' = SetTop(NextOp(EX)) /\ exception' = NoException /\ pc' = "run"
    BY <1>2, <1>4 DEF Catch
  <2> QED
    BY <2>1, <1>1, KeptNext, TopStep, GoesOn
<1>5. CASE exception # NoException /\ Outcome(exception) # opline.class /\ opline.flag
  <2>1. frames' = frames /\ pc' = "handle"
    BY <1>5 DEF Catch
  <2>2. StackOK'
    BY <2>1, <1>1 DEF StackOK, FrameOf
  <2> QED
    BY <2>1, <2>2, <1>1, Throws
<1>6. CASE exception # NoException /\ Outcome(exception) # opline.class /\ ~opline.flag
  <2> DEFINE g == At(EX, opline.target)
  <2>1. frames' = SetTop(g) /\ pc' = "run"
    BY <1>2, <1>6 DEF Catch
  <2>2. Kept(EX, g) /\ g.opline = opline.target
    BY <1>1, KeptAt
  <2>3. StackOK' /\ EX' = g
    BY <2>1, <2>2, <1>1, TopStep
  <2>4. opline' = OpArray(EX).opcodes[opline.target]
    BY <2>2, <2>3, <1>1 DEF opline, OpArray, Kept
  <2>5. OpArray(EX).opcodes[opline.target].opcode = "CATCH"
    BY <1>2, <1>6, OpcodeOf DEF WellFormed, AtOpcode, opline
  <2>6. ThrownOnlyToCatch'
    BY <2>4, <2>5 DEF ThrownOnlyToCatch
  <2> QED
    BY <2>1, <2>3, <2>6, <1>1 DEF ThrownInv, WalkOK, Quiet
<1> QED
  BY <1>3, <1>4, <1>5, <1>6

\* FAST_RET goes back to the FAST_CALL, or on with the exception it was called for.
LEMMA FastRetStep == ASSUME ThrownInv, FastRet PROVE ThrownInv'
<1>1. StackOK /\ FrameOf(EX) /\ program' = program
  BY TopOf DEF FastRet
<1>2. AtOpcode /\ pc' \in {"run", "dispatch"} /\ exception = NoException
  BY NothingThrown DEF FastRet, Running
<1> DEFINE ret == EX.fast[opline.op1].ret
<1>3. CASE ret # NoOp
  <2>1. /\ frames' = SetTop(At(EX, ret + 1))
        /\ UNCHANGED <<exception, pc, walk>> /\ pc = "run"
    BY <1>3 DEF FastRet, Running
  <2> QED
    BY <2>1, <1>1, <1>2, KeptAt, TopStep, GoesOn
<1>4. CASE ret = NoOp
  <2>1. /\ frames' = SetTop([EX EXCEPT !.fast[opline.op1].obj = NoException])
        /\ walk' = [offset |-> opline.op2, op_num |-> EX.opline]
        /\ pc' = "dispatch"
    BY <1>4 DEF FastRet
  <2>2. StackOK'
    BY <2>1, <1>1, KeptFast, TopStep
  <2>3. WalkOK'
    BY <2>1, <1>2, OpcodeOf DEF WalkOK
  <2> QED
    BY <2>1, <2>2, <2>3, <1>1, Dispatches
<1> QED
  BY <1>3, <1>4

\* A generator leaves the stack where it yields; the frame below stays as it is.
LEMMA LeaveSeq ==
  ASSUME StackOK, Len(frames) # 1
  PROVE  /\ \E T : Pop \in Seq(T)
         /\ Len(Pop) = Len(frames) - 1 /\ 1 <= Len(frames) - 1
         /\ \A i \in 1 .. Len(frames) - 1 : Pop[i] = frames[i]
<1>1. PICK S : frames \in Seq(S)
  BY DEF StackOK
<1>2. Len(frames) \in Nat \ {0} /\ Len(frames) # 1
  BY TopFrame
<1>3. \A n \in Nat \ {0} : n # 1 => 1 <= n - 1 /\ n - 1 \in Int /\ (n - 1) - 1 + 1 = n - 1
  OBVIOUS
<1>4. /\ 1 <= Len(frames) - 1 /\ Len(frames) - 1 \in Int
      /\ (Len(frames) - 1) - 1 + 1 = Len(frames) - 1
  BY <1>2, <1>3, Zenon
<1>5. \A i \in 1 .. Len(frames) - 1 : frames[i] \in S
  BY <1>1, <1>2
<1>6. /\ Pop \in Seq(S)
      /\ Len(Pop) = IF 1 <= Len(frames) - 1 THEN (Len(frames) - 1) - 1 + 1 ELSE 0
      /\ \A i \in 1 .. (Len(frames) - 1) - 1 + 1 : Pop[i] = frames[1 + i - 1]
  BY <1>4, <1>5, SubSeqProperties DEF Pop
<1>7. Len(Pop) = Len(frames) - 1
  BY <1>4, <1>6
<1>8. \A i \in 1 .. Len(frames) - 1 : Pop[i] = frames[i]
  BY <1>4, <1>6
<1>9. \E T : Pop \in Seq(T)
  BY <1>6, Zenon
<1> QED
  BY <1>4, <1>7, <1>8, <1>9

LEMMA YieldStep == ASSUME ThrownInv, Yield PROVE ThrownInv'
<1>1. /\ StackOK /\ FrameOf(EX) /\ WalkOK /\ program \in Programs
      /\ program' = program /\ walk' = walk
  BY TopOf DEF Yield
<1>2. exception' = NoException /\ EX.gen
  BY NothingThrown DEF Yield
<1>3. frames' = Pop /\ pc' = "yielded" /\ suspended' = <<NextOp(EX)>>
  BY DEF Yield
<1>4. Len(frames) \in Nat \ {0} /\ Len(frames) # 1
  BY <1>1, <1>2, TopFrame, GeneratorFrame
<1>5. /\ \E T : frames' \in Seq(T)
      /\ Len(frames') = Len(frames) - 1 /\ 1 <= Len(frames) - 1
      /\ \A i \in 1 .. Len(frames) - 1 : frames'[i] = frames[i]
  BY <1>1, <1>3, <1>4, LeaveSeq, Zenon
<1>6. \A i \in 1 .. Len(frames') : (FrameOf(frames[i]))'
  BY <1>1, <1>4, <1>5 DEF StackOK, FrameOf
<1>7. frames' # << >> /\ frames'[1].gen = FALSE
  BY <1>1, <1>4, <1>5 DEF StackOK
<1>8. StackOK'
  BY <1>5, <1>6, <1>7 DEF StackOK
<1>9. (FrameOf(suspended[1]))'
  BY <1>1, <1>3, KeptNext DEF Kept, FrameOf
<1> QED
  BY <1>1, <1>2, <1>3, <1>8, <1>9 DEF ThrownInv, WalkOK, Quiet, ThrownOnlyToCatch

LEMMA YieldInClosedStep == ASSUME ThrownInv, YieldInClosed PROVE ThrownInv'
<1>1. StackOK /\ program' = program /\ walk' = walk
  BY TopOf DEF YieldInClosed
<1>2. frames' = SetTop(EX) /\ pc' = "handle"
  BY DEF YieldInClosed, ThrowAt
<1> QED
  BY <1>1, <1>2, TopStep, Throws DEF Kept

\* A suspended generator is resumed, run into its finally blocks, or freed.
LEMMA ResumeStep ==
  ASSUME ThrownInv, Resume \/ Destroy
  PROVE  ThrownInv'
<1>1. StackOK /\ FrameOf(EX) /\ program' = program /\ walk' = walk
  BY TopOf DEF Resume, Destroy
<1>2. FrameOf(suspended[1]) /\ exception' = NoException /\ pc' = "run"
  BY DEF Resume, Destroy, ThrownInv, Quiet
<1>3. CASE Resume
  BY <1>1, <1>2, <1>3, PushStep, GoesOn DEF Resume
<1>4. CASE Destroy /\ frames' = SetTop(NextOp(EX))
  BY <1>1, <1>2, <1>4, KeptNext, TopStep, GoesOn
<1>5. CASE Destroy /\ frames' # SetTop(NextOp(EX))
  <2>1. PICK vs, v, x, op :
          frames' = Append(frames, At([FreeVars(suspended[1], vs) EXCEPT
                                         !.forced = TRUE, !.fast[v] = x], op))
    BY <1>5 DEF Destroy
  <2> DEFINE f == FreeVars(suspended[1], vs)
             g == [f EXCEPT !.forced = TRUE, !.fast[v] = x]
  <2>2. FrameOf(f)
    BY <1>2, KeptFree DEF Kept, FrameOf
  <2> HIDE DEF f
  <2>3. FrameOf(g)
    BY <2>2 DEF FrameOf
  <2>4. frames' = Append(frames, At(g, op))
    BY <2>1 DEF f
  <2> HIDE DEF g
  <2>5. FrameOf(At(g, op))
    BY <2>3, KeptAt DEF Kept, FrameOf
  <2> QED
    BY <2>4, <2>5, <1>1, <1>2, PushStep, GoesOn
<1> QED
  BY <1>3, <1>4, <1>5

\* Where the exception is looked up from: the opcode, or the end of the loop whose
\* variable was freed.
LEMMA HandleExceptionStep == ASSUME ThrownInv, HandleException PROVE ThrownInv'
<1> DEFINE op_num == IF OnReturn(opline) THEN LoopRange(EX).end ELSE EX.opline
           vs == (IF OnReturn(opline) THEN FreedReturn(EX) ELSE {}) \cup ({opline.result} \ {NoVar})
<1>1. StackOK /\ FrameOf(EX) /\ program' = program
  BY TopOf DEF HandleException
<1>2. /\ frames' = SetTop(FreeVars(EX, vs))
      /\ walk' = [offset |-> Innermost(EX, op_num), op_num |-> op_num]
      /\ pc' = "dispatch" /\ AtOpcode
  BY DEF HandleException
<1>3. op_num \in Nat
  <2>1. WellFormed(OpArray(EX)) /\ EX.opline \in Nat
    BY <1>2, OpcodeOf
  <2>2. CASE OnReturn(opline)
    <3>1. \E r \in OpArray(EX).live_range :
            r.var = opline.op1 /\ r.start <= EX.opline /\ EX.opline < r.end
      BY <1>2, <2>1, <2>2 DEF WellFormed, AtOpcode, opline
    <3>2. LoopRange(EX) \in OpArray(EX).live_range
      BY <3>1 DEF LoopRange, opline
    <3> QED
      BY <2>1, <2>2, <3>2 DEF WellFormed
  <2>3. CASE ~OnReturn(opline)
    BY <2>1, <2>3
  <2> QED
    BY <2>2, <2>3
<1>4. StackOK'
  <2>1. Kept(EX, FreeVars(EX, vs))
    BY <1>1, KeptFree
  <2> HIDE DEF vs
  <2> QED
    BY <2>1, <1>1, <1>2, TopStep
<1>5. WalkOK'
  <2> HIDE DEF op_num
  <2> QED
    BY <1>2, <1>3 DEF WalkOK
<1> QED
  BY <1>1, <1>2, <1>4, <1>5, Dispatches

\* The dispatch helper enters a catch block at its CATCH.
LEMMA GoToCatchStep == ASSUME ThrownInv, GoToCatch PROVE ThrownInv'
<1> DEFINE catch_op == try_catch.catch_op
           g == FreeVars(EX, LiveVars(EX, walk.op_num, catch_op))
<1>1. /\ StackOK /\ FrameOf(EX) /\ WalkOK /\ program \in Programs
      /\ program' = program /\ walk' = walk
  BY TopOf DEF GoToCatch
<1>2. frames' = SetTop(At(g, catch_op)) /\ pc' = "run" /\ pc = "dispatch"
  BY DEF GoToCatch, JumpTo, InBlocks
<1>3. OpArray(EX).opcodes[catch_op].opcode = "CATCH"
  <2>1. WellFormed(OpArray(EX))
    BY <1>1, ProgramsAssumption DEF OpArray, FrameOf
  <2>2. walk.offset \in DOMAIN OpArray(EX).try_catch /\ walk.op_num < catch_op /\ walk.op_num \in Nat
    BY <1>1, <1>2 DEF GoToCatch, InBlocks, CatchAhead, WalkOK
  <2>3. catch_op \in Nat /\ (catch_op # 0 => OpArray(EX).opcodes[catch_op].opcode = "CATCH")
    BY <2>1, <2>2 DEF WellFormed, try_catch
  <2> QED
    BY <2>2, <2>3
<1>4. Kept(EX, At(g, catch_op)) /\ At(g, catch_op).opline = catch_op
  <2>1. Kept(EX, g)
    BY <1>1, KeptFree
  <2> HIDE DEF g
  <2>2. FrameOf(g)
    BY <2>1, <1>1 DEF Kept, FrameOf
  <2> QED
    BY <2>1, <2>2, KeptAt DEF Kept
<1> HIDE DEF g
<1>5. StackOK' /\ EX' = At(g, catch_op)
  BY <1>1, <1>2, <1>4, TopStep
<1>6. opline' = OpArray(EX).opcodes[catch_op]
  BY <1>1, <1>4, <1>5 DEF opline, OpArray, Kept
<1>7. ThrownOnlyToCatch'
  BY <1>3, <1>6 DEF ThrownOnlyToCatch
<1> QED
  BY <1>1, <1>2, <1>5, <1>7 DEF ThrownInv, WalkOK, Quiet

\* A finally block is entered with the exception put away.
LEMMA GoToFinallyStep == ASSUME ThrownInv, GoToFinally PROVE ThrownInv'
<1> DEFINE f == [EX EXCEPT !.fast[FastCallVar] = [obj |-> exception, ret |-> NoOp]]
           vs == LiveVars(f, walk.op_num, try_catch.finally_op)
<1>1. StackOK /\ FrameOf(EX) /\ program' = program /\ walk' = walk
  BY TopOf DEF GoToFinally
<1>2. /\ frames' = SetTop(At(FreeVars(f, vs), try_catch.finally_op))
      /\ pc' = "run" /\ exception' = NoException
  BY DEF GoToFinally, JumpTo
<1>3. FrameOf(f) /\ Kept(EX, f)
  BY <1>1, KeptFast DEF Kept, FrameOf
<1> HIDE DEF f, vs
<1>4. FrameOf(FreeVars(f, vs)) /\ Kept(EX, FreeVars(f, vs))
  BY <1>3, KeptFree DEF Kept, FrameOf
<1>5. Kept(EX, At(FreeVars(f, vs), try_catch.finally_op))
  BY <1>4, KeptAt DEF Kept
<1> QED
  BY <1>1, <1>2, <1>5, TopStep, GoesOn

\* The dispatch helper passes a block, or gives up the one it is in.
LEMMA OutwardsStep ==
  ASSUME ThrownInv, SkipFinally \/ ChainPrevious \/ PassBlock
  PROVE  ThrownInv'
<1>1. StackOK /\ FrameOf(EX) /\ WalkOK /\ program' = program
  BY TopOf DEF SkipFinally, ChainPrevious, PassBlock
<1>2. pc' = "dispatch" /\ pc = "dispatch" /\ walk' = [walk EXCEPT !.offset = @ - 1]
  BY DEF SkipFinally, ChainPrevious, PassBlock, InBlocks, Outwards
<1>3. WalkOK'
  BY <1>1, <1>2 DEF WalkOK
<1>4. StackOK'
  <2>1. CASE SkipFinally \/ PassBlock
    BY <2>1, <1>1 DEF SkipFinally, PassBlock, StackOK, FrameOf
  <2>2. CASE ChainPrevious
    <3>1. PICK vs : frames' = SetTop(FreeVars(EX, vs))
      BY <2>2 DEF ChainPrevious
    <3> QED
      BY <3>1, <1>1, KeptFree, TopStep
  <2> QED
    BY <2>1, <2>2
<1> QED
  BY <1>1, <1>2, <1>3, <1>4, Dispatches

\* The frame is given up.
LEMMA UncaughtStep == ASSUME ThrownInv, Uncaught PROVE ThrownInv'
<1> DEFINE caller == frames[Len(frames) - 1]
           told == IF EX.ret = NoVar THEN caller ELSE [caller EXCEPT !.tmp[EX.ret] = "null"]
<1>1. StackOK /\ program' = program /\ walk' = walk
  BY TopOf DEF Uncaught
<1>2. CASE Len(frames) = 1
  <2>1. frames' = frames /\ pc' = "done"
    BY <1>2 DEF Uncaught
  <2>2. StackOK'
    BY <2>1, <1>1 DEF StackOK, FrameOf
  <2> QED
    BY <2>1, <2>2, <1>1, Throws
<1>3. CASE Len(frames) # 1 /\ exception = NoException
  <2>1. /\ frames' = Append(SubSeq(frames, 1, Len(frames) - 2), NextOp(caller))
        /\ pc' = "run" /\ exception' = NoException
    BY <1>3 DEF Uncaught
  <2>2. Kept(caller, NextOp(caller))
    BY <1>1, <1>3, CallerFrame, KeptNext
  <2> QED
    BY <2>1, <2>2, <1>1, <1>3, PopStep, GoesOn
<1>4. CASE Len(frames) # 1 /\ exception # NoException
  <2>1. /\ frames' = Append(SubSeq(frames, 1, Len(frames) - 2), told)
        /\ pc' = "handle"
    BY <1>4 DEF Uncaught
  <2>2. Kept(caller, told)
    BY <1>1, <1>4, CallerFrame, KeptTold
  <2> HIDE DEF told
  <2> QED
    BY <2>1, <2>2, <1>1, <1>4, PopStep, Throws
<1> QED
  BY <1>2, <1>3, <1>4

LEMMA InitThrown == Init => ThrownInv
<1> SUFFICES ASSUME Init PROVE ThrownInv
  OBVIOUS
<1> DEFINE f == NewFrame("main", NoVar, FALSE)
<1>1. program \in Programs /\ frames = <<f>> /\ FrameOf(f) /\ f.gen = FALSE
  <2>1. program \in Programs /\ frames = <<f>>
    BY DEF Init
  <2>2. "main" \in {"main", "callee"}
    OBVIOUS
  <2>3. FrameOf(f)
    BY <2>1, <2>2, NewFrameOf
  <2>4. f.gen = FALSE
    BY DEF NewFrame
  <2> QED
    BY <2>1, <2>3, <2>4
<1> HIDE DEF f
<1>2. StackOK
  <2>1. frames \in Seq({f}) /\ Len(frames) = 1 /\ frames[1] = f
    BY <1>1
  <2>2. frames # << >> /\ frames[1].gen = FALSE
    BY <2>1, <1>1
  <2>3. \A i \in 1 .. Len(frames) : FrameOf(frames[i])
    BY <2>1, <1>1
  <2> QED
    BY <2>1, <2>2, <2>3 DEF StackOK
<1>3. WalkOK /\ Quiet /\ ThrownOnlyToCatch
  BY DEF Init, WalkOK, Quiet, ThrownOnlyToCatch
<1> QED
  BY <1>1, <1>2, <1>3 DEF ThrownInv

LEMMA NextThrown == ThrownInv /\ [Next]_vars => ThrownInv'
<1> SUFFICES ASSUME ThrownInv, [Next]_vars PROVE ThrownInv'
  OBVIOUS
<1>1. CASE Execute
  BY <1>1, DoICallStep, FreeStep, JumpStep, CallStep, ReturnStep, CatchStep, FastRetStep,
     YieldStep, YieldInClosedStep, ResumeStep DEF Execute
<1>2. CASE Unwind
  BY <1>2, HandleExceptionStep, GoToCatchStep, GoToFinallyStep, OutwardsStep, UncaughtStep
     DEF Unwind
<1>3. CASE UNCHANGED vars
  BY <1>3 DEF vars, ThrownInv, StackOK, FrameOf, WalkOK, Quiet, ThrownOnlyToCatch,
              opline, OpArray, EX
<1> QED
  BY <1>1, <1>2, <1>3 DEF Next, Done

\* Whatever is thrown where, by an expression, a destructor, a finally block or a
\* generator that is destroyed: the machine takes no opcode but CATCH while an
\* exception is pending (zend_vm_def.h:7931-8041).
THEOREM NothingRunsUnderException == Spec => []ThrownOnlyToCatch
<1>1. ThrownInv => ThrownOnlyToCatch
  BY DEF ThrownInv
<1> QED
  BY InitThrown, NextThrown, <1>1, PTL DEF Spec

(***************************************************************************)
(* Where a frame is: at one of its opcodes, with the fast_call variables   *)
(* of the finally blocks around it set.                                    *)
(***************************************************************************)

FrameFields == {"fn", "opline", "ret", "gen", "forced", "tmp", "fast"}

\* The fast_call variables of the finally blocks of a around op are set in f.
Entered(a, f, op) ==
  \A b \in FinallyAround(a, op) : f.fast[FastCallOf(a, b)].ret # Unset

\* The variables of a frame of a: what called a finally block was where it may be called.
VarsOK(a, f) ==
  /\ DOMAIN f = FrameFields
  /\ \A v \in DOMAIN f.tmp : f.tmp[v] \in Value
  /\ DOMAIN f.fast = 1 .. a.T
  /\ \A v \in 1 .. a.T :
       LET ret == f.fast[v].ret
       IN  /\ DOMAIN f.fast[v] = {"obj", "ret"}
           /\ ret \in {Unset, NoOp} \/ (ret \in DOMAIN a.opcodes /\ a.opcodes[ret].opcode = "FAST_CALL"
                                        /\ Entered(a, f, ret))

\* f is a frame of the program p, at op.
PlacedAt(p, f, op) ==
  /\ f.fn \in DOMAIN p /\ VarsOK(p[f.fn], f)
  /\ op \in DOMAIN p[f.fn].opcodes /\ Entered(p[f.fn], f, op)
Placed(p, f) == PlacedAt(p, f, f.opline)
Calls(p, f) == p[f.fn].opcodes[f.opline].opcode \in {"DO_UCALL", "RUN_GENERATOR"}

StackPlaced ==
  /\ \A i \in 1 .. Len(frames) : Placed(program, frames[i])
  /\ \A i \in 1 .. Len(frames) - 1 : Calls(program, frames[i])

\* The blocks that the dispatch helper still goes through begin before the opcode.
WalkPlaced ==
  LET tc == program[EX.fn].try_catch
  IN  /\ walk.offset \in 0 .. Len(tc)
      /\ \A j \in 1 .. walk.offset : tc[j].try_op <= walk.op_num
      /\ Entered(program[EX.fn], EX, walk.op_num)

\* A generator is suspended after a YIELD.
YieldPlaced ==
  /\ suspended # << >> /\ Calls(program, EX)
  /\ Placed(program, suspended[1])
  /\ PlacedAt(program, suspended[1], suspended[1].opline - 1)

JumpsInv ==
  /\ ThrownInv
  /\ StackPlaced
  /\ pc \in {"run", "handle", "dispatch", "yielded", "done"}
  /\ pc = "dispatch" => WalkPlaced
  /\ IF pc = "yielded" THEN YieldPlaced ELSE suspended = << >>

LEMMA ProgramOK ==
  ASSUME program \in Programs
  PROVE  \A fn \in DOMAIN program : WellFormed(program[fn])
BY ProgramsAssumption

\* What WellFormed says of where opcodes lead.
LEMMA OpsOK ==
  ASSUME NEW a, WellFormed(a), NEW i \in DOMAIN a.opcodes
  PROVE  LET op == a.opcodes[i]
         IN  /\ i \in Nat \ {0} /\ 1 \in DOMAIN a.opcodes /\ a.T \in Nat
             /\ op.opcode \notin {"JMP", "RETURN", "FAST_RET"} => Leads(a, i, i + 1)
             /\ op.opcode \in {"JMP", "CATCH"} => Leads(a, i, op.target)
             /\ op.opcode = "FAST_CALL" =>
                  /\ op.target \in DOMAIN a.opcodes /\ op.result \in 1 .. a.T
                  /\ \A b \in FinallyAround(a, op.target) :
                       b \in FinallyAround(a, i) \/ FastCallOf(a, b) = op.result
             /\ op.opcode = "FAST_RET" =>
                  /\ \E b \in FinallyAround(a, i) : FastCallOf(a, b) = op.op1
                  /\ op.op2 = 0 \/ op.op2 \in DOMAIN a.try_catch
                  /\ op.op2 # 0 => a.try_catch[op.op2].try_op <= i
BY DEF WellFormed, OpcodesInPlace, BlocksInPlace

LEMMA BlocksOK ==
  ASSUME NEW a, WellFormed(a)
  PROVE  LET tc == a.try_catch
         IN  /\ Len(tc) \in Nat /\ DOMAIN tc = 1 .. Len(tc)
             /\ \A i \in DOMAIN tc :
                  /\ tc[i].try_op \in Nat /\ tc[i].catch_op \in Nat
                  /\ tc[i].finally_op \in Nat /\ tc[i].finally_end \in Nat
                  /\ \A j \in 1 .. i : tc[j].try_op <= tc[i].try_op
                  /\ tc[i].catch_op # 0 => Leads(a, tc[i].try_op, tc[i].catch_op)
                  /\ tc[i].finally_op # 0 =>
                       /\ 1 <= tc[i].try_op /\ tc[i].try_op < tc[i].finally_op
                       /\ tc[i].finally_op \in DOMAIN a.opcodes
                       /\ FastCallOf(a, i) \in 1 .. a.T
                       /\ FinallyAround(a, tc[i].finally_op) \ {i}
                            \subseteq FinallyAround(a, tc[i].try_op)
             /\ \A r \in a.live_range :
                  /\ r.start \in Nat /\ r.end \in Nat
                  /\ FinallyAround(a, r.end) \subseteq FinallyAround(a, r.start)
BY DEF WellFormed, BlocksInPlace

\* The finally blocks around an opcode and a later one are around those between.
LEMMA Between ==
  ASSUME NEW a, WellFormed(a), NEW i \in Nat, NEW j \in Nat, NEW k \in Nat, i <= j, j <= k
  PROVE  FinallyAround(a, i) \cap FinallyAround(a, k) \subseteq FinallyAround(a, j)
BY BlocksOK DEF FinallyAround

\* The variables of finally blocks.
LEMMA FastCallVars ==
  ASSUME NEW a, WellFormed(a), NEW op, NEW b \in FinallyAround(a, op)
  PROVE  FastCallOf(a, b) \in 1 .. a.T
BY BlocksOK DEF FinallyAround

(***************************************************************************)
(* A frame goes on.                                                        *)
(***************************************************************************)

\* g is f but for its opcode, what its temporaries hold, and whether it was forced.
OnlyMoved(f, g) ==
  /\ DOMAIN g = DOMAIN f /\ g.fn = f.fn /\ g.fast = f.fast
  /\ \A v \in DOMAIN g.tmp : g.tmp[v] \in Value

LEMMA Moves ==
  ASSUME NEW p, NEW f, f.fn \in DOMAIN p, VarsOK(p[f.fn], f),
         NEW from, Entered(p[f.fn], f, from), NEW g, OnlyMoved(f, g), NEW to,
         Leads(p[f.fn], from, to)
  PROVE  PlacedAt(p, g, to)
BY DEF PlacedAt, VarsOK, Entered, OnlyMoved, Leads

LEMMA Stays ==
  ASSUME NEW p, NEW f, NEW op, PlacedAt(p, f, op), NEW g, OnlyMoved(f, g)
  PROVE  PlacedAt(p, g, op)
BY DEF PlacedAt, VarsOK, Entered, OnlyMoved

LEMMA MovedParts ==
  ASSUME NEW a, NEW f, VarsOK(a, f)
  PROVE  /\ \A op : OnlyMoved(f, At(f, op)) /\ At(f, op).opline = op
         /\ OnlyMoved(f, NextOp(f)) /\ NextOp(f).opline = f.opline + 1
         /\ \A vs : OnlyMoved(f, FreeVars(f, vs)) /\ FreeVars(f, vs).opline = f.opline
         /\ \A v : \A x \in Value :
              LET g == [f EXCEPT !.tmp[v] = x] IN OnlyMoved(f, g) /\ g.opline = f.opline
<1>1. /\ \A op : OnlyMoved(f, At(f, op)) /\ At(f, op).opline = op
      /\ OnlyMoved(f, NextOp(f)) /\ NextOp(f).opline = f.opline + 1
  BY DEF VarsOK, FrameFields, OnlyMoved, At, NextOp
<1>2. ASSUME NEW vs
      PROVE  OnlyMoved(f, FreeVars(f, vs)) /\ FreeVars(f, vs).opline = f.opline
  BY DEF VarsOK, FrameFields, OnlyMoved, FreeVars, Value
<1>3. ASSUME NEW v, NEW x \in Value
      PROVE  LET g == [f EXCEPT !.tmp[v] = x] IN OnlyMoved(f, g) /\ g.opline = f.opline
  BY DEF VarsOK, FrameFields, OnlyMoved
<1> QED
  BY <1>1, <1>2, <1>3

LEMMA MovedTmp ==
  ASSUME NEW a, NEW f, VarsOK(a, f), NEW v, NEW x \in Value
  PROVE  /\ OnlyMoved(f, [f EXCEPT !.tmp[v] = x])
         /\ [f EXCEPT !.tmp[v] = x].opline = f.opline
BY DEF VarsOK, FrameFields, OnlyMoved

LEMMA MovedTwice ==
  ASSUME NEW f, NEW g, NEW h, OnlyMoved(f, g), OnlyMoved(g, h)
  PROVE  OnlyMoved(f, h)
BY DEF OnlyMoved

\* A fast_call variable is written: with a FAST_CALL that is in its place, or none.
LEMMA FastWritten ==
  ASSUME NEW p, NEW f, f.fn \in DOMAIN p, WellFormed(p[f.fn]), VarsOK(p[f.fn], f),
         NEW op, Entered(p[f.fn], f, op), NEW v \in 1 .. p[f.fn].T, NEW obj, NEW ret,
         \/ ret = NoOp
         \/ /\ ret \in DOMAIN p[f.fn].opcodes /\ p[f.fn].opcodes[ret].opcode = "FAST_CALL"
            /\ Entered(p[f.fn], f, ret) /\ ret # Unset,
         NEW to \in DOMAIN p[f.fn].opcodes,
         \A b \in FinallyAround(p[f.fn], to) :
           b \in FinallyAround(p[f.fn], op) \/ FastCallOf(p[f.fn], b) = v
  PROVE  PlacedAt(p, [f EXCEPT !.fast[v] = [obj |-> obj, ret |-> ret]], to)
<1> DEFINE a == p[f.fn]
           g == [f EXCEPT !.fast[v] = [obj |-> obj, ret |-> ret]]
<1>1. VarsOK(a, f) /\ Entered(a, f, op) /\ f.fn \in DOMAIN p
  OBVIOUS
<1>2. /\ DOMAIN g = FrameFields /\ g.fn = f.fn /\ g.tmp = f.tmp /\ DOMAIN g.fast = 1 .. a.T
      /\ g.fast[v] = [obj |-> obj, ret |-> ret]
      /\ \A w \in 1 .. a.T : w # v => g.fast[w] = f.fast[w]
  BY <1>1 DEF VarsOK, FrameFields
<1> HIDE DEF g
<1>3. ret # Unset
  BY DEF NoOp, Unset
<1>4. \A i : Entered(a, f, i) => Entered(a, g, i)
  BY <1>2, <1>3, FastCallVars DEF Entered
<1>5. Entered(a, g, to)
  BY <1>1, <1>2, <1>3, <1>4 DEF Entered
<1>6. VarsOK(a, g)
  BY <1>1, <1>2, <1>4, <1>5 DEF VarsOK
<1> QED
  BY <1>1, <1>2, <1>5, <1>6 DEF PlacedAt, g

\* The object of a fast_call variable is dropped.
LEMMA ObjectDropped ==
  ASSUME NEW p, NEW f, NEW op, PlacedAt(p, f, op), NEW v
  PROVE  PlacedAt(p, [f EXCEPT !.fast[v].obj = NoException], op)
<1> DEFINE a == p[f.fn]
           g == [f EXCEPT !.fast[v].obj = NoException]
<1>1. VarsOK(a, f) /\ Entered(a, f, op) /\ f.fn \in DOMAIN p
  BY DEF PlacedAt
<1>2. /\ DOMAIN g = FrameFields /\ g.fn = f.fn /\ g.tmp = f.tmp /\ DOMAIN g.fast = 1 .. a.T
      /\ g.fast = [f.fast EXCEPT ![v] = [f.fast[v] EXCEPT !.obj = NoException]]
  BY <1>1 DEF VarsOK, FrameFields
<1> HIDE DEF g
<1>3. \A w : g.fast[w].ret = f.fast[w].ret
  <2> SUFFICES ASSUME NEW w PROVE g.fast[w].ret = f.fast[w].ret
    OBVIOUS
  <2>1. CASE v \in 1 .. a.T
    BY <2>1, <1>1, <1>2 DEF VarsOK
  <2>2. CASE v \notin 1 .. a.T
    BY <2>2, <1>1, <1>2 DEF VarsOK
  <2> QED
    BY <2>1, <2>2
<1>4. \A w \in 1 .. a.T : DOMAIN g.fast[w] = {"obj", "ret"}
  BY <1>1, <1>2 DEF VarsOK
<1>5. \A i : Entered(a, f, i) => Entered(a, g, i)
  BY <1>3 DEF Entered
<1>6. VarsOK(a, g)
  BY <1>1, <1>2, <1>3, <1>4, <1>5 DEF VarsOK
<1> QED
  BY <1>1, <1>2, <1>5, <1>6 DEF PlacedAt, g

\* A new frame is at the function's first opcode, which no finally block holds.
LEMMA NewPlaced ==
  ASSUME program \in Programs, NEW fn \in {"main", "callee"}, NEW ret, NEW gen
  PROVE  Placed(program, NewFrame(fn, ret, gen))
<1> DEFINE a == program[fn]
           f == NewFrame(fn, ret, gen)
<1>1. fn \in DOMAIN program /\ WellFormed(a)
  BY ProgramsAssumption
<1>2. 1 \in DOMAIN a.opcodes
  BY <1>1 DEF WellFormed, OpcodesInPlace
<1>3. FinallyAround(a, 1) = {}
  <2> SUFFICES ASSUME NEW i \in FinallyAround(a, 1) PROVE FALSE
    OBVIOUS
  <2>1. /\ i \in DOMAIN a.try_catch /\ a.try_catch[i].finally_op # 0
        /\ a.try_catch[i].finally_op <= 1
    BY DEF FinallyAround
  <2>2. /\ a.try_catch[i].try_op \in Nat /\ a.try_catch[i].finally_op \in Nat
        /\ 1 <= a.try_catch[i].try_op /\ a.try_catch[i].try_op < a.try_catch[i].finally_op
    BY <1>1, <2>1, BlocksOK
  <2> QED
    BY <2>1, <2>2
<1>4. /\ DOMAIN f = FrameFields /\ f.fn = fn /\ f.opline = 1
      /\ f.tmp = [v \in 1 .. a.T |-> "undef"]
      /\ f.fast = [v \in 1 .. a.T |-> [obj |-> NoException, ret |-> Unset]]
  BY DEF NewFrame, FrameFields
<1> HIDE DEF f
<1>5. VarsOK(a, f)
  BY <1>4 DEF VarsOK, Value
<1>6. Entered(a, f, 1)
  BY <1>3 DEF Entered
<1> QED
  BY <1>1, <1>2, <1>4, <1>5, <1>6 DEF Placed, PlacedAt, f

(***************************************************************************)
(* The stack of frames, each where it is.                                  *)
(***************************************************************************)

LEMMA TopPlaced ==
  ASSUME JumpsInv
  PROVE  /\ StackOK /\ program \in Programs /\ Len(frames) \in Nat \ {0}
         /\ OpArray(EX) = program[EX.fn] /\ EX.fn \in DOMAIN program
         /\ WellFormed(program[EX.fn]) /\ VarsOK(program[EX.fn], EX)
         /\ EX.opline \in DOMAIN program[EX.fn].opcodes /\ EX.opline \in Nat \ {0}
         /\ Entered(program[EX.fn], EX, EX.opline) /\ Placed(program, EX)
<1>1. StackOK /\ program \in Programs /\ Len(frames) \in Nat \ {0} /\ EX = frames[Len(frames)]
  BY TopFrame DEF JumpsInv, ThrownInv
<1>2. Placed(program, EX)
  BY <1>1 DEF JumpsInv, StackPlaced
<1>3. /\ EX.fn \in DOMAIN program /\ VarsOK(program[EX.fn], EX)
      /\ EX.opline \in DOMAIN program[EX.fn].opcodes /\ Entered(program[EX.fn], EX, EX.opline)
  BY <1>2 DEF Placed, PlacedAt
<1>4. WellFormed(program[EX.fn])
  BY <1>1, <1>3, ProgramOK
<1>5. EX.opline \in Nat \ {0}
  BY <1>3, <1>4, OpsOK
<1> QED
  BY <1>1, <1>2, <1>3, <1>4, <1>5 DEF OpArray

\* The running frame goes on as g.
LEMMA TopGoes ==
  ASSUME StackOK, StackPlaced, NEW g, Placed(program, g),
         frames' = SetTop(g), program' = program
  PROVE  StackPlaced' /\ EX' = g
<1>1. Len(frames) \in Nat \ {0}
  BY TopFrame
<1>2. /\ Len(frames') = Len(frames) /\ frames'[Len(frames)] = g
      /\ \A i \in 1 .. Len(frames) : i # Len(frames) => frames'[i] = frames[i]
  BY TopSeq, Zenon
<1>3. \A i \in 1 .. Len(frames) : Placed(program, frames'[i])
  BY <1>1, <1>2 DEF StackPlaced
<1>4. \A i \in 1 .. Len(frames) - 1 : Calls(program, frames'[i])
  BY <1>1, <1>2 DEF StackPlaced
<1> QED
  BY <1>2, <1>3, <1>4 DEF StackPlaced, EX

LEMMA PushGoes ==
  ASSUME StackOK, StackPlaced, Calls(program, EX), NEW g, Placed(program, g),
         frames' = Append(frames, g), program' = program
  PROVE  StackPlaced'
<1>1. Len(frames) \in Nat \ {0} /\ EX = frames[Len(frames)]
  BY TopFrame
<1>2. /\ Len(frames') = Len(frames) + 1 /\ frames'[Len(frames) + 1] = g
      /\ \A i \in 1 .. Len(frames) : frames'[i] = frames[i]
  BY PushSeq, Zenon
<1>3. \A i \in 1 .. Len(frames) + 1 : Placed(program, frames'[i])
  BY <1>1, <1>2 DEF StackPlaced
<1>4. \A i \in 1 .. Len(frames) : Calls(program, frames'[i])
  <2> SUFFICES ASSUME NEW i \in 1 .. Len(frames) PROVE Calls(program, frames[i])
    BY <1>2
  <2>1. CASE i = Len(frames)
    BY <2>1, <1>1
  <2>2. CASE i # Len(frames)
    BY <2>2, <1>1 DEF StackPlaced
  <2> QED
    BY <2>1, <2>2
<1>5. Len(frames') - 1 = Len(frames)
  BY <1>1, <1>2
<1> QED
  BY <1>2, <1>3, <1>4, <1>5 DEF StackPlaced

LEMMA PopGoes ==
  ASSUME StackOK, StackPlaced, Len(frames) # 1, NEW g, Placed(program, g),
         frames' = Append(SubSeq(frames, 1, Len(frames) - 2), g), program' = program
  PROVE  StackPlaced'
<1>1. Len(frames) \in Nat \ {0}
  BY TopFrame
<1>2. /\ Len(frames') = Len(frames) - 1 /\ frames'[Len(frames) - 1] = g
      /\ \A i \in 1 .. Len(frames) - 2 : frames'[i] = frames[i]
  BY PopSeq, Zenon
<1>3. \A i \in 1 .. Len(frames) - 1 : Placed(program, frames'[i])
  <2> SUFFICES ASSUME NEW i \in 1 .. Len(frames) - 1 PROVE Placed(program, frames'[i])
    OBVIOUS
  <2>1. CASE i = Len(frames) - 1
    BY <2>1, <1>2
  <2>2. CASE i # Len(frames) - 1
    <3>1. i \in 1 .. Len(frames) - 2 /\ i \in 1 .. Len(frames)
      BY <2>2, <1>1
    <3> QED
      BY <3>1, <1>2 DEF StackPlaced
  <2> QED
    BY <2>1, <2>2
<1>4. \A i \in 1 .. Len(frames) - 2 : Calls(program, frames'[i])
  BY <1>1, <1>2 DEF StackPlaced
<1>5. Len(frames') - 1 = Len(frames) - 2
  BY <1>1, <1>2
<1> QED
  BY <1>2, <1>3, <1>4, <1>5 DEF StackPlaced

\* The caller of the running frame.
LEMMA CallerPlaced ==
  ASSUME JumpsInv, Len(frames) # 1
  PROVE  LET caller == frames[Len(frames) - 1]
         IN  Placed(program, caller) /\ Calls(program, caller)
<1>1. Len(frames) \in Nat \ {0}
  BY TopPlaced
<1>2. \A n \in Nat \ {0} : n # 1 => n - 1 \in 1 .. n /\ n - 1 \in 1 .. n - 1
  OBVIOUS
<1>3. Len(frames) - 1 \in 1 .. Len(frames) /\ Len(frames) - 1 \in 1 .. Len(frames) - 1
  BY <1>1, <1>2, Zenon
<1> QED
  BY <1>3 DEF JumpsInv, StackPlaced

\* An opcode that goes on leaves the frame at the next one.
LEMMA NextPlaced ==
  ASSUME program \in Programs, NEW f, Placed(program, f), NEW g, OnlyMoved(f, g),
         g.opline = f.opline,
         program[f.fn].opcodes[f.opline].opcode \notin {"JMP", "RETURN", "FAST_RET"}
  PROVE  Placed(program, NextOp(g))
<1> DEFINE a == program[f.fn]
<1>1. /\ f.fn \in DOMAIN program /\ VarsOK(a, f) /\ f.opline \in DOMAIN a.opcodes
      /\ Entered(a, f, f.opline) /\ WellFormed(a)
  BY ProgramOK DEF Placed, PlacedAt
<1>2. Leads(a, f.opline, f.opline + 1)
  BY <1>1, OpsOK
<1>3. VarsOK(a, g)
  BY <1>1 DEF VarsOK, OnlyMoved, Entered
<1>4. OnlyMoved(g, NextOp(g)) /\ NextOp(g).opline = f.opline + 1
  BY <1>3, MovedParts
<1>5. OnlyMoved(f, NextOp(g))
  BY <1>4, MovedTwice
<1>6. PlacedAt(program, NextOp(g), f.opline + 1)
  BY <1>1, <1>2, <1>5, Moves
<1> QED
  BY <1>4, <1>6 DEF Placed

LEMMA NextOfCaller ==
  ASSUME program \in Programs, NEW f, Placed(program, f), Calls(program, f),
         NEW g, OnlyMoved(f, g), g.opline = f.opline
  PROVE  Placed(program, NextOp(g))
BY NextPlaced DEF Calls

LEMMA Unmoved ==
  ASSUME NEW f, Placed(program, f)
  PROVE  OnlyMoved(f, f)
BY DEF OnlyMoved, Placed, PlacedAt, VarsOK

\* A step of the running frame, with no generator suspended.
LEMMA GoesPlaced ==
  ASSUME JumpsInv, ThrownInv', program' = program, suspended' = << >>, StackPlaced',
         pc' \in {"run", "handle", "done"}
  PROVE  JumpsInv'
BY DEF JumpsInv

(***************************************************************************)
(* The steps.                                                              *)
(***************************************************************************)

\* What throws stays at its opcode, what does not goes on.
LEMMA DoICallJumps == ASSUME JumpsInv, DoICall, ThrownInv' PROVE JumpsInv'
<1>1. PICK o \in Outcomes :
        LET ret == IF o = "ok" THEN "live" ELSE "null"
            f == IF opline.result = NoVar THEN EX
                 ELSE [EX EXCEPT !.tmp[opline.result] = ret]
        IN  IF o = "ok"
            THEN frames' = SetTop(NextOp(f)) /\ UNCHANGED <<exception, pc>>
            ELSE ThrowAt(f, <<opline.label>>)
  BY DEF DoICall
<1> DEFINE ret == IF o = "ok" THEN "live" ELSE "null"
           f == IF opline.result = NoVar THEN EX ELSE [EX EXCEPT !.tmp[opline.result] = ret]
<1>2. /\ program' = program /\ suspended' = suspended /\ pc = "run"
      /\ program[EX.fn].opcodes[EX.opline].opcode = "DO_ICALL"
  BY DEF DoICall, Running, opline, OpArray
<1>3. OnlyMoved(EX, f) /\ f.opline = EX.opline
  <2>1. ret \in Value
    BY DEF Value
  <2> HIDE DEF ret
  <2>2. CASE opline.result = NoVar
    BY <2>2, TopPlaced, Unmoved
  <2>3. CASE opline.result # NoVar
    BY <2>1, <2>3, TopPlaced, MovedParts
  <2> QED
    BY <2>2, <2>3
<1> HIDE DEF f
<1>4. Placed(program, f) /\ Placed(program, NextOp(f))
  BY <1>2, <1>3, TopPlaced, Stays, NextPlaced DEF Placed
<1>5. /\ \/ frames' = SetTop(NextOp(f)) /\ pc' = pc
         \/ frames' = SetTop(f) /\ pc' = "handle"
      /\ suspended' = << >>
  BY <1>1, <1>2 DEF ThrowAt, JumpsInv, f
<1>6. StackPlaced'
  BY <1>2, <1>4, <1>5, TopPlaced, TopGoes DEF JumpsInv
<1> QED
  BY <1>2, <1>5, <1>6, GoesPlaced

LEMMA FreeJumps == ASSUME JumpsInv, Free, ThrownInv' PROVE JumpsInv'
<1> DEFINE f == FreeVars(EX, {opline.op1})
<1>1. PICK o \in Outcomes :
        IF o = "ok"
        THEN frames' = SetTop(NextOp(f)) /\ UNCHANGED <<exception, pc>>
        ELSE ThrowAt(f, <<opline.label>>)
  BY DEF Free
<1>2. /\ program' = program /\ suspended' = suspended /\ pc = "run"
      /\ program[EX.fn].opcodes[EX.opline].opcode = "FREE"
  BY DEF Free, Running, opline, OpArray
<1>3. OnlyMoved(EX, f) /\ f.opline = EX.opline
  BY TopPlaced, MovedParts
<1> HIDE DEF f
<1>4. Placed(program, f) /\ Placed(program, NextOp(f))
  BY <1>2, <1>3, TopPlaced, Stays, NextPlaced DEF Placed
<1>5. /\ \/ frames' = SetTop(NextOp(f)) /\ pc' = pc
         \/ frames' = SetTop(f) /\ pc' = "handle"
      /\ suspended' = << >>
  BY <1>1, <1>2 DEF ThrowAt, JumpsInv
<1>6. StackPlaced'
  BY <1>2, <1>4, <1>5, TopPlaced, TopGoes DEF JumpsInv
<1> QED
  BY <1>2, <1>5, <1>6, GoesPlaced

\* The running frame leads to another of its opcodes.
LEMMA LedTo ==
  ASSUME JumpsInv, NEW to, Leads(program[EX.fn], EX.opline, to)
  PROVE  Placed(program, At(EX, to))
<1>1. OnlyMoved(EX, At(EX, to)) /\ At(EX, to).opline = to
  BY TopPlaced, MovedParts
<1> QED
  BY <1>1, TopPlaced, Moves DEF Placed

LEMMA JmpJumps == ASSUME JumpsInv, Jmp, ThrownInv' PROVE JumpsInv'
<1>1. /\ program' = program /\ suspended' = << >> /\ pc' = "run"
      /\ frames' = SetTop(At(EX, opline.target))
      /\ opline = program[EX.fn].opcodes[EX.opline] /\ opline.opcode = "JMP"
  BY DEF Jmp, Running, opline, OpArray, JumpsInv
<1>2. Placed(program, At(EX, opline.target))
  BY <1>1, TopPlaced, OpsOK, LedTo
<1>3. StackPlaced'
  BY <1>1, <1>2, TopPlaced, TopGoes DEF JumpsInv
<1> QED
  BY <1>1, <1>3, GoesPlaced

\* FAST_CALL: the finally block is entered with its variable set, to an opcode that is
\* where its own variables are set.
LEMMA FastCallJumps == ASSUME JumpsInv, FastCall, ThrownInv' PROVE JumpsInv'
<1> DEFINE f == [EX EXCEPT !.fast[opline.result] = [obj |-> NoException, ret |-> EX.opline]]
           a == program[EX.fn]
<1>1. /\ program' = program /\ suspended' = << >> /\ pc' = "run"
      /\ frames' = SetTop(At(f, opline.target))
      /\ opline = a.opcodes[EX.opline] /\ opline.opcode = "FAST_CALL"
  BY DEF FastCall, Running, opline, OpArray, JumpsInv
<1>2. /\ opline.target \in DOMAIN a.opcodes /\ opline.result \in 1 .. a.T
      /\ \A b \in FinallyAround(a, opline.target) :
           b \in FinallyAround(a, EX.opline) \/ FastCallOf(a, b) = opline.result
  BY <1>1, TopPlaced, OpsOK
<1>3. EX.opline # Unset
  BY TopPlaced DEF Unset
<1>4. PlacedAt(program, f, opline.target)
  BY <1>1, <1>2, <1>3, TopPlaced, FastWritten
<1> HIDE DEF f
<1>5. Placed(program, At(f, opline.target))
  <2>1. OnlyMoved(f, At(f, opline.target)) /\ At(f, opline.target).opline = opline.target
    BY <1>4, MovedParts DEF PlacedAt
  <2> QED
    BY <2>1, <1>4, Stays DEF Placed
<1>6. StackPlaced'
  BY <1>1, <1>5, TopPlaced, TopGoes DEF JumpsInv
<1> QED
  BY <1>1, <1>6, GoesPlaced

LEMMA DiscardJumps == ASSUME JumpsInv, DiscardException, ThrownInv' PROVE JumpsInv'
<1> DEFINE vs == PendingReturn(EX, EX.fast[opline.op1])
           g == FreeVars(EX, vs)
           f == [g EXCEPT !.fast[opline.op1].obj = NoException]
<1>1. /\ program' = program /\ suspended' = << >> /\ pc' = "run"
      /\ frames' = SetTop(NextOp(f))
      /\ program[EX.fn].opcodes[EX.opline].opcode = "DISCARD_EXCEPTION"
  BY DEF DiscardException, Running, opline, OpArray, JumpsInv
<1> HIDE DEF vs
<1>2. OnlyMoved(EX, g) /\ g.opline = EX.opline
  BY TopPlaced, MovedParts
<1> HIDE DEF g
<1>3. PlacedAt(program, g, EX.opline) /\ g.fn = EX.fn
  BY <1>2, TopPlaced, Stays DEF Placed, OnlyMoved
<1>4. PlacedAt(program, f, EX.opline)
  BY <1>3, ObjectDropped
<1>5. f.opline = EX.opline /\ f.fn = EX.fn
  BY <1>2, <1>3 DEF PlacedAt, VarsOK, FrameFields
<1> HIDE DEF f
<1>6. Placed(program, NextOp(f))
  BY <1>1, <1>4, <1>5, TopPlaced, NextPlaced, Unmoved DEF Placed
<1>7. StackPlaced'
  BY <1>1, <1>6, TopPlaced, TopGoes DEF JumpsInv
<1> QED
  BY <1>1, <1>7, GoesPlaced

LEMMA CallJumps ==
  ASSUME JumpsInv, DoUCall \/ RunGenerator, ThrownInv'
  PROVE  JumpsInv'
<1>1. program' = program /\ suspended' = << >> /\ pc' = "run" /\ Calls(program, EX)
  BY DEF DoUCall, RunGenerator, Running, opline, OpArray, Calls, JumpsInv
<1>2. PICK ret, gen : frames' = Append(frames, NewFrame("callee", ret, gen))
  BY DEF DoUCall, RunGenerator
<1>3. Placed(program, NewFrame("callee", ret, gen))
  BY TopPlaced, NewPlaced
<1>4. StackPlaced'
  BY <1>1, <1>2, <1>3, TopPlaced, PushGoes DEF JumpsInv
<1> QED
  BY <1>1, <1>4, GoesPlaced

\* The value a caller is told, or none.
LEMMA Told ==
  ASSUME NEW f, Placed(program, f), NEW ret, NEW x \in Value
  PROVE  LET g == IF ret = NoVar THEN f ELSE [f EXCEPT !.tmp[ret] = x]
         IN  OnlyMoved(f, g) /\ g.opline = f.opline /\ Placed(program, g)
<1> DEFINE g == IF ret = NoVar THEN f ELSE [f EXCEPT !.tmp[ret] = x]
<1>1. VarsOK(program[f.fn], f)
  BY DEF Placed, PlacedAt
<1>2. OnlyMoved(f, g) /\ g.opline = f.opline
  <2>1. CASE ret = NoVar
    BY <2>1, Unmoved
  <2>2. CASE ret # NoVar
    BY <2>2, <1>1, MovedTmp
  <2> QED
    BY <2>1, <2>2
<1> HIDE DEF g
<1>3. Placed(program, g)
  BY <1>2, Stays DEF Placed
<1> QED
  BY <1>2, <1>3 DEF g

LEMMA ReturnJumps ==
  ASSUME JumpsInv, Return \/ GeneratorReturn, ThrownInv'
  PROVE  JumpsInv'
<1> DEFINE caller == frames[Len(frames) - 1]
<1>1. program' = program /\ suspended' = << >> /\ pc = "run" /\ pc' \in {"run", "done"}
  BY DEF Return, GeneratorReturn, Running, JumpsInv
<1>2. CASE frames' = frames
  BY <1>1, <1>2, GoesPlaced DEF JumpsInv, StackPlaced
<1>3. CASE Return /\ frames' # frames
  <2> DEFINE g == IF EX.ret = NoVar THEN caller ELSE [caller EXCEPT !.tmp[EX.ret] = "live"]
  <2>1. Len(frames) # 1 /\ frames' = Append(SubSeq(frames, 1, Len(frames) - 2), NextOp(g))
    BY <1>3 DEF Return
  <2>2. Placed(program, caller) /\ Calls(program, caller)
    BY <2>1, CallerPlaced
  <2> HIDE DEF caller
  <2>3. OnlyMoved(caller, g) /\ g.opline = caller.opline
    BY <2>2, Told DEF Value
  <2> HIDE DEF g
  <2>4. Placed(program, NextOp(g))
    BY <2>2, <2>3, TopPlaced, NextOfCaller
  <2>5. StackPlaced'
    BY <2>1, <2>4, <1>1, TopPlaced, PopGoes DEF JumpsInv
  <2> QED
    BY <2>5, <1>1, GoesPlaced
<1>4. CASE GeneratorReturn
  <2>1. frames' = Append(SubSeq(frames, 1, Len(frames) - 2), NextOp(caller)) /\ Len(frames) # 1
    BY <1>4, TopPlaced, GeneratorFrame DEF GeneratorReturn
  <2>2. Placed(program, caller) /\ Calls(program, caller)
    BY <2>1, CallerPlaced
  <2>3. Placed(program, NextOp(caller))
    BY <2>2, TopPlaced, NextOfCaller, Unmoved
  <2>4. StackPlaced'
    BY <2>1, <2>3, <1>1, TopPlaced, PopGoes DEF JumpsInv
  <2> QED
    BY <2>4, <1>1, GoesPlaced
<1> QED
  BY <1>2, <1>3, <1>4

LEMMA CatchJumps == ASSUME JumpsInv, Catch, ThrownInv' PROVE JumpsInv'
<1>1. /\ program' = program /\ suspended' = << >> /\ pc' \in {"run", "handle"}
      /\ opline = program[EX.fn].opcodes[EX.opline] /\ opline.opcode = "CATCH"
  BY DEF Catch, Running, opline, OpArray, JumpsInv
<1>2. \/ frames' = SetTop(At(EX, opline.target))
      \/ frames' = SetTop(NextOp(EX))
      \/ frames' = frames
  BY DEF Catch
<1>3. Placed(program, At(EX, opline.target)) /\ Placed(program, NextOp(EX))
  BY <1>1, TopPlaced, OpsOK, LedTo, NextPlaced, Unmoved
<1>4. StackPlaced'
  <2>1. CASE frames' = frames
    BY <2>1, <1>1 DEF StackPlaced, JumpsInv
  <2>2. CASE frames' # frames
    BY <2>2, <1>1, <1>2, <1>3, TopPlaced, TopGoes DEF JumpsInv
  <2> QED
    BY <2>1, <2>2
<1> QED
  BY <1>1, <1>4, GoesPlaced

(***************************************************************************)
(* The dispatch helper.                                                    *)
(***************************************************************************)

\* A set of numbers has a least one, and a set of numbers up to n a greatest.
LEMMA Least ==
  ASSUME NEW S, S \subseteq Nat, S # {}
  PROVE  \E x \in S : \A y \in S : x <= y
<1>1. PICK x \in S : \A y \in S : ~(<<y, x>> \in OpToRel(<, Nat))
  BY NatLessThanWellFounded, WFMin, Zenon
<1>2. \A y \in S : ~(y < x)
  BY <1>1, Zenon DEF OpToRel
<1> QED
  BY <1>2

LEMMA Greatest ==
  ASSUME NEW n \in Nat, NEW S, S \subseteq 1 .. n, S # {}
  PROVE  \E i \in S : \A j \in S : j <= i
<1> DEFINE Above == {m \in Nat : \A j \in S : j <= m}
<1>1. n \in Above
  OBVIOUS
<1>2. PICK m \in Above : \A k \in Above : m <= k
  <2>1. Above \subseteq Nat /\ Above # {}
    BY <1>1
  <2> HIDE DEF Above
  <2> QED
    BY <2>1, Least
<1>3. m \in S
  <2> SUFFICES ASSUME m \notin S PROVE FALSE
    OBVIOUS
  <2>1. PICK j \in S : TRUE
    OBVIOUS
  <2>2. m \in Nat /\ 1 <= j /\ j <= m
    BY <1>2
  <2>3. m - 1 \in Nat /\ \A k \in S : k <= m - 1
    BY <1>2, <2>2
  <2> QED
    BY <1>2, <2>3
<1> QED
  BY <1>2, <1>3

\* The innermost block begins before the opcode, and so do the ones before it.
LEMMA InnermostOf ==
  ASSUME NEW f, NEW op, WellFormed(OpArray(f))
  PROVE  LET i == Innermost(f, op)
             tc == OpArray(f).try_catch
         IN  i \in Nat /\ (i # 0 => i \in DOMAIN tc /\ tc[i].try_op <= op)
<1> DEFINE tc == OpArray(f).try_catch
           around == {i \in DOMAIN tc : /\ tc[i].try_op <= op
                                        /\ op < tc[i].catch_op \/ op < tc[i].finally_end}
<1>1. CASE around = {}
  BY <1>1 DEF Innermost
<1>2. CASE around # {}
  <2>1. Len(tc) \in Nat /\ DOMAIN tc = 1 .. Len(tc)
    BY BlocksOK
  <2>2. around \subseteq 1 .. Len(tc)
    BY <2>1
  <2>3. \E i \in around : \A j \in around : j <= i
    <3> HIDE DEF around, tc
    <3> QED
      BY <1>2, <2>1, <2>2, Greatest
  <2>4. Innermost(f, op) \in around
    BY <1>2, <2>3 DEF Innermost
  <2> QED
    BY <2>1, <2>4
<1> QED
  BY <1>1, <1>2

LEMMA BlocksBefore ==
  ASSUME NEW a, WellFormed(a), NEW off \in 0 .. Len(a.try_catch), NEW op \in Nat,
         off # 0 => a.try_catch[off].try_op <= op
  PROVE  \A j \in 1 .. off : a.try_catch[j].try_op <= op
<1> SUFFICES ASSUME NEW j \in 1 .. off PROVE a.try_catch[j].try_op <= op
  OBVIOUS
<1>1. /\ Len(a.try_catch) \in Nat /\ off \in DOMAIN a.try_catch
      /\ j \in DOMAIN a.try_catch
  BY BlocksOK
<1>2. /\ a.try_catch[j].try_op \in Nat /\ a.try_catch[off].try_op \in Nat
      /\ a.try_catch[j].try_op <= a.try_catch[off].try_op
  BY <1>1, BlocksOK
<1>3. off # 0
  BY <1>1
<1> QED
  BY <1>2, <1>3

\* A finally block ahead of op, in a block that begins before op: outside of the blocks
\* around op it is in no finally block but itself.
LEMMA FinallyEntry ==
  ASSUME NEW a, WellFormed(a), NEW op \in Nat, NEW i \in DOMAIN a.try_catch,
         a.try_catch[i].try_op <= op, op < a.try_catch[i].finally_op
  PROVE  LET to == a.try_catch[i].finally_op
         IN  /\ to \in DOMAIN a.opcodes /\ FastCallOf(a, i) \in 1 .. a.T
             /\ \A b \in FinallyAround(a, to) :
                  b \in FinallyAround(a, op) \/ FastCallOf(a, b) = FastCallOf(a, i)
<1> DEFINE from == a.try_catch[i].try_op
           to == a.try_catch[i].finally_op
<1>1. /\ from \in Nat /\ to \in Nat
      /\ to # 0 => /\ to \in DOMAIN a.opcodes /\ FastCallOf(a, i) \in 1 .. a.T
                   /\ FinallyAround(a, to) \ {i} \subseteq FinallyAround(a, from)
  BY BlocksOK
<1>2. from <= op /\ op < to
  OBVIOUS
<1> HIDE DEF from, to
<1>3. to # 0 /\ op <= to
  BY <1>1, <1>2
<1>4. FinallyAround(a, from) \cap FinallyAround(a, to) \subseteq FinallyAround(a, op)
  BY <1>1, <1>2, <1>3, Between
<1> QED
  BY <1>1, <1>3, <1>4 DEF to

\* A catch block ahead of op.
LEMMA CatchEntry ==
  ASSUME NEW a, WellFormed(a), NEW op \in Nat, NEW i \in DOMAIN a.try_catch,
         a.try_catch[i].try_op <= op, op < a.try_catch[i].catch_op
  PROVE  Leads(a, op, a.try_catch[i].catch_op)
<1> DEFINE from == a.try_catch[i].try_op
           to == a.try_catch[i].catch_op
<1>1. from \in Nat /\ to \in Nat /\ (to # 0 => Leads(a, from, to))
  BY BlocksOK
<1>2. from <= op /\ op < to
  OBVIOUS
<1> HIDE DEF from, to
<1>3. to # 0 /\ op <= to
  BY <1>1, <1>2
<1>4. FinallyAround(a, from) \cap FinallyAround(a, to) \subseteq FinallyAround(a, op)
  BY <1>1, <1>2, <1>3, Between
<1> QED
  BY <1>1, <1>3, <1>4 DEF Leads, to

\* The helper begins, or goes on.
LEMMA WalkFrom ==
  ASSUME JumpsInv, program' = program, NEW g, EX' = g, g.fn = EX.fn,
         NEW off \in 0 .. Len(program[EX.fn].try_catch), NEW op \in Nat,
         walk' = [offset |-> off, op_num |-> op],
         off # 0 => program[EX.fn].try_catch[off].try_op <= op,
         Entered(program[EX.fn], g, op)
  PROVE  WalkPlaced'
<1>1. \A j \in 1 .. off : program[EX.fn].try_catch[j].try_op <= op
  BY TopPlaced, BlocksBefore
<1> QED
  BY <1>1 DEF WalkPlaced

LEMMA Dispatched ==
  ASSUME JumpsInv, ThrownInv', program' = program, suspended' = << >>, StackPlaced',
         pc' = "dispatch", WalkPlaced'
  PROVE  JumpsInv'
BY DEF JumpsInv

\* FAST_RET leaves its finally block: it goes on after the FAST_CALL, with the variables
\* set that were set there, or outwards from its own block.
LEMMA FastRetJumps == ASSUME JumpsInv, FastRet, ThrownInv' PROVE JumpsInv'
<1> DEFINE a == program[EX.fn]
           v == opline.op1
           ret == EX.fast[v].ret
<1>1. /\ program' = program /\ suspended' = << >> /\ pc = "run"
      /\ opline = a.opcodes[EX.opline] /\ opline.opcode = "FAST_RET"
  BY DEF FastRet, Running, opline, OpArray, JumpsInv
<1>2. /\ \E b \in FinallyAround(a, EX.opline) : FastCallOf(a, b) = v
      /\ opline.op2 = 0 \/ opline.op2 \in DOMAIN a.try_catch
      /\ opline.op2 # 0 => a.try_catch[opline.op2].try_op <= EX.opline
  BY <1>1, TopPlaced, OpsOK
<1>3. v \in 1 .. a.T /\ ret # Unset
  BY <1>2, TopPlaced, FastCallVars DEF Entered
<1>4. CASE ret # NoOp
  <2>1. frames' = SetTop(At(EX, ret + 1)) /\ pc' = pc
    BY <1>4 DEF FastRet
  <2>2. /\ ret \in DOMAIN a.opcodes /\ a.opcodes[ret].opcode = "FAST_CALL"
        /\ Entered(a, EX, ret)
    BY <1>3, <1>4, TopPlaced DEF VarsOK
  <2>3. Leads(a, ret, ret + 1)
    BY <2>2, TopPlaced, OpsOK
  <2>4. OnlyMoved(EX, At(EX, ret + 1)) /\ At(EX, ret + 1).opline = ret + 1
    BY TopPlaced, MovedParts
  <2> HIDE DEF ret
  <2>5. Placed(program, At(EX, ret + 1))
    BY <2>2, <2>3, <2>4, TopPlaced, Moves DEF Placed
  <2>6. StackPlaced'
    BY <1>1, <2>1, <2>5, TopPlaced, TopGoes DEF JumpsInv
  <2> QED
    BY <1>1, <2>1, <2>6, GoesPlaced
<1>5. CASE ret = NoOp
  <2> DEFINE g == [EX EXCEPT !.fast[v].obj = NoException]
  <2>1. /\ frames' = SetTop(g) /\ pc' = "dispatch"
        /\ walk' = [offset |-> opline.op2, op_num |-> EX.opline]
    BY <1>5 DEF FastRet
  <2>2. PlacedAt(program, g, EX.opline)
    BY TopPlaced, ObjectDropped DEF Placed
  <2>3. g.opline = EX.opline /\ g.fn = EX.fn
    BY TopPlaced DEF VarsOK, FrameFields
  <2> HIDE DEF g
  <2>4. StackPlaced' /\ EX' = g
    BY <1>1, <2>1, <2>2, <2>3, TopPlaced, TopGoes DEF Placed, JumpsInv
  <2>5. opline.op2 \in 0 .. Len(a.try_catch)
    BY <1>2, TopPlaced, BlocksOK
  <2>6. WalkPlaced'
    BY <1>1, <1>2, <2>1, <2>2, <2>3, <2>4, <2>5, TopPlaced, WalkFrom DEF PlacedAt
  <2> QED
    BY <1>1, <2>1, <2>4, <2>6, Dispatched
<1> QED
  BY <1>4, <1>5

LEMMA YieldJumps == ASSUME JumpsInv, Yield, ThrownInv' PROVE JumpsInv'
<1>1. /\ program' = program /\ pc' = "yielded" /\ frames' = Pop
      /\ suspended' = <<NextOp(EX)>> /\ EX.gen
      /\ program[EX.fn].opcodes[EX.opline].opcode = "YIELD"
  BY DEF Yield, Running, opline, OpArray
<1>2. Len(frames) # 1 /\ Len(frames) \in Nat \ {0}
  BY <1>1, TopPlaced, GeneratorFrame
<1>3. /\ Len(frames') = Len(frames) - 1 /\ 1 <= Len(frames) - 1
      /\ \A i \in 1 .. Len(frames) - 1 : frames'[i] = frames[i]
  BY <1>1, <1>2, TopPlaced, LeaveSeq, Zenon
<1>4. StackPlaced'
  <2>1. \A i \in 1 .. Len(frames) - 1 : Placed(program, frames'[i])
    BY <1>2, <1>3 DEF JumpsInv, StackPlaced
  <2>2. \A i \in 1 .. (Len(frames) - 1) - 1 : Calls(program, frames'[i])
    BY <1>2, <1>3 DEF JumpsInv, StackPlaced
  <2> QED
    BY <1>1, <1>3, <2>1, <2>2 DEF StackPlaced
<1>5. YieldPlaced'
  <2>1. EX' = frames[Len(frames) - 1]
    BY <1>2, <1>3 DEF EX
  <2>2. Calls(program, frames[Len(frames) - 1])
    BY <1>2, CallerPlaced
  <2>3. OnlyMoved(EX, NextOp(EX)) /\ NextOp(EX).opline = EX.opline + 1
    BY TopPlaced, MovedParts
  <2>4. Placed(program, NextOp(EX))
    BY <1>1, TopPlaced, NextPlaced, Unmoved
  <2>5. PlacedAt(program, NextOp(EX), NextOp(EX).opline - 1)
    <3>1. NextOp(EX).opline - 1 = EX.opline
      BY <2>3, TopPlaced
    <3> QED
      BY <2>3, <3>1, TopPlaced, Stays DEF Placed
  <2>6. suspended' # << >> /\ suspended'[1] = NextOp(EX)
    BY <1>1
  <2> QED
    BY <1>1, <2>1, <2>2, <2>4, <2>5, <2>6 DEF YieldPlaced
<1> QED
  BY <1>1, <1>4, <1>5 DEF JumpsInv

LEMMA YieldInClosedJumps == ASSUME JumpsInv, YieldInClosed, ThrownInv' PROVE JumpsInv'
<1>1. program' = program /\ suspended' = << >> /\ pc' = "handle" /\ frames' = SetTop(EX)
  BY DEF YieldInClosed, ThrowAt, Running, JumpsInv
<1>2. StackPlaced'
  BY <1>1, TopPlaced, TopGoes DEF JumpsInv
<1> QED
  BY <1>1, <1>2, GoesPlaced

LEMMA ResumeJumps == ASSUME JumpsInv, Resume, ThrownInv' PROVE JumpsInv'
<1>1. /\ program' = program /\ suspended' = << >> /\ pc' = "run"
      /\ frames' = Append(frames, suspended[1])
      /\ Calls(program, EX) /\ Placed(program, suspended[1])
  BY DEF Resume, JumpsInv, YieldPlaced
<1>2. StackPlaced'
  BY <1>1, TopPlaced, PushGoes DEF JumpsInv
<1> QED
  BY <1>1, <1>2, GoesPlaced

\* A destroyed generator runs the innermost finally block that is ahead of its YIELD, with
\* the variables set that were set at the YIELD, and this block's own.
LEMMA DestroyJumps == ASSUME JumpsInv, Destroy, ThrownInv' PROVE JumpsInv'
<1> DEFINE gen == suspended[1]
           op == gen.opline - 1
           a == program[gen.fn]
           tc == a.try_catch
           inner == Innermost(gen, op)
           ahead == {i \in 1 .. inner : op < tc[i].finally_op}
           last == IF ahead = {} THEN 0 ELSE CHOOSE i \in ahead : \A j \in ahead : j <= i
           v == FastCallOf(a, last)
           entry == [obj |-> NoException, ret |-> NoOp]
<1>1. program' = program /\ suspended' = << >> /\ pc' = "run"
  BY DEF Destroy
<1>2. /\ Calls(program, EX) /\ Placed(program, gen) /\ PlacedAt(program, gen, op)
  BY DEF Destroy, JumpsInv, YieldPlaced
<1>3. PICK vs :
        IF last = 0 THEN frames' = SetTop(NextOp(EX))
        ELSE frames' = Append(frames, At([FreeVars(gen, vs) EXCEPT
                                            !.forced = TRUE, !.fast[v] = entry],
                                         tc[last].finally_op))
  BY Zenon DEF Destroy, FastCallOf, OpArray
<1>4. CASE last = 0
  <2>1. Placed(program, NextOp(EX))
    BY <1>2, TopPlaced, NextOfCaller, Unmoved
  <2>2. StackPlaced'
    BY <1>1, <1>3, <1>4, <2>1, TopPlaced, TopGoes DEF JumpsInv
  <2> QED
    BY <1>1, <2>2, GoesPlaced
<1>5. CASE last # 0
  <2>1. /\ WellFormed(a) /\ VarsOK(a, gen) /\ Entered(a, gen, op) /\ gen.fn \in DOMAIN program
        /\ op \in DOMAIN a.opcodes
    BY <1>2, TopPlaced, ProgramOK DEF PlacedAt
  <2>2. op \in Nat
    BY <2>1, OpsOK
  <2>3. inner \in Nat /\ (inner # 0 => inner \in DOMAIN tc /\ tc[inner].try_op <= op)
    BY <2>1, InnermostOf DEF OpArray
  <2>4. last \in ahead
    <3> HIDE DEF inner
    <3>1. ahead \subseteq 1 .. inner /\ ahead # {}
      BY <1>5
    <3> HIDE DEF ahead
    <3>2. \E i \in ahead : \A j \in ahead : j <= i
      BY <2>3, <3>1, Greatest
    <3> QED
      BY <1>5, <3>2
  <2>5. /\ last \in DOMAIN tc /\ tc[last].try_op <= op /\ op < tc[last].finally_op
    <3> HIDE DEF inner, last
    <3>1. last \in 1 .. inner /\ op < tc[last].finally_op /\ inner # 0
      BY <2>3, <2>4
    <3>2. inner \in DOMAIN tc /\ tc[inner].try_op <= op
      BY <2>3, <3>1
    <3>3. DOMAIN tc = 1 .. Len(tc) /\ Len(tc) \in Nat
      BY <2>1, BlocksOK
    <3>4. last \in DOMAIN tc
      BY <2>3, <3>1, <3>2, <3>3
    <3>5. /\ tc[last].try_op \in Nat /\ tc[inner].try_op \in Nat
          /\ tc[last].try_op <= tc[inner].try_op
      BY <2>1, <3>1, <3>2, <3>4, BlocksOK
    <3> QED
      BY <2>2, <3>1, <3>2, <3>4, <3>5
  <2> HIDE DEF last, ahead, inner
  <2>6. /\ tc[last].finally_op \in DOMAIN a.opcodes /\ v \in 1 .. a.T
        /\ \A b \in FinallyAround(a, tc[last].finally_op) :
             b \in FinallyAround(a, op) \/ FastCallOf(a, b) = v
    BY <2>1, <2>2, <2>5, FinallyEntry
  <2> DEFINE f == [FreeVars(gen, vs) EXCEPT !.forced = TRUE]
             g == [f EXCEPT !.fast[v] = entry]
  <2>7. OnlyMoved(gen, f)
    <3>1. OnlyMoved(gen, FreeVars(gen, vs))
      BY <2>1, MovedParts
    <3> QED
      BY <2>1, <3>1 DEF OnlyMoved, VarsOK, FrameFields
  <2>8. [FreeVars(gen, vs) EXCEPT !.forced = TRUE, !.fast[v] = entry] = g
    OBVIOUS
  <2> HIDE DEF f
  <2>9. PlacedAt(program, f, op) /\ f.fn = gen.fn
    BY <1>2, <2>7, Stays DEF OnlyMoved
  <2>10. PlacedAt(program, g, tc[last].finally_op)
    BY <2>1, <2>6, <2>9, FastWritten DEF PlacedAt
  <2>11. frames' = Append(frames, At(g, tc[last].finally_op))
    BY <1>3, <1>5, <2>8
  <2> HIDE DEF g
  <2>12. Placed(program, At(g, tc[last].finally_op))
    <3>1. OnlyMoved(g, At(g, tc[last].finally_op)) /\ At(g, tc[last].finally_op).opline = tc[last].finally_op
      BY <2>10, MovedParts DEF PlacedAt
    <3> QED
      BY <3>1, <2>10, Stays DEF Placed
  <2>13. StackPlaced'
    BY <1>1, <1>2, <2>11, <2>12, TopPlaced, PushGoes DEF JumpsInv
  <2> QED
    BY <1>1, <2>13, GoesPlaced
<1> QED
  BY <1>4, <1>5

\* The look-up begins at the opcode that threw, or at the end of its loop: in no finally
\* block that the opcode is not in.
LEMMA HandleExceptionJumps == ASSUME JumpsInv, HandleException, ThrownInv' PROVE JumpsInv'
<1> DEFINE a == program[EX.fn]
           op_num == IF OnReturn(opline) THEN LoopRange(EX).end ELSE EX.opline
           vs == (IF OnReturn(opline) THEN FreedReturn(EX) ELSE {}) \cup ({opline.result} \ {NoVar})
           g == FreeVars(EX, vs)
           off == Innermost(EX, op_num)
<1>1. /\ program' = program /\ suspended' = << >> /\ pc' = "dispatch"
      /\ frames' = SetTop(g) /\ walk' = [offset |-> off, op_num |-> op_num]
      /\ opline = a.opcodes[EX.opline]
  BY DEF HandleException, JumpsInv, opline, OpArray
<1> HIDE DEF vs
<1>2. OnlyMoved(EX, g) /\ g.opline = EX.opline /\ g.fn = EX.fn
  BY TopPlaced, MovedParts DEF OnlyMoved
<1> HIDE DEF g
<1>3. op_num \in Nat /\ FinallyAround(a, op_num) \subseteq FinallyAround(a, EX.opline)
  <2>1. CASE OnReturn(opline)
    <3>1. \E r \in a.live_range :
            r.var = opline.op1 /\ r.start <= EX.opline /\ EX.opline < r.end
      BY <1>1, <2>1, TopPlaced DEF WellFormed
    <3>2. PICK r \in a.live_range :
            r = LoopRange(EX) /\ r.start <= EX.opline /\ EX.opline < r.end
      BY <1>1, <3>1, TopPlaced DEF LoopRange
    <3>3. /\ r.start \in Nat /\ r.end \in Nat
          /\ FinallyAround(a, r.end) \subseteq FinallyAround(a, r.start)
      BY TopPlaced, BlocksOK
    <3>4. FinallyAround(a, r.start) \cap FinallyAround(a, r.end)
            \subseteq FinallyAround(a, EX.opline)
      <4>1. EX.opline \in Nat /\ EX.opline <= r.end
        BY <3>2, <3>3, TopPlaced
      <4> QED
        BY <3>2, <3>3, <4>1, TopPlaced, Between
    <3> QED
      BY <2>1, <3>2, <3>3, <3>4
  <2>2. CASE ~OnReturn(opline)
    BY <2>2, TopPlaced
  <2> QED
    BY <2>1, <2>2
<1> HIDE DEF op_num
<1>4. off \in 0 .. Len(a.try_catch) /\ (off # 0 => a.try_catch[off].try_op <= op_num)
  <2>1. off \in Nat /\ (off # 0 => off \in DOMAIN a.try_catch /\ a.try_catch[off].try_op <= op_num)
    BY TopPlaced, InnermostOf
  <2>2. DOMAIN a.try_catch = 1 .. Len(a.try_catch) /\ Len(a.try_catch) \in Nat
    BY TopPlaced, BlocksOK
  <2> HIDE DEF off
  <2> QED
    BY <2>1, <2>2
<1> HIDE DEF off
<1>5. Placed(program, g)
  BY <1>2, TopPlaced, Stays DEF Placed
<1>6. StackPlaced' /\ EX' = g
  BY <1>1, <1>5, TopPlaced, TopGoes DEF JumpsInv
<1>7. Entered(a, g, op_num)
  BY <1>2, <1>3, TopPlaced DEF Entered, OnlyMoved
<1>8. WalkPlaced'
  BY <1>1, <1>2, <1>3, <1>4, <1>6, <1>7, WalkFrom
<1> QED
  BY <1>1, <1>6, <1>8, Dispatched

\* The block that the dispatch helper is at.
LEMMA BlockOf ==
  ASSUME JumpsInv, InBlocks
  PROVE  LET a == program[EX.fn]
         IN  /\ WalkPlaced /\ walk.op_num \in Nat /\ suspended = << >>
             /\ walk.offset \in DOMAIN a.try_catch /\ walk.offset \in Nat \ {0}
             /\ try_catch = a.try_catch[walk.offset]
             /\ try_catch.try_op <= walk.op_num
             /\ Entered(a, EX, walk.op_num)
             /\ DOMAIN a.try_catch = 1 .. Len(a.try_catch) /\ Len(a.try_catch) \in Nat
<1> DEFINE a == program[EX.fn]
<1>1. /\ WalkPlaced /\ walk.op_num \in Nat /\ suspended = << >>
      /\ walk.offset \in DOMAIN a.try_catch /\ try_catch = a.try_catch[walk.offset]
  BY DEF JumpsInv, InBlocks, ThrownInv, WalkOK, try_catch, OpArray
<1>2. DOMAIN a.try_catch = 1 .. Len(a.try_catch) /\ Len(a.try_catch) \in Nat
  BY TopPlaced, BlocksOK
<1>3. walk.offset \in Nat \ {0} /\ walk.offset \in 1 .. walk.offset
  BY <1>1, <1>2
<1> QED
  BY <1>1, <1>2, <1>3 DEF WalkPlaced

LEMMA GoToCatchJumps == ASSUME JumpsInv, GoToCatch, ThrownInv' PROVE JumpsInv'
<1> DEFINE to == try_catch.catch_op
           g == FreeVars(EX, LiveVars(EX, walk.op_num, to))
<1>1. /\ program' = program /\ suspended' = suspended /\ pc' = "run"
      /\ frames' = SetTop(At(g, to)) /\ InBlocks /\ walk.op_num < to
  BY DEF GoToCatch, JumpTo, CatchAhead
<1>2. Leads(program[EX.fn], walk.op_num, to)
  BY <1>1, TopPlaced, BlockOf, CatchEntry
<1>3. OnlyMoved(EX, g)
  BY TopPlaced, MovedParts
<1> HIDE DEF g
<1>4. PlacedAt(program, g, EX.opline)
  BY <1>3, TopPlaced, Stays DEF Placed
<1>5. OnlyMoved(EX, At(g, to)) /\ At(g, to).opline = to
  BY <1>3, <1>4, MovedParts, MovedTwice DEF PlacedAt
<1>6. Placed(program, At(g, to))
  BY <1>1, <1>2, <1>5, TopPlaced, BlockOf, Moves DEF Placed
<1>7. StackPlaced'
  BY <1>1, <1>6, TopPlaced, TopGoes DEF JumpsInv
<1> QED
  BY <1>1, <1>7, BlockOf, GoesPlaced

LEMMA GoToFinallyJumps == ASSUME JumpsInv, GoToFinally, ThrownInv' PROVE JumpsInv'
<1> DEFINE a == program[EX.fn]
           v == FastCallOf(a, walk.offset)
           to == try_catch.finally_op
           f == [EX EXCEPT !.fast[v] = [obj |-> exception, ret |-> NoOp]]
           vs == LiveVars(f, walk.op_num, to)
           g == FreeVars(f, vs)
<1>1. InBlocks /\ walk.op_num < to
  BY DEF GoToFinally, FinallyAhead
<1>2. FastCallVar = v
  BY <1>1, BlockOf DEF FastCallVar, FastCallOf, OpArray
<1>3. /\ program' = program /\ suspended' = suspended /\ pc' = "run"
      /\ frames' = SetTop(At(g, to))
  BY <1>2 DEF GoToFinally, JumpTo
<1>4. /\ to \in DOMAIN a.opcodes /\ v \in 1 .. a.T
      /\ \A b \in FinallyAround(a, to) :
           b \in FinallyAround(a, walk.op_num) \/ FastCallOf(a, b) = v
  BY <1>1, TopPlaced, BlockOf, FinallyEntry
<1>5. PlacedAt(program, f, to)
  BY <1>1, <1>4, TopPlaced, BlockOf, FastWritten
<1> HIDE DEF f, vs, to
<1>6. OnlyMoved(f, g)
  BY <1>5, MovedParts DEF PlacedAt
<1> HIDE DEF g
<1>7. PlacedAt(program, g, to)
  BY <1>5, <1>6, Stays
<1>8. OnlyMoved(g, At(g, to)) /\ At(g, to).opline = to
  BY <1>7, MovedParts DEF PlacedAt
<1>9. Placed(program, At(g, to))
  BY <1>7, <1>8, Stays DEF Placed
<1>10. StackPlaced'
  BY <1>3, <1>9, TopPlaced, TopGoes DEF JumpsInv
<1> QED
  BY <1>1, <1>3, <1>10, BlockOf, GoesPlaced

\* A block is passed: the next one outwards begins before it.
LEMMA OutwardsJumps ==
  ASSUME JumpsInv, SkipFinally \/ ChainPrevious \/ PassBlock, ThrownInv'
  PROVE  JumpsInv'
<1>1. /\ program' = program /\ suspended' = suspended /\ pc' = "dispatch"
      /\ walk' = [walk EXCEPT !.offset = @ - 1] /\ InBlocks
  BY DEF SkipFinally, ChainPrevious, PassBlock, InBlocks, Outwards
<1>2. PICK g : /\ OnlyMoved(EX, g) /\ g.opline = EX.opline
               /\ frames' = SetTop(g) \/ (frames' = frames /\ g = EX)
  <2>1. CASE frames' = frames
    BY <2>1, TopPlaced, Unmoved
  <2>2. CASE ChainPrevious
    <3>1. PICK vs : frames' = SetTop(FreeVars(EX, vs))
      BY <2>2 DEF ChainPrevious
    <3>2. OnlyMoved(EX, FreeVars(EX, vs)) /\ FreeVars(EX, vs).opline = EX.opline
      BY TopPlaced, MovedParts
    <3> QED
      BY <3>1, <3>2
  <2> QED
    BY <2>1, <2>2 DEF SkipFinally, PassBlock
<1>3. Placed(program, g)
  BY <1>2, TopPlaced, Stays DEF Placed
<1>4. StackPlaced' /\ EX' = g
  <2>1. CASE frames' = SetTop(g)
    BY <2>1, <1>1, <1>3, TopPlaced, TopGoes DEF JumpsInv
  <2>2. CASE frames' = frames /\ g = EX
    BY <2>2, <1>1 DEF JumpsInv, StackPlaced, EX
  <2> QED
    BY <1>2, <2>1, <2>2
<1>5. WalkPlaced'
  <2>1. walk'.offset = walk.offset - 1 /\ walk'.op_num = walk.op_num
    BY <1>1 DEF JumpsInv, ThrownInv, WalkOK
  <2>2. walk.offset - 1 \in 0 .. Len(program[EX.fn].try_catch)
    BY <1>1, BlockOf
  <2>3. \A j \in 1 .. walk.offset - 1 : program[EX.fn].try_catch[j].try_op <= walk.op_num
    BY <1>1, BlockOf DEF WalkPlaced
  <2>4. Entered(program[EX.fn], g, walk.op_num) /\ g.fn = EX.fn
    BY <1>1, <1>2, BlockOf DEF Entered, OnlyMoved
  <2> QED
    BY <1>1, <1>4, <2>1, <2>2, <2>3, <2>4 DEF WalkPlaced
<1> QED
  BY <1>1, <1>4, <1>5, BlockOf, Dispatched

LEMMA UncaughtJumps == ASSUME JumpsInv, Uncaught, ThrownInv' PROVE JumpsInv'
<1> DEFINE caller == frames[Len(frames) - 1]
           told == IF EX.ret = NoVar THEN caller ELSE [caller EXCEPT !.tmp[EX.ret] = "null"]
<1>1. program' = program /\ suspended' = << >> /\ pc' \in {"run", "handle", "done"}
  BY DEF Uncaught, JumpsInv
<1>2. CASE Len(frames) = 1
  <2>1. frames' = frames
    BY <1>2 DEF Uncaught
  <2> QED
    BY <1>1, <2>1, GoesPlaced DEF JumpsInv, StackPlaced
<1>3. CASE Len(frames) # 1
  <2>1. Placed(program, caller) /\ Calls(program, caller)
    BY <1>3, CallerPlaced
  <2>2. \/ frames' = Append(SubSeq(frames, 1, Len(frames) - 2), NextOp(caller))
        \/ frames' = Append(SubSeq(frames, 1, Len(frames) - 2), told)
    BY <1>3 DEF Uncaught
  <2> HIDE DEF caller
  <2>3. Placed(program, told)
    BY <2>1, Told DEF Value
  <2> HIDE DEF told
  <2>4. Placed(program, NextOp(caller))
    BY <2>1, TopPlaced, NextOfCaller, Unmoved
  <2>5. StackPlaced'
    BY <1>1, <1>3, <2>2, <2>3, <2>4, TopPlaced, PopGoes DEF JumpsInv
  <2> QED
    BY <1>1, <2>5, GoesPlaced
<1> QED
  BY <1>2, <1>3

LEMMA InitJumps == Init => JumpsInv
<1> SUFFICES ASSUME Init PROVE JumpsInv
  OBVIOUS
<1> DEFINE f == NewFrame("main", NoVar, FALSE)
<1>1. /\ program \in Programs /\ frames = <<f>> /\ suspended = << >> /\ pc = "run"
  BY DEF Init
<1>2. Placed(program, f)
  BY <1>1, NewPlaced
<1> HIDE DEF f
<1>3. StackPlaced
  BY <1>1, <1>2 DEF StackPlaced
<1> QED
  BY <1>1, <1>3, InitThrown DEF JumpsInv

LEMMA NextJumps == JumpsInv /\ [Next]_vars => JumpsInv'
<1> SUFFICES ASSUME JumpsInv, [Next]_vars PROVE JumpsInv'
  OBVIOUS
<1>1. ThrownInv'
  BY NextThrown DEF JumpsInv
<1>2. CASE Execute
  BY <1>1, <1>2, DoICallJumps, FreeJumps, JmpJumps, CallJumps, ReturnJumps, CatchJumps,
     FastCallJumps, FastRetJumps, DiscardJumps, YieldJumps, YieldInClosedJumps, ResumeJumps,
     DestroyJumps DEF Execute
<1>3. CASE Unwind
  BY <1>1, <1>3, HandleExceptionJumps, GoToCatchJumps, GoToFinallyJumps, OutwardsJumps,
     UncaughtJumps DEF Unwind
<1>4. CASE UNCHANGED vars
  BY <1>1, <1>4 DEF vars, JumpsInv, StackPlaced, WalkPlaced, YieldPlaced, EX
<1> QED
  BY <1>2, <1>3, <1>4 DEF Next, Done

\* Wherever the machine jumps - to a catch or a finally block, back after a FAST_CALL, into
\* the finally block of a generator that is destroyed, out of a call - it stays among the
\* opcodes of the frame's function, and a generator is suspended only while its caller
\* uses it (zend_vm_def.h:7870-8041, 8049-8125).
THEOREM JumpsStayInside == Spec => []TypeOK
<1>1. JumpsInv => TypeOK
  <2> SUFFICES ASSUME JumpsInv PROVE TypeOK
    OBVIOUS
  <2>1. frames # << >> /\ DOMAIN frames = 1 .. Len(frames)
    BY TopPlaced DEF StackOK
  <2>2. \A i \in DOMAIN frames :
          /\ frames[i].opline \in DOMAIN OpArray(frames[i]).opcodes
          /\ \A v \in DOMAIN frames[i].tmp : frames[i].tmp[v] \in Value
    BY <2>1 DEF JumpsInv, StackPlaced, Placed, PlacedAt, VarsOK, OpArray
  <2>3. pc = "dispatch" => walk.offset \in 0 .. Len(OpArray(EX).try_catch)
    BY DEF JumpsInv, WalkPlaced, OpArray
  <2>4. pc = "yielded" <=> suspended # << >>
    BY DEF JumpsInv, YieldPlaced
  <2> QED
    BY <2>1, <2>2, <2>3, <2>4 DEF TypeOK, JumpsInv
<1> QED
  BY InitJumps, NextJumps, <1>1, PTL DEF Spec

(***************************************************************************)
(* What the temporaries of a frame hold.  H: the values that the opcode    *)
(* finds; B: the finally blocks that the frame is in, in each of which the *)
(* value of the RETURN that called it may wait; lost: those LostReturn is  *)
(* about.                                                                  *)
(***************************************************************************)
IsSeq(s) == \E S : s \in Seq(S)

\* A frame of a: an opcode calls a finally block with the variable of its own.
Framed(a, f) ==
  /\ DOMAIN f = FrameFields
  /\ DOMAIN f.tmp = 1 .. a.T /\ DOMAIN f.fast = 1 .. a.T
  /\ \A v \in 1 .. a.T :
       LET entry == f.fast[v]
       IN  /\ DOMAIN entry = {"obj", "ret"} /\ IsSeq(entry.obj)
           /\ \/ entry.ret \in {Unset, NoOp}
              \/ /\ entry.ret \in DOMAIN a.opcodes /\ a.opcodes[entry.ret].opcode = "FAST_CALL"
                 /\ a.opcodes[entry.ret].result = v

Blocks(a) == {b \in DOMAIN a.try_catch : a.try_catch[b].finally_op # 0}

\* The value that waits for finally block b: of the RETURN that a FAST_CALL is on the way to.
WaitsFor(a, entry) == IF entry.ret = NoOp THEN {} ELSE {a.opcodes[entry.ret].op2} \ {NoVar}
Waits(a, f, b) == WaitsFor(a, f.fast[FastCallOf(a, b)])

\* What is not an exception in a finally block that is left is a generator that is closed.
EnteredRight(f, entry) ==
  entry.ret # Unset /\ (entry.ret = NoOp /\ entry.obj = NoException => f.gen)

Wanted(a, f, H, B, v) == v \in H \/ \E b \in B : v \in Waits(a, f, b)

Fits(a, lost, f, H, B) ==
  /\ Framed(a, f) /\ H \subseteq 1 .. a.T /\ B \subseteq Blocks(a)
  /\ \A b \in B : /\ EnteredRight(f, f.fast[FastCallOf(a, b)])
                  /\ Waits(a, f, b) \cap H = {}
                  /\ \A c \in B : c # b => Waits(a, f, c) \cap Waits(a, f, b) = {}
  /\ \A v \in 1 .. a.T :
       /\ Wanted(a, f, H, B, v) => f.tmp[v] = "live"
       /\ f.tmp[v] = "live" => Wanted(a, f, H, B, v) \/ v \in lost

Undef(f, vs) == {v \in vs : f.tmp[v] = "undef"}

(***************************************************************************)
(* Opcodes.                                                                *)
(***************************************************************************)

\* The variable of a finally block is its own.
LEMMA OwnVariable ==
  ASSUME NEW a, WellFormed(a), NEW b \in Blocks(a)
  PROVE  /\ FastCallOf(a, b) \in 1 .. a.T /\ b \in DOMAIN a.try_catch /\ b \in Nat \ {0}
         /\ \A c \in Blocks(a) : FastCallOf(a, c) = FastCallOf(a, b) => c = b
<1>1. b \in DOMAIN a.try_catch /\ a.try_catch[b].finally_op # 0
  BY DEF Blocks
<1>2. FastCallOf(a, b) \in 1 .. a.T /\ DOMAIN a.try_catch = 1 .. Len(a.try_catch)
  BY <1>1, BlocksOK
<1>3. \A c \in Blocks(a) : FastCallOf(a, c) = FastCallOf(a, b) => c = b
  BY <1>1 DEF WellFormed, RangesInPlace, Blocks
<1> QED
  BY <1>1, <1>2, <1>3

LEMMA BlocksAround ==
  ASSUME NEW a, NEW op
  PROVE  FinallyAround(a, op) \subseteq Blocks(a) /\ Inside(a, op) \subseteq FinallyAround(a, op)
BY DEF FinallyAround, Blocks, Inside

\* What waits is a temporary.
LEMMA WaitsIn ==
  ASSUME NEW a, WellFormed(a), NEW f, Framed(a, f), NEW b \in Blocks(a),
         EnteredRight(f, f.fast[FastCallOf(a, b)])
  PROVE  Waits(a, f, b) \subseteq 1 .. a.T
<1> DEFINE k == f.fast[FastCallOf(a, b)].ret
<1>1. CASE k = NoOp
  BY <1>1 DEF Waits, WaitsFor
<1>2. CASE k # NoOp
  <2>1. k \in DOMAIN a.opcodes /\ a.opcodes[k].opcode = "FAST_CALL"
    BY <1>2, OwnVariable DEF Framed, EnteredRight
  <2>2. /\ {a.opcodes[k].op2} \ {NoVar} \subseteq Held(a, k) /\ Held(a, k) \subseteq 1 .. a.T
    BY <2>1 DEF WellFormed, ValuesInPlace, Hands
  <2> QED
    BY <2>2, <1>2 DEF Waits, WaitsFor
<1> QED
  BY <1>1, <1>2

(***************************************************************************)
(* Frames.                                                                 *)
(***************************************************************************)

LEMMA FitsMoved ==
  ASSUME NEW a, NEW lost, NEW f, NEW H, NEW B, Fits(a, lost, f, H, B),
         NEW g, DOMAIN g = FrameFields, g.fast = f.fast, g.gen = f.gen,
         DOMAIN g.tmp = DOMAIN f.tmp, \A v \in 1 .. a.T : g.tmp[v] = f.tmp[v]
  PROVE  Fits(a, lost, g, H, B)
<1>1. Framed(a, g)
  BY DEF Fits, Framed
<1>2. \A b : Waits(a, g, b) = Waits(a, f, b) /\ g.fast[FastCallOf(a, b)] = f.fast[FastCallOf(a, b)]
  BY DEF Waits
<1>3. \A v : Wanted(a, g, H, B, v) <=> Wanted(a, f, H, B, v)
  BY <1>2 DEF Wanted
<1>4. \A b \in B : EnteredRight(g, g.fast[FastCallOf(a, b)])
  BY <1>2 DEF Fits, EnteredRight
<1> QED
  BY <1>1, <1>2, <1>3, <1>4, Zenon DEF Fits

LEMMA FitsMore ==
  ASSUME NEW a, NEW lost, NEW f, NEW H, NEW B, Fits(a, lost, f, H, B), NEW more, lost \subseteq more
  PROVE  Fits(a, more, f, H, B)
BY Zenon DEF Fits

\* A value that is lost need not be held.
LEMMA FitsLess ==
  ASSUME NEW a, NEW lost, NEW f, NEW H, NEW B, Fits(a, lost, f, H, B),
         NEW L \in SUBSET H, H \ L \subseteq lost
  PROVE  Fits(a, lost, f, L, B)
<1>1. \A v : Wanted(a, f, L, B, v) => Wanted(a, f, H, B, v)
  BY DEF Wanted
<1>2. \A v : Wanted(a, f, H, B, v) => Wanted(a, f, L, B, v) \/ v \in lost
  BY DEF Wanted
<1>3. \A b \in B : Waits(a, f, b) \cap L = {}
  BY DEF Fits
<1> QED
  BY <1>1, <1>2, <1>3 DEF Fits

LEMMA WaitsOnce ==
  ASSUME NEW a, NEW lost, NEW f, NEW H, NEW B, Fits(a, lost, f, H, B), NEW b \in B,
         NEW v \in Waits(a, f, b)
  PROVE  v \notin H /\ \A c \in B : v \in Waits(a, f, c) => c = b
BY DEF Fits

\* Some of the values are freed, and those that wait for some of the blocks: each is there.
LEMMA FitsFreed ==
  ASSUME NEW a, WellFormed(a), NEW lost, NEW f, NEW H, NEW B, Fits(a, lost, f, H, B),
         NEW vs \in SUBSET H, NEW C \in SUBSET B, NEW D,
         \A v : v \in D <=> v \in vs \/ \E b \in C : v \in Waits(a, f, b)
  PROVE  /\ Undef(f, D) = {}
         /\ Fits(a, lost, FreeVars(f, D), H \ vs, B \ C)
<1> DEFINE g == FreeVars(f, D)
<1>1. Framed(a, f) /\ H \subseteq 1 .. a.T /\ B \subseteq Blocks(a)
  BY DEF Fits
<1>2. /\ DOMAIN g = FrameFields /\ g.fast = f.fast /\ g.gen = f.gen
      /\ g.tmp = [v \in 1 .. a.T |-> IF v \in D /\ f.tmp[v] = "live" THEN "undef" ELSE f.tmp[v]]
  BY <1>1 DEF Framed, FreeVars, FrameFields
<1> HIDE DEF g
<1>3. Framed(a, g)
  BY <1>1, <1>2 DEF Framed
<1>4. \A b : Waits(a, g, b) = Waits(a, f, b) /\ g.fast[FastCallOf(a, b)] = f.fast[FastCallOf(a, b)]
  BY <1>2 DEF Waits
<1>5. \A v \in D : v \in 1 .. a.T /\ Wanted(a, f, H, B, v)
  <2> SUFFICES ASSUME NEW v \in D PROVE v \in 1 .. a.T /\ Wanted(a, f, H, B, v)
    OBVIOUS
  <2>1. CASE v \in vs
    BY <2>1, <1>1 DEF Wanted
  <2>2. CASE v \notin vs
    <3>1. PICK b \in C : v \in Waits(a, f, b)
      BY <2>2
    <3>2. b \in Blocks(a) /\ EnteredRight(f, f.fast[FastCallOf(a, b)])
      BY <1>1 DEF Fits
    <3> QED
      BY <1>1, <3>1, <3>2, WaitsIn DEF Wanted
  <2> QED
    BY <2>1, <2>2
<1>6. \A v \in D : f.tmp[v] = "live"
  BY <1>5 DEF Fits
<1>7. Undef(f, D) = {}
  BY <1>6 DEF Undef
<1>8. ASSUME NEW v \in 1 .. a.T
      PROVE  Wanted(a, g, H \ vs, B \ C, v) <=> Wanted(a, f, H, B, v) /\ v \notin D
  <2>1. ASSUME Wanted(a, g, H \ vs, B \ C, v) PROVE Wanted(a, f, H, B, v) /\ v \notin D
    <3>1. Wanted(a, f, H, B, v)
      BY <2>1, <1>4 DEF Wanted
    <3>2. CASE v \in H \ vs
      BY <3>1, <3>2, WaitsOnce
    <3>3. CASE \E b \in B \ C : v \in Waits(a, f, b)
      <4>1. PICK b \in B \ C : v \in Waits(a, f, b)
        BY <3>3
      <4> QED
        BY <3>1, <4>1, WaitsOnce
    <3> QED
      BY <2>1, <3>2, <3>3, <1>4 DEF Wanted
  <2>2. ASSUME Wanted(a, f, H, B, v), v \notin D PROVE Wanted(a, g, H \ vs, B \ C, v)
    BY <2>2, <1>4 DEF Wanted
  <2> QED
    BY <2>1, <2>2
<1>9. \A v \in 1 .. a.T :
        /\ Wanted(a, g, H \ vs, B \ C, v) => g.tmp[v] = "live"
        /\ g.tmp[v] = "live" => Wanted(a, g, H \ vs, B \ C, v) \/ v \in lost
  <2> SUFFICES ASSUME NEW v \in 1 .. a.T
               PROVE  /\ Wanted(a, g, H \ vs, B \ C, v) => g.tmp[v] = "live"
                      /\ g.tmp[v] = "live" => Wanted(a, g, H \ vs, B \ C, v) \/ v \in lost
    OBVIOUS
  <2>1. g.tmp[v] = IF v \in D /\ f.tmp[v] = "live" THEN "undef" ELSE f.tmp[v]
    BY <1>2
  <2>2. /\ Wanted(a, f, H, B, v) => f.tmp[v] = "live"
        /\ f.tmp[v] = "live" => Wanted(a, f, H, B, v) \/ v \in lost
    BY DEF Fits
  <2>3. Wanted(a, g, H \ vs, B \ C, v) <=> Wanted(a, f, H, B, v) /\ v \notin D
    BY <1>8
  <2>4. g.tmp[v] = "live" <=> f.tmp[v] = "live" /\ v \notin D
    BY <2>1
  <2> QED
    BY <2>2, <2>3, <2>4
<1>10. \A b \in B \ C :
         /\ EnteredRight(g, g.fast[FastCallOf(a, b)])
         /\ Waits(a, g, b) \cap (H \ vs) = {}
         /\ \A c \in B \ C : c # b => Waits(a, g, c) \cap Waits(a, g, b) = {}
  BY <1>2, <1>4 DEF Fits, EnteredRight
<1>11. Fits(a, lost, g, H \ vs, B \ C)
  BY <1>1, <1>3, <1>9, <1>10 DEF Fits
<1> QED
  BY <1>7, <1>11 DEF g

\* A temporary is written that nothing waits in.
LEMMA FitsWritten ==
  ASSUME NEW a, NEW lost, NEW f, NEW H, NEW B, Fits(a, lost, f, H, B),
         NEW v \in 1 .. a.T, \A b \in B : v \notin Waits(a, f, b), NEW x
  PROVE  Fits(a, lost, [f EXCEPT !.tmp[v] = x], IF x = "live" THEN H \cup {v} ELSE H \ {v}, B)
<1> DEFINE g == [f EXCEPT !.tmp[v] = x]
           G == IF x = "live" THEN H \cup {v} ELSE H \ {v}
<1>1. Framed(a, f) /\ H \subseteq 1 .. a.T /\ B \subseteq Blocks(a)
  BY DEF Fits
<1>2. /\ DOMAIN g = FrameFields /\ g.fast = f.fast /\ g.gen = f.gen
      /\ DOMAIN g.tmp = 1 .. a.T /\ g.tmp[v] = x
      /\ \A w \in 1 .. a.T : w # v => g.tmp[w] = f.tmp[w]
  BY <1>1 DEF Framed, FrameFields
<1> HIDE DEF g
<1>3. Framed(a, g)
  BY <1>1, <1>2 DEF Framed
<1>4. \A b : Waits(a, g, b) = Waits(a, f, b) /\ g.fast[FastCallOf(a, b)] = f.fast[FastCallOf(a, b)]
  BY <1>2 DEF Waits
<1>5. /\ G \subseteq 1 .. a.T /\ \A w : w # v => (w \in G <=> w \in H)
      /\ v \in G <=> x = "live"
  BY <1>1
<1> HIDE DEF G
<1>6. \A w : w # v => (Wanted(a, g, G, B, w) <=> Wanted(a, f, H, B, w))
  BY <1>4, <1>5 DEF Wanted
<1>7. Wanted(a, g, G, B, v) <=> x = "live"
  BY <1>4, <1>5 DEF Wanted
<1>8. \A b \in B : /\ EnteredRight(g, g.fast[FastCallOf(a, b)])
                   /\ Waits(a, g, b) \cap G = {}
                   /\ \A c \in B : c # b => Waits(a, g, c) \cap Waits(a, g, b) = {}
  BY <1>2, <1>4, <1>5 DEF Fits, EnteredRight
<1>9. \A w \in 1 .. a.T : /\ Wanted(a, g, G, B, w) => g.tmp[w] = "live"
                          /\ g.tmp[w] = "live" => Wanted(a, g, G, B, w) \/ w \in lost
  <2> SUFFICES ASSUME NEW w \in 1 .. a.T
               PROVE  /\ Wanted(a, g, G, B, w) => g.tmp[w] = "live"
                      /\ g.tmp[w] = "live" => Wanted(a, g, G, B, w) \/ w \in lost
    OBVIOUS
  <2>1. CASE w = v
    BY <2>1, <1>2, <1>7
  <2>2. CASE w # v
    BY <2>2, <1>2, <1>6 DEF Fits
  <2> QED
    BY <2>1, <2>2
<1>10. Fits(a, lost, g, G, B)
  BY <1>1, <1>3, <1>5, <1>8, <1>9 DEF Fits
<1> QED
  BY <1>10 DEF g, G

\* A finally block is entered: the value of the RETURN, if one called it, waits.
LEMMA FitsEntered ==
  ASSUME NEW a, WellFormed(a), NEW lost, NEW f, NEW H, NEW B, Fits(a, lost, f, H, B),
         NEW b \in Blocks(a), b \notin B, NEW entry, DOMAIN entry = {"obj", "ret"},
         IsSeq(entry.obj), EnteredRight(f, entry), WaitsFor(a, entry) \subseteq H,
         \/ entry.ret = NoOp
         \/ /\ entry.ret \in DOMAIN a.opcodes /\ a.opcodes[entry.ret].opcode = "FAST_CALL"
            /\ a.opcodes[entry.ret].result = FastCallOf(a, b)
  PROVE  Fits(a, lost, [f EXCEPT !.fast[FastCallOf(a, b)] = entry],
              H \ WaitsFor(a, entry), B \cup {b})
<1> DEFINE v == FastCallOf(a, b)
           g == [f EXCEPT !.fast[v] = entry]
           W == WaitsFor(a, entry)
<1>1. Framed(a, f) /\ H \subseteq 1 .. a.T /\ B \subseteq Blocks(a)
  BY DEF Fits
<1>2. v \in 1 .. a.T /\ \A c \in B : FastCallOf(a, c) # v
  BY <1>1, OwnVariable
<1> HIDE DEF v, W
<1>3. /\ DOMAIN g = FrameFields /\ g.tmp = f.tmp /\ g.gen = f.gen
      /\ DOMAIN g.fast = 1 .. a.T /\ g.fast[v] = entry
      /\ \A w \in 1 .. a.T : w # v => g.fast[w] = f.fast[w]
  BY <1>1, <1>2 DEF Framed, FrameFields
<1> HIDE DEF g
<1>4. Framed(a, g)
  BY <1>1, <1>2, <1>3 DEF Framed, v
<1>5. \A c \in B : g.fast[FastCallOf(a, c)] = f.fast[FastCallOf(a, c)]
  BY <1>1, <1>2, <1>3, OwnVariable
<1>6. /\ \A c \in B : Waits(a, g, c) = Waits(a, f, c)
      /\ Waits(a, g, b) = W
  BY <1>3, <1>5 DEF Waits, v, W
<1>7. \A w : Wanted(a, g, H \ W, B \cup {b}, w) <=> Wanted(a, f, H, B, w)
  <2> SUFFICES ASSUME NEW w
               PROVE  Wanted(a, g, H \ W, B \cup {b}, w) <=> Wanted(a, f, H, B, w)
    OBVIOUS
  <2>1. (w \in H \ W \/ w \in W) <=> w \in H
    BY DEF W
  <2>2. (\E c \in B \cup {b} : w \in Waits(a, g, c))
          <=> (\E c \in B : w \in Waits(a, f, c)) \/ w \in W
    BY <1>6
  <2> QED
    BY <2>1, <2>2 DEF Wanted
<1>8. ASSUME NEW c \in B \cup {b}
      PROVE  /\ EnteredRight(g, g.fast[FastCallOf(a, c)])
             /\ Waits(a, g, c) \cap (H \ W) = {}
             /\ \A d \in B \cup {b} : d # c => Waits(a, g, d) \cap Waits(a, g, c) = {}
  <2>1. EnteredRight(g, g.fast[FastCallOf(a, c)])
    <3>1. CASE c = b
      BY <3>1, <1>3 DEF EnteredRight, v
    <3>2. CASE c # b
      BY <3>2, <1>3, <1>5 DEF EnteredRight, Fits
    <3> QED
      BY <3>1, <3>2
  <2>2. \A d \in B : Waits(a, f, d) \cap H = {}
    BY DEF Fits
  <2>3. \A d \in B : Waits(a, f, d) \cap W = {}
    BY <2>2 DEF W
  <2>4. \A d \in B, e \in B : d # e => Waits(a, f, d) \cap Waits(a, f, e) = {}
    BY DEF Fits
  <2> QED
    BY <2>1, <2>2, <2>3, <2>4, <1>6
<1>9. Fits(a, lost, g, H \ W, B \cup {b})
  BY <1>1, <1>3, <1>4, <1>7, <1>8 DEF Fits
<1> QED
  BY <1>9 DEF g, v, W

\* A finally block is left: what waited is held again.
LEMMA FitsLeft ==
  ASSUME NEW a, WellFormed(a), NEW lost, NEW f, NEW H, NEW B, Fits(a, lost, f, H, B), NEW b \in B
  PROVE  Fits(a, lost, f, H \cup Waits(a, f, b), B \ {b})
<1> DEFINE W == Waits(a, f, b)
<1>1. B \subseteq Blocks(a) /\ H \subseteq 1 .. a.T
  BY DEF Fits
<1>2. W \subseteq 1 .. a.T
  BY <1>1, WaitsIn DEF Fits
<1>3. \A w : Wanted(a, f, H \cup W, B \ {b}, w) <=> Wanted(a, f, H, B, w)
  BY DEF Wanted
<1>4. \A c \in B \ {b} : Waits(a, f, c) \cap (H \cup W) = {}
  BY DEF Fits
<1> HIDE DEF W
<1>5. Fits(a, lost, f, H \cup W, B \ {b})
  BY <1>1, <1>2, <1>3, <1>4 DEF Fits
<1> QED
  BY <1>5 DEF W

\* The object of a variable is dropped that no block around has.
LEMMA FitsDropped ==
  ASSUME NEW a, WellFormed(a), NEW lost, NEW f, NEW H, NEW B, Fits(a, lost, f, H, B),
         NEW v \in 1 .. a.T, \A b \in B : FastCallOf(a, b) # v
  PROVE  Fits(a, lost, [f EXCEPT !.fast[v].obj = NoException], H, B)
<1> DEFINE g == [f EXCEPT !.fast[v].obj = NoException]
<1>1. Framed(a, f) /\ H \subseteq 1 .. a.T /\ B \subseteq Blocks(a)
  BY DEF Fits
<1>2. DOMAIN f = FrameFields /\ DOMAIN f.fast = 1 .. a.T /\ DOMAIN f.fast[v] = {"obj", "ret"}
  BY <1>1 DEF Framed
<1>3. /\ DOMAIN g = FrameFields /\ g.tmp = f.tmp /\ g.gen = f.gen
      /\ DOMAIN g.fast = 1 .. a.T
      /\ g.fast[v] = [f.fast[v] EXCEPT !.obj = NoException]
      /\ \A w \in 1 .. a.T : w # v => g.fast[w] = f.fast[w]
  BY <1>2 DEF FrameFields
<1> HIDE DEF g
<1>4. /\ DOMAIN g.fast[v] = {"obj", "ret"} /\ g.fast[v].obj = << >> /\ g.fast[v].ret = f.fast[v].ret
  BY <1>2, <1>3 DEF NoException
<1>5. IsSeq(<< >>)
  <2>1. << >> \in Seq({})
    OBVIOUS
  <2> QED
    BY <2>1, Zenon DEF IsSeq
<1>6. Framed(a, g)
  BY <1>1, <1>3, <1>4, <1>5 DEF Framed
<1>7. \A c \in B : g.fast[FastCallOf(a, c)] = f.fast[FastCallOf(a, c)]
  BY <1>1, <1>3, OwnVariable
<1>8. \A c \in B : Waits(a, g, c) = Waits(a, f, c)
  BY <1>7 DEF Waits
<1>9. \A w : Wanted(a, g, H, B, w) <=> Wanted(a, f, H, B, w)
  BY <1>8 DEF Wanted
<1>10. \A b \in B : EnteredRight(g, g.fast[FastCallOf(a, b)])
  BY <1>3, <1>7 DEF Fits, EnteredRight
<1>11. Fits(a, lost, g, H, B)
  BY <1>1, <1>3, <1>6, <1>8, <1>9, <1>10 DEF Fits
<1> QED
  BY <1>11 DEF g

\* At its end a frame holds what is lost and nothing else.
LEMMA FitsEnd ==
  ASSUME NEW a, NEW lost, NEW f, Fits(a, lost, f, {}, {})
  PROVE  \A v \in DOMAIN f.tmp : f.tmp[v] = "live" => v \in lost
BY DEF Fits, Framed, Wanted

(***************************************************************************)
(* The invariant: each frame holds what the opcode it is at finds - or has *)
(* thrown with, or the dispatch helper has not freed yet - and a frame     *)
(* below waits for the one above.                                          *)
(***************************************************************************)
Lost == [fn \in DOMAIN program |-> {v \in 1 .. program[fn].T : LostReturn(fn, v)}]

\* For a program p and what is lost of its functions' values.
FrameFits(p, lost, f, H, B) ==
  f.fn \in DOMAIN p /\ Fits(p[f.fn], lost[f.fn], f, H, B)
FitsAt(p, lost, f, op) == FrameFits(p, lost, f, Held(p[f.fn], op), Inside(p[f.fn], op))

\* Frame g answers the call that frame f is at.
Answers(p, f, g) ==
  LET op == p[f.fn].opcodes[f.opline]
  IN  g.ret = op.result /\ (g.gen <=> op.opcode = "RUN_GENERATOR")

StackFits ==
  \A i \in 1 .. Len(frames) - 1 :
    /\ FitsAt(program, Lost, frames[i], frames[i].opline)
    /\ Answers(program, frames[i], frames[i + 1])

Throwing == {"DO_ICALL", "DO_UCALL", "FREE", "CATCH", "YIELD", "RUN_GENERATOR"}
Taken(op) == IF op.opcode = "FREE" THEN {op.op1} ELSE {}

ThrownFits ==
  LET a == program[EX.fn]
      op == a.opcodes[EX.opline]
  IN  /\ op.opcode \in Throwing
      /\ op.result # NoVar => EX.tmp[op.result] = "null"
      /\ FrameFits(program, Lost, EX, Held(a, EX.opline) \ Taken(op), Inside(a, EX.opline))
      /\ OnReturn(op) => \E n \in DOMAIN log : log[n][1] = op.label /\ log[n][2] # "ok"

\* The dispatch helper has given up the RETURNs of the finally blocks that it has left.
LeftAt(a, op, off) == {b \in FinallyAround(a, op) : b <= off}
BlocksLeft == LeftAt(program[EX.fn], walk.op_num, walk.offset)
WalkFits ==
  /\ FrameFits(program, Lost, EX, InRange(program[EX.fn], walk.op_num), BlocksLeft)
  /\ \A b \in BlocksLeft : walk.op_num < program[EX.fn].try_catch[b].finally_end

TopFits ==
  /\ pc \in {"run", "yielded"} => FitsAt(program, Lost, EX, EX.opline)
  /\ pc = "handle" => ThrownFits
  /\ pc = "dispatch" => WalkFits
  /\ pc \in {"handle", "dispatch"} /\ exception = NoException => EX.gen

GeneratorFits ==
  LET gen == suspended[1]
      ops == program[gen.fn].opcodes
  IN  pc = "yielded" =>
        /\ program[EX.fn].opcodes[EX.opline].opcode = "RUN_GENERATOR"
        /\ FitsAt(program, Lost, gen, gen.opline - 1) /\ gen.gen /\ gen.ret = NoVar
        /\ ops[gen.opline - 1].opcode = "YIELD"

MisuseLost ==
  \A m \in misuse : \E fn, v : m = <<"leaked", fn, v>> /\ LostReturn(fn, v)

ValuesInv ==
  /\ JumpsInv
  /\ IsSeq(log) /\ IsSeq(exception)
  /\ StackFits /\ TopFits /\ GeneratorFits
  /\ MisuseLost

(***************************************************************************)
(* The log grows, and what is lost stays lost.                             *)
(***************************************************************************)
Grows ==
  /\ program' = program
  /\ IsSeq(log')
  /\ DOMAIN log \subseteq DOMAIN log' /\ \A n \in DOMAIN log : log'[n] = log[n]

LEMMA SameLog == ASSUME IsSeq(log), program' = program, log' = log PROVE Grows
BY DEF Grows

LEMMA LogAppended ==
  ASSUME IsSeq(log), program' = program, NEW x, log' = Append(log, x)
  PROVE  /\ Grows
         /\ \E n \in DOMAIN log' : log'[n] = x
<1>1. PICK S : log \in Seq(S)
  BY Zenon DEF IsSeq
<1>2. /\ log' \in Seq(S \cup {x}) /\ Len(log) \in Nat /\ Len(log') = Len(log) + 1
      /\ log'[Len(log) + 1] = x /\ \A n \in 1 .. Len(log) : log'[n] = log[n]
      /\ DOMAIN log = 1 .. Len(log) /\ DOMAIN log' = 1 .. Len(log')
  BY <1>1
<1>3. IsSeq(log')
  BY <1>2, Zenon DEF IsSeq
<1>4. Len(log) + 1 \in DOMAIN log' /\ DOMAIN log \subseteq DOMAIN log'
  BY <1>2
<1> QED
  BY <1>2, <1>3, <1>4 DEF Grows

LEMMA LostStays ==
  ASSUME Grows
  PROVE  /\ \A fn, v : LostReturn(fn, v) => LostReturn(fn, v)'
         /\ \A fn \in DOMAIN program : Lost[fn] \subseteq Lost'[fn]
<1>1. ASSUME NEW fn, NEW v, LostReturn(fn, v) PROVE LostReturn(fn, v)'
  <2> DEFINE ops == program[fn].opcodes
  <2>1. PICK i \in DOMAIN ops, j \in DOMAIN ops :
          /\ i < j /\ OnReturn(ops[i]) /\ ops[j].opcode = "RETURN" /\ ops[j].op1 = v
          /\ \E k \in i .. j : ops[k].opcode \in {"FAST_CALL", "DISCARD_EXCEPTION"}
          /\ \E n \in DOMAIN log : log[n][1] = ops[i].label /\ log[n][2] # "ok"
    BY <1>1, Zenon DEF LostReturn
  <2>2. \E n \in DOMAIN log' : log'[n][1] = ops[i].label /\ log'[n][2] # "ok"
    BY <2>1 DEF Grows
  <2>3. program' = program
    BY DEF Grows
  <2> QED
    BY <2>1, <2>2, <2>3, Zenon DEF LostReturn
<1> QED
  BY <1>1 DEF Lost, Grows

\* A frame that fits goes on to fit.
LEMMA FrameStays ==
  ASSUME Grows, NEW f, NEW H, NEW B, FrameFits(program, Lost, f, H, B)
  PROVE  FrameFits(program, Lost', f, H, B)
<1>1. /\ f.fn \in DOMAIN program /\ Lost[f.fn] \subseteq Lost'[f.fn]
      /\ Fits(program[f.fn], Lost[f.fn], f, H, B)
  BY LostStays DEF FrameFits
<1>2. Fits(program[f.fn], Lost'[f.fn], f, H, B)
  BY <1>1, FitsMore
<1> QED
  BY <1>1, <1>2 DEF FrameFits

LEMMA FitsStays ==
  ASSUME Grows, NEW f, NEW op, FitsAt(program, Lost, f, op)
  PROVE  FitsAt(program, Lost', f, op)
BY FrameStays DEF FitsAt

\* The same call of the same function.
SameCall(f, g) == g.fn = f.fn /\ g.ret = f.ret /\ g.gen = f.gen

LEMMA SameAnswer ==
  ASSUME NEW p, NEW f, NEW g, NEW h, Answers(p, f, g), SameCall(g, h)
  PROVE  Answers(p, f, h)
BY DEF Answers, SameCall

LEMMA StackTop ==
  ASSUME StackOK, StackFits, Grows, NEW g, SameCall(EX, g), frames' = SetTop(g)
  PROVE  StackFits' /\ EX' = g
<1>1. Len(frames) \in Nat \ {0} /\ EX = frames[Len(frames)] /\ program' = program
  BY TopFrame DEF Grows
<1>2. /\ Len(frames') = Len(frames) /\ frames'[Len(frames)] = g
      /\ \A i \in 1 .. Len(frames) : i # Len(frames) => frames'[i] = frames[i]
  BY TopSeq, Zenon
<1>3. ASSUME NEW i \in 1 .. Len(frames) - 1
      PROVE  /\ FitsAt(program, Lost', frames'[i], frames'[i].opline)
             /\ Answers(program, frames'[i], frames'[i + 1])
  <2>1. i \in 1 .. Len(frames) /\ i # Len(frames) /\ i + 1 \in 1 .. Len(frames)
    BY <1>1
  <2>2. frames'[i] = frames[i]
    BY <1>2, <2>1
  <2>3. FitsAt(program, Lost, frames[i], frames[i].opline)
        /\ Answers(program, frames[i], frames[i + 1])
    BY DEF StackFits
  <2>4. SameCall(frames[i + 1], frames'[i + 1])
    BY <1>1, <1>2, <2>1 DEF SameCall
  <2> QED
    BY <2>2, <2>3, <2>4, FitsStays, SameAnswer
<1>4. StackFits'
  BY <1>1, <1>2, <1>3 DEF StackFits
<1> QED
  BY <1>2, <1>4 DEF EX

\* A call.
LEMMA StackPush ==
  ASSUME StackOK, StackFits, Grows, NEW g, Answers(program, EX, g),
         FitsAt(program, Lost, EX, EX.opline), frames' = Append(frames, g)
  PROVE  StackFits' /\ EX' = g
<1>1. Len(frames) \in Nat \ {0} /\ EX = frames[Len(frames)] /\ program' = program
  BY TopFrame DEF Grows
<1>2. /\ Len(frames') = Len(frames) + 1 /\ frames'[Len(frames) + 1] = g
      /\ \A i \in 1 .. Len(frames) : frames'[i] = frames[i]
  BY PushSeq, Zenon
<1>3. ASSUME NEW i \in 1 .. Len(frames)
      PROVE  /\ FitsAt(program, Lost', frames'[i], frames'[i].opline)
             /\ Answers(program, frames'[i], frames'[i + 1])
  <2>1. frames'[i] = frames[i]
    BY <1>2
  <2>2. CASE i = Len(frames)
    BY <1>1, <1>2, <2>1, <2>2, FitsStays
  <2>3. CASE i # Len(frames)
    <3>1. i \in 1 .. Len(frames) - 1 /\ i + 1 \in 1 .. Len(frames)
      BY <1>1, <2>3
    <3>2. FitsAt(program, Lost, frames[i], frames[i].opline)
          /\ Answers(program, frames[i], frames[i + 1])
      BY <3>1 DEF StackFits
    <3> QED
      BY <1>2, <2>1, <3>1, <3>2, FitsStays
  <2> QED
    BY <2>2, <2>3
<1>4. Len(frames') - 1 = Len(frames)
  BY <1>1, <1>2
<1>5. StackFits'
  BY <1>1, <1>3, <1>4 DEF StackFits
<1> QED
  BY <1>2, <1>5 DEF EX

\* A return to the frame below.
LEMMA StackPop ==
  ASSUME StackOK, StackFits, Grows, Len(frames) # 1, NEW g,
         SameCall(frames[Len(frames) - 1], g),
         frames' = Append(SubSeq(frames, 1, Len(frames) - 2), g)
  PROVE  StackFits' /\ EX' = g
<1>1. Len(frames) \in Nat \ {0} /\ program' = program
  BY TopFrame DEF Grows
<1>2. /\ Len(frames) >= 2
      /\ Len(frames') = Len(frames) - 1 /\ frames'[Len(frames) - 1] = g
      /\ \A i \in 1 .. Len(frames) - 2 : frames'[i] = frames[i]
  BY PopSeq, Zenon
<1>3. ASSUME NEW i \in 1 .. Len(frames) - 2
      PROVE  /\ FitsAt(program, Lost', frames'[i], frames'[i].opline)
             /\ Answers(program, frames'[i], frames'[i + 1])
  <2>1. i \in 1 .. Len(frames) - 1 /\ frames'[i] = frames[i]
    BY <1>1, <1>2
  <2>2. FitsAt(program, Lost, frames[i], frames[i].opline)
        /\ Answers(program, frames[i], frames[i + 1])
    BY <2>1 DEF StackFits
  <2>3. SameCall(frames[i + 1], frames'[i + 1])
    <3>1. CASE i + 1 = Len(frames) - 1
      BY <3>1, <1>2
    <3>2. CASE i + 1 # Len(frames) - 1
      <4>1. i + 1 \in 1 .. Len(frames) - 2
        BY <1>1, <3>2
      <4> QED
        BY <4>1, <1>2 DEF SameCall
    <3> QED
      BY <3>1, <3>2
  <2> QED
    BY <2>1, <2>2, <2>3, FitsStays, SameAnswer
<1>4. Len(frames') - 1 = Len(frames) - 2
  BY <1>1, <1>2
<1>5. StackFits'
  BY <1>1, <1>3, <1>4 DEF StackFits
<1> QED
  BY <1>2, <1>5 DEF EX

\* The frame below the running one.
LEMMA CallerFits ==
  ASSUME StackOK, StackFits, Len(frames) # 1
  PROVE  LET caller == frames[Len(frames) - 1]
         IN  FitsAt(program, Lost, caller, caller.opline) /\ Answers(program, caller, EX)
<1>1. Len(frames) \in Nat \ {0} /\ EX = frames[Len(frames)]
  BY TopFrame
<1>2. \A n \in Nat \ {0} : n # 1 => n - 1 \in 1 .. n - 1 /\ (n - 1) + 1 = n
  OBVIOUS
<1>3. Len(frames) - 1 \in 1 .. Len(frames) - 1 /\ (Len(frames) - 1) + 1 = Len(frames)
  BY <1>1, <1>2, Zenon
<1> QED
  BY <1>1, <1>3 DEF StackFits

\* A generator leaves the stack where it yields.
LEMMA StackLeave ==
  ASSUME StackOK, StackFits, Grows, Len(frames) # 1, frames' = Pop
  PROVE  StackFits' /\ EX' = frames[Len(frames) - 1]
<1>1. Len(frames) \in Nat \ {0} /\ program' = program
  BY TopFrame DEF Grows
<1>2. /\ Len(frames') = Len(frames) - 1 /\ 1 <= Len(frames) - 1
      /\ \A i \in 1 .. Len(frames) - 1 : frames'[i] = frames[i]
  BY LeaveSeq, Zenon
<1>3. ASSUME NEW i \in 1 .. Len(frames) - 2
      PROVE  /\ FitsAt(program, Lost', frames'[i], frames'[i].opline)
             /\ Answers(program, frames'[i], frames'[i + 1])
  <2>1. i \in 1 .. Len(frames) - 1 /\ frames'[i] = frames[i]
        /\ i + 1 \in 1 .. Len(frames) - 1 /\ frames'[i + 1] = frames[i + 1]
    BY <1>1, <1>2
  <2>2. FitsAt(program, Lost, frames[i], frames[i].opline)
        /\ Answers(program, frames[i], frames[i + 1])
    BY <2>1 DEF StackFits
  <2> QED
    BY <2>1, <2>2, FitsStays
<1>4. Len(frames') - 1 = Len(frames) - 2 /\ Len(frames') \in 1 .. Len(frames) - 1
  BY <1>1, <1>2
<1>5. StackFits'
  BY <1>1, <1>3, <1>4 DEF StackFits
<1>6. EX' = frames'[Len(frames) - 1]
  BY <1>2 DEF EX
<1> QED
  BY <1>2, <1>4, <1>5, <1>6

(***************************************************************************)
(* What a step does to a frame.                                            *)
(***************************************************************************)

LEMMA FrameMoved ==
  ASSUME NEW p, NEW lost, NEW f, NEW H, NEW B, FrameFits(p, lost, f, H, B), NEW to
  PROVE  LET g == At(f, to)
         IN  FrameFits(p, lost, g, H, B) /\ SameCall(f, g) /\ g.opline = to
<1> DEFINE g == At(f, to)
<1>1. DOMAIN f = FrameFields
  BY DEF FrameFits, Fits, Framed
<1>2. /\ DOMAIN g = FrameFields /\ g.tmp = f.tmp /\ g.fast = f.fast /\ g.gen = f.gen
      /\ g.fn = f.fn /\ g.ret = f.ret /\ g.opline = to
  BY <1>1 DEF At, FrameFields
<1> HIDE DEF g
<1>3. FrameFits(p, lost, g, H, B)
  BY <1>2, FitsMoved DEF FrameFits
<1> QED
  BY <1>2, <1>3 DEF SameCall, g

\* The variables vs, and those that wait for the finally blocks C.
AllOf(a, f, vs, C, D) == \A v : v \in D <=> v \in vs \/ \E b \in C : v \in Waits(a, f, b)

\* Each of D is there to be freed, and H and what waits for B is left.
Released(p, lost, f, D, H, B) ==
  LET g == FreeVars(f, D)
  IN  /\ FreedUndef(f, D) = {}
      /\ FrameFits(p, lost, g, H, B) /\ SameCall(f, g) /\ g.opline = f.opline

LEMMA FrameFreed ==
  ASSUME NEW p, NEW lost, NEW f, NEW H, NEW B, FrameFits(p, lost, f, H, B), WellFormed(p[f.fn]),
         NEW vs, vs \subseteq H, NEW C, C \subseteq B, NEW D, AllOf(p[f.fn], f, vs, C, D)
  PROVE  Released(p, lost, f, D, H \ vs, B \ C)
<1> DEFINE g == FreeVars(f, D)
<1>1. DOMAIN f = FrameFields /\ f.fn \in DOMAIN p
  BY DEF FrameFits, Fits, Framed
<1>2. g.fn = f.fn /\ g.ret = f.ret /\ g.gen = f.gen /\ g.opline = f.opline
  BY <1>1 DEF FreeVars, FrameFields
<1>3. Undef(f, D) = {} /\ Fits(p[f.fn], lost[f.fn], g, H \ vs, B \ C)
  BY FitsFreed DEF FrameFits, AllOf
<1> HIDE DEF g
<1>4. FreedUndef(f, D) = {}
  BY <1>3 DEF FreedUndef, Undef
<1> QED
  BY <1>1, <1>2, <1>3, <1>4 DEF FrameFits, SameCall, Released, g

\* A temporary is written.
Write(f, v, x) == [f EXCEPT !.tmp[v] = x]
HeldAfter(H, v, x) == IF x = "live" THEN H \cup {v} ELSE H \ {v}

LEMMA FrameWritten ==
  ASSUME NEW p, NEW lost, NEW f, NEW H, NEW B, FrameFits(p, lost, f, H, B),
         NEW v \in 1 .. p[f.fn].T, \A b \in B : v \notin Waits(p[f.fn], f, b), NEW x
  PROVE  /\ FrameFits(p, lost, Write(f, v, x), HeldAfter(H, v, x), B)
         /\ SameCall(f, Write(f, v, x)) /\ Write(f, v, x).opline = f.opline
         /\ Write(f, v, x).tmp[v] = x
<1> DEFINE g == Write(f, v, x)
           G == HeldAfter(H, v, x)
<1>1. DOMAIN f = FrameFields /\ f.fn \in DOMAIN p /\ DOMAIN f.tmp = 1 .. p[f.fn].T
  BY DEF FrameFits, Fits, Framed
<1>2. g.fn = f.fn /\ g.ret = f.ret /\ g.gen = f.gen /\ g.opline = f.opline /\ g.tmp[v] = x
  BY <1>1 DEF FrameFields, Write
<1>3. Fits(p[f.fn], lost[f.fn], g, G, B)
  BY FitsWritten DEF FrameFits, Write, HeldAfter
<1> HIDE DEF g
<1> QED
  BY <1>1, <1>2, <1>3 DEF FrameFits, SameCall, g

LEMMA MisuseStays ==
  ASSUME MisuseLost, Grows, NEW S, misuse' = misuse \cup S,
         \A m \in S : \E fn, v : m = <<"leaked", fn, v>> /\ LostReturn(fn, v)
  PROVE  MisuseLost'
BY LostStays, Zenon DEF MisuseLost

LEMMA MisuseSame == ASSUME MisuseLost, Grows, misuse' = misuse PROVE MisuseLost'
BY LostStays, Zenon DEF MisuseLost

\* A frame that is left.
LEMMA LeavesLost ==
  ASSUME NEW f, FrameFits(program, Lost, f, {}, {})
  PROVE  \A m \in Leaked(f) : \E fn, v : m = <<"leaked", fn, v>> /\ LostReturn(fn, v)
<1>1. f.fn \in DOMAIN program /\ \A v \in DOMAIN f.tmp : f.tmp[v] = "live" => v \in Lost[f.fn]
  BY FitsEnd DEF FrameFits
<1>2. \A v \in Lost[f.fn] : LostReturn(f.fn, v)
  BY <1>1 DEF Lost
<1> QED
  BY <1>1, <1>2 DEF Leaked

(***************************************************************************)
(* The steps.                                                              *)
(***************************************************************************)

LEMMA TopOK ==
  ASSUME ValuesInv
  PROVE  LET a == program[EX.fn]
         IN  /\ JumpsInv /\ StackOK /\ StackFits /\ MisuseLost /\ IsSeq(log) /\ IsSeq(exception)
             /\ program \in Programs /\ Len(frames) \in Nat \ {0}
             /\ EX.fn \in DOMAIN program /\ WellFormed(a) /\ OpArray(EX) = a
             /\ EX.opline \in DOMAIN a.opcodes /\ EX.opline \in Nat \ {0}
             /\ opline = a.opcodes[EX.opline]
             /\ pc \in {"run", "yielded"} => FitsAt(program, Lost, EX, EX.opline)
BY TopPlaced DEF ValuesInv, TopFits, opline

\* The running frame goes on.
LEMMA GoesFits ==
  ASSUME ValuesInv, JumpsInv', Grows, IsSeq(exception'), MisuseLost', pc' = "run",
         NEW g, frames' = SetTop(g), SameCall(EX, g), FitsAt(program, Lost, g, g.opline)
  PROVE  ValuesInv'
<1>1. StackFits' /\ EX' = g
  BY TopOK, StackTop
<1>2. FitsAt(program, Lost', g, g.opline) /\ program' = program
  BY FitsStays DEF Grows
<1>3. TopFits' /\ GeneratorFits'
  BY <1>1, <1>2 DEF TopFits, GeneratorFits
<1> QED
  BY <1>1, <1>3 DEF ValuesInv, Grows

\* It throws.
LEMMA ThrowsFits ==
  ASSUME ValuesInv, JumpsInv', Grows, IsSeq(exception'), exception' # NoException \/ EX.gen,
         MisuseLost', pc' = "handle",
         NEW g, frames' = SetTop(g), SameCall(EX, g), g.opline = EX.opline,
         opline.opcode \in Throwing, opline.result # NoVar => g.tmp[opline.result] = "null",
         FrameFits(program, Lost, g, Held(program[EX.fn], EX.opline) \ Taken(opline),
                   Inside(program[EX.fn], EX.opline)),
         OnReturn(opline) => \E n \in DOMAIN log' : log'[n][1] = opline.label /\ log'[n][2] # "ok"
  PROVE  ValuesInv'
<1>1. StackFits' /\ EX' = g
  BY TopOK, StackTop
<1>2. /\ program' = program /\ g.fn = EX.fn /\ opline = program[EX.fn].opcodes[EX.opline]
      /\ g.gen = EX.gen
  BY TopOK DEF Grows, SameCall
<1>3. FrameFits(program, Lost', g, Held(program[EX.fn], EX.opline) \ Taken(opline),
                Inside(program[EX.fn], EX.opline))
  BY FrameStays
<1>4. ThrownFits'
  BY <1>1, <1>2, <1>3 DEF ThrownFits
<1>5. TopFits' /\ GeneratorFits'
  BY <1>1, <1>2, <1>4 DEF TopFits, GeneratorFits
<1> QED
  BY <1>1, <1>5 DEF ValuesInv, Grows

LEMMA OneIsSeq == ASSUME NEW x PROVE IsSeq(<<x>>) /\ <<x>> # NoException
<1>1. <<x>> \in Seq({x}) /\ <<x>> # << >>
  OBVIOUS
<1> QED
  BY <1>1, Zenon DEF IsSeq, NoException

LEMMA NoneIsSeq == IsSeq(NoException)
<1>1. << >> \in Seq({})
  OBVIOUS
<1> QED
  BY <1>1, Zenon DEF IsSeq, NoException

\* The FAST_CALL that called finally block b.
LEMMA CallOf ==
  ASSUME NEW a, WellFormed(a), NEW f, Framed(a, f), NEW b \in Blocks(a),
         EnteredRight(f, f.fast[FastCallOf(a, b)])
  PROVE  LET k == f.fast[FastCallOf(a, b)].ret
             tc == a.try_catch
         IN  k # NoOp =>
               /\ k \in DOMAIN a.opcodes /\ a.opcodes[k].opcode = "FAST_CALL"
               /\ tc[b].finally_op = a.opcodes[k].target
               /\ b \notin Inside(a, k) /\ Inside(a, tc[b].finally_op) = Inside(a, k) \cup {b}
               /\ Waits(a, f, b) = {a.opcodes[k].op2} \ {NoVar}
               /\ \A j \in tc[b].finally_op .. tc[b].finally_end :
                    a.opcodes[j].opcode \in {"DO_ICALL", "DO_UCALL"} =>
                      a.opcodes[j].result \notin Waits(a, f, b)
<1> DEFINE k == f.fast[FastCallOf(a, b)].ret
           ops == a.opcodes
           tc == a.try_catch
<1> SUFFICES ASSUME k # NoOp
             PROVE  /\ k \in DOMAIN ops /\ ops[k].opcode = "FAST_CALL"
                    /\ tc[b].finally_op = ops[k].target
                    /\ b \notin Inside(a, k) /\ Inside(a, tc[b].finally_op) = Inside(a, k) \cup {b}
                    /\ Waits(a, f, b) = {ops[k].op2} \ {NoVar}
                    /\ \A j \in tc[b].finally_op .. tc[b].finally_end :
                         ops[j].opcode \in {"DO_ICALL", "DO_UCALL"} =>
                           ops[j].result \notin Waits(a, f, b)
  OBVIOUS
<1>1. /\ k \in DOMAIN ops /\ ops[k].opcode = "FAST_CALL"
      /\ ops[k].result = FastCallOf(a, b)
  BY OwnVariable DEF Framed, EnteredRight
<1>2. Waits(a, f, b) = {ops[k].op2} \ {NoVar}
  BY DEF Waits, WaitsFor
<1> HIDE DEF k
<1>3. PICK c \in DOMAIN tc \ Inside(a, k) :
        /\ tc[c].finally_op = ops[k].target /\ FastCallOf(a, c) = ops[k].result
        /\ Inside(a, ops[k].target) = Inside(a, k) \cup {c}
        /\ \A j \in tc[c].finally_op .. tc[c].finally_end :
             ops[j].opcode \in {"DO_ICALL", "DO_UCALL"} =>
               ops[j].result \notin {ops[k].op2} \ {NoVar}
  BY <1>1 DEF WellFormed, ValuesInPlace
<1>4. ops[k].target \in DOMAIN ops /\ 0 \notin DOMAIN ops
  BY <1>1, OpsOK DEF WellFormed, OpcodesInPlace
<1>5. c \in Blocks(a)
  BY <1>3, <1>4 DEF Blocks
<1>6. c = b
  BY <1>1, <1>3, <1>5, OwnVariable
<1> QED
  BY <1>1, <1>2, <1>3, <1>6

\* What waits is not made again in the finally block that it waits for.
LEMMA NotMade ==
  ASSUME NEW a, WellFormed(a), NEW lost, NEW f, NEW H, NEW i \in DOMAIN a.opcodes,
         Fits(a, lost, f, H, Inside(a, i)), a.opcodes[i].opcode \in {"DO_ICALL", "DO_UCALL"},
         NEW b \in Inside(a, i)
  PROVE  a.opcodes[i].result \notin Waits(a, f, b)
<1> DEFINE tc == a.try_catch
<1>1. /\ b \in Blocks(a) /\ Framed(a, f) /\ EnteredRight(f, f.fast[FastCallOf(a, b)])
  BY DEF Fits
<1>2. i \in tc[b].finally_op .. tc[b].finally_end
  <2>1. b \in FinallyAround(a, i) /\ b \in DOMAIN tc
    BY <1>1, BlocksAround, OwnVariable
  <2>2. /\ i \in Nat /\ tc[b].finally_op \in Nat /\ tc[b].finally_end \in Nat
        /\ tc[b].finally_op <= i /\ i <= tc[b].finally_end
    BY <2>1, OpsOK, BlocksOK DEF FinallyAround
  <2> QED
    BY <2>2
<1>3. CASE f.fast[FastCallOf(a, b)].ret = NoOp
  BY <1>3 DEF Waits, WaitsFor
<1>4. CASE f.fast[FastCallOf(a, b)].ret # NoOp
  BY <1>1, <1>2, <1>4, CallOf
<1> QED
  BY <1>3, <1>4

\* What WellFormed says of the opcodes that make a value or none.
LEMMA Makes ==
  ASSUME NEW a, WellFormed(a), NEW i \in DOMAIN a.opcodes,
         a.opcodes[i].opcode \in {"DO_ICALL", "DO_UCALL", "CATCH", "YIELD", "RUN_GENERATOR"}
  PROVE  LET op == a.opcodes[i]
         IN  /\ Held(a, i + 1) = Held(a, i) \cup ({op.result} \ {NoVar})
             /\ op.result # NoVar => op.result \in 1 .. a.T /\ op.result \notin Held(a, i)
             /\ op.opcode \in {"CATCH", "YIELD", "RUN_GENERATOR"} => op.result = NoVar
             /\ Inside(a, i + 1) = Inside(a, i)
             /\ Held(a, i) = InRange(a, i) /\ Inside(a, i) = FinallyAround(a, i)
<1> DEFINE op == a.opcodes[i]
<1>1. /\ op.result \in (IF op.opcode \in {"DO_ICALL", "DO_UCALL"} THEN 0 .. a.T ELSE {NoVar})
      /\ Hands(a, i, i + 1, {op.result} \ {NoVar}, {}) /\ SameBlocks(a, i, i + 1)
      /\ Held(a, i) = InRange(a, i) /\ InTheOpen(a, i)
  BY DEF WellFormed, ValuesInPlace
<1>2. a.T \in Nat
  BY OpsOK
<1>3. op.result # NoVar => op.result \in 1 .. a.T /\ op.result \notin Held(a, i)
  BY <1>1, <1>2 DEF Hands, NoVar
<1> QED
  BY <1>1, <1>3 DEF Hands, SameBlocks, InTheOpen

\* A caller is told x: the value that it called for, or none.
Answered(f, v, x) == IF v = NoVar THEN f ELSE Write(f, v, x)

Gives(p, lost, f, v, x) ==
  LET g == Answered(f, v, x)
  IN  /\ SameCall(f, g) /\ g.opline = f.opline
      /\ v # NoVar => g.tmp[v] = x
      /\ x = "live" \/ v = NoVar => FitsAt(p, lost, g, f.opline + 1)
      /\ x # "live" => FitsAt(p, lost, g, f.opline)

LEMMA Given ==
  ASSUME NEW p, NEW lost, NEW f, FitsAt(p, lost, f, f.opline), WellFormed(p[f.fn]),
         f.opline \in DOMAIN p[f.fn].opcodes, NEW v, v = p[f.fn].opcodes[f.opline].result, NEW x,
         p[f.fn].opcodes[f.opline].opcode \in {"DO_ICALL", "DO_UCALL", "RUN_GENERATOR"}
  PROVE  Gives(p, lost, f, v, x)
<1> DEFINE a == p[f.fn]
           i == f.opline
           op == a.opcodes[i]
           H == Held(a, i)
           B == Inside(a, i)
           g == Answered(f, v, x)
<1>1. /\ Held(a, i + 1) = H \cup ({v} \ {NoVar})
      /\ v # NoVar => v \in 1 .. a.T /\ v \notin H
      /\ Inside(a, i + 1) = B
      /\ op.opcode = "RUN_GENERATOR" => v = NoVar
  BY Makes
<1>2. v # NoVar => \A b \in B : v \notin Waits(a, f, b)
  BY <1>1, NotMade DEF FitsAt, FrameFits
<1>3. FrameFits(p, lost, f, H, B)
  BY DEF FitsAt
<1> HIDE DEF H, B
<1>4. CASE v = NoVar
  <2>1. g = f
    BY <1>4 DEF Answered
  <2>2. Held(a, i + 1) = H
    BY <1>1, <1>4
  <2> QED
    BY <1>1, <1>3, <1>4, <2>1, <2>2 DEF Gives, FitsAt, SameCall, H, B
<1>5. CASE v # NoVar
  <2>1. g = Write(f, v, x)
    BY <1>5 DEF Answered
  <2>2. /\ FrameFits(p, lost, g, HeldAfter(H, v, x), B)
        /\ SameCall(f, g) /\ g.opline = i /\ g.tmp[v] = x
    BY <1>1, <1>2, <1>3, <1>5, <2>1, FrameWritten
  <2>3. HeldAfter(H, v, x) = IF x = "live" THEN Held(a, i + 1) ELSE H
    BY <1>1, <1>5 DEF HeldAfter
  <2> HIDE DEF g
  <2>4. g.fn = f.fn
    BY <2>2 DEF SameCall
  <2> QED
    BY <1>1, <1>5, <2>2, <2>3, <2>4 DEF Gives, FitsAt, g, H, B
<1> QED
  BY <1>4, <1>5

\* The running frame goes on at to.
LEMMA LeadsFits ==
  ASSUME ValuesInv, JumpsInv', Grows, IsSeq(exception'), MisuseLost', pc' = "run",
         NEW f, SameCall(EX, f), NEW to, FitsAt(program, Lost, f, to),
         frames' = SetTop(At(f, to))
  PROVE  ValuesInv'
<1> DEFINE g == At(f, to)
<1>1. FrameFits(program, Lost, g, Held(program[f.fn], to), Inside(program[f.fn], to))
      /\ SameCall(f, g) /\ g.opline = to
  BY FrameMoved DEF FitsAt
<1>2. frames' = SetTop(g)
  OBVIOUS
<1> HIDE DEF g
<1>3. SameCall(EX, g) /\ FitsAt(program, Lost, g, g.opline)
  BY <1>1 DEF FitsAt, SameCall
<1> QED
  BY <1>2, <1>3, GoesFits

LEMMA DoICallFits == ASSUME ValuesInv, DoICall, JumpsInv' PROVE ValuesInv'
<1> DEFINE a == program[EX.fn]
           i == EX.opline
           v == opline.result
<1>1. PICK o \in Outcomes :
        LET ret == IF o = "ok" THEN "live" ELSE "null"
            f == IF v = NoVar THEN EX ELSE [EX EXCEPT !.tmp[v] = ret]
        IN  /\ log' = Logged(opline.label, o)
            /\ IF o = "ok"
               THEN frames' = SetTop(NextOp(f)) /\ UNCHANGED <<exception, pc>>
               ELSE ThrowAt(f, <<opline.label>>)
  BY DEF DoICall
<1>2. PICK ret : ret = IF o = "ok" THEN "live" ELSE "null"
  OBVIOUS
<1>3. PICK f : f = Answered(EX, v, ret)
  OBVIOUS
<1>4. /\ log' = Logged(opline.label, o)
      /\ IF o = "ok"
         THEN frames' = SetTop(NextOp(f)) /\ exception' = exception /\ pc' = pc
         ELSE frames' = SetTop(f) /\ exception' = <<opline.label>> /\ pc' = "handle"
  BY <1>1, <1>2, <1>3 DEF Answered, Write, ThrowAt
<1>5. /\ program' = program /\ misuse' = misuse /\ pc = "run"
      /\ opline = a.opcodes[i] /\ opline.opcode = "DO_ICALL"
      /\ WellFormed(a) /\ i \in DOMAIN a.opcodes /\ FitsAt(program, Lost, EX, i)
  BY TopOK DEF DoICall, Running
<1>6. Grows /\ MisuseLost'
  BY <1>4, <1>5, TopOK, LogAppended, MisuseSame DEF Logged
<1>7. /\ SameCall(EX, f) /\ f.opline = i
      /\ v # NoVar => f.tmp[v] = ret
      /\ ret = "live" \/ v = NoVar => FitsAt(program, Lost, f, i + 1)
      /\ ret # "live" => FitsAt(program, Lost, f, i)
  <2>1. v = program[EX.fn].opcodes[EX.opline].result
    BY <1>5
  <2>2. Gives(program, Lost, EX, v, ret)
    BY <1>5, <2>1, Given
  <2> QED
    BY <2>2, <1>3 DEF Gives
<1>8. CASE o = "ok"
  <2>1. frames' = SetTop(At(f, i + 1)) /\ pc' = "run" /\ exception' = exception
    BY <1>4, <1>5, <1>7, <1>8 DEF NextOp
  <2> QED
    BY <2>1, <1>2, <1>6, <1>7, <1>8, TopOK, LeadsFits
<1>9. CASE o # "ok"
  <2>1. frames' = SetTop(f) /\ pc' = "handle" /\ exception' = <<opline.label>> /\ ret = "null"
    BY <1>2, <1>4, <1>9
  <2>2. /\ Held(a, i) \ Taken(opline) = Held(a, i) /\ ~OnReturn(opline)
        /\ opline.opcode \in Throwing
    BY <1>5 DEF Taken, OnReturn, Throwing
  <2>3. FrameFits(program, Lost, f, Held(a, i) \ Taken(opline), Inside(a, i))
    BY <2>1, <2>2, <1>7 DEF FitsAt, SameCall
  <2> QED
    BY <2>1, <2>2, <2>3, <1>6, <1>7, OneIsSeq, ThrowsFits
<1> QED
  BY <1>8, <1>9

LEMMA FreeFits == ASSUME ValuesInv, Free, JumpsInv' PROVE ValuesInv'
<1> DEFINE a == program[EX.fn]
           i == EX.opline
           v == opline.op1
           f == FreeVars(EX, {v})
<1>1. PICK o \in Outcomes :
        /\ log' = Logged(opline.label, o)
        /\ IF o = "ok"
           THEN frames' = SetTop(NextOp(f)) /\ UNCHANGED <<exception, pc>>
           ELSE ThrowAt(f, <<opline.label>>)
  BY DEF Free
<1>2. /\ program' = program /\ misuse' = misuse \cup FreedUndef(EX, {v}) /\ pc = "run"
      /\ opline = a.opcodes[i] /\ opline.opcode = "FREE"
      /\ WellFormed(a) /\ i \in DOMAIN a.opcodes /\ FitsAt(program, Lost, EX, i)
  BY TopOK DEF Free, Running
<1>3. /\ Grows /\ \E n \in DOMAIN log' : log'[n] = <<opline.label, o>>
  BY <1>1, <1>2, TopOK, LogAppended DEF Logged
<1>4. /\ Held(a, i + 1) = Held(a, i) \ {v} /\ v \in Held(a, i)
      /\ opline.result = NoVar /\ Inside(a, i + 1) = Inside(a, i)
  BY <1>2 DEF WellFormed, ValuesInPlace, Hands, SameBlocks
<1>5. /\ FreedUndef(EX, {v}) = {}
      /\ FrameFits(program, Lost, f, Held(a, i) \ {v}, Inside(a, i))
      /\ SameCall(EX, f) /\ f.opline = i
  <2>1. FrameFits(program, Lost, EX, Held(a, i), Inside(a, i)) /\ WellFormed(program[EX.fn])
    BY <1>2 DEF FitsAt
  <2>2. {v} \subseteq Held(a, i) /\ AllOf(program[EX.fn], EX, {v}, {}, {v})
    BY <1>4 DEF AllOf
  <2>3. Released(program, Lost, EX, {v}, Held(a, i) \ {v}, Inside(a, i) \ {})
    BY <2>1, <2>2, FrameFreed
  <2>4. Inside(a, i) \ {} = Inside(a, i)
    OBVIOUS
  <2> QED
    BY <2>3, <2>4 DEF Released
<1>6. MisuseLost'
  BY <1>2, <1>3, <1>5, TopOK, MisuseSame
<1> HIDE DEF f
<1>7. CASE o = "ok"
  <2>1. frames' = SetTop(At(f, i + 1)) /\ pc' = "run" /\ exception' = exception
    BY <1>1, <1>2, <1>5, <1>7 DEF NextOp
  <2>2. FitsAt(program, Lost, f, i + 1)
    BY <1>4, <1>5 DEF FitsAt, SameCall
  <2> QED
    BY <2>1, <2>2, <1>3, <1>5, <1>6, TopOK, LeadsFits
<1>8. CASE o # "ok"
  <2>1. frames' = SetTop(f) /\ pc' = "handle" /\ exception' = <<opline.label>>
    BY <1>1, <1>8 DEF ThrowAt
  <2>2. Taken(opline) = {v} /\ opline.opcode \in Throwing
    BY <1>2 DEF Taken, Throwing
  <2>3. \E n \in DOMAIN log' : log'[n][1] = opline.label /\ log'[n][2] # "ok"
    BY <1>3, <1>8
  <2> QED
    BY <2>1, <2>2, <2>3, <1>3, <1>4, <1>5, <1>6, OneIsSeq, ThrowsFits
<1> QED
  BY <1>7, <1>8

\* A jump finds what it hands on.
LEMMA JumpsTo ==
  ASSUME NEW a, WellFormed(a), NEW i \in DOMAIN a.opcodes, a.opcodes[i].opcode \in {"JMP", "CATCH"}
  PROVE  LET to == a.opcodes[i].target
         IN  Held(a, to) = Held(a, i) /\ Inside(a, to) = Inside(a, i)
BY DEF WellFormed, ValuesInPlace, Hands, SameBlocks

LEMMA JmpFits == ASSUME ValuesInv, Jmp, JumpsInv' PROVE ValuesInv'
<1> DEFINE a == program[EX.fn]
           i == EX.opline
           to == opline.target
<1>1. /\ program' = program /\ misuse' = misuse /\ log' = log /\ exception' = exception
      /\ pc = "run" /\ pc' = "run" /\ frames' = SetTop(At(EX, to))
      /\ opline = a.opcodes[i] /\ opline.opcode = "JMP"
      /\ WellFormed(a) /\ i \in DOMAIN a.opcodes /\ FitsAt(program, Lost, EX, i)
  BY TopOK DEF Jmp, Running
<1>2. Held(a, to) = Held(a, i) /\ Inside(a, to) = Inside(a, i)
  BY <1>1, JumpsTo
<1>3. FitsAt(program, Lost, EX, to) /\ SameCall(EX, EX)
  BY <1>1, <1>2 DEF FitsAt, SameCall
<1>4. Grows /\ MisuseLost'
  BY <1>1, TopOK, SameLog, MisuseSame
<1> QED
  BY <1>1, <1>3, <1>4, TopOK, LeadsFits

(***************************************************************************)
(* Calls and returns.                                                      *)
(***************************************************************************)

\* Nothing is held where a function begins.
LEMMA NewFits ==
  ASSUME program \in Programs, NEW fn \in {"main", "callee"}, NEW ret, NEW gen
  PROVE  /\ FitsAt(program, Lost, NewFrame(fn, ret, gen), 1)
         /\ NewFrame(fn, ret, gen).opline = 1 /\ NewFrame(fn, ret, gen).ret = ret
         /\ NewFrame(fn, ret, gen).gen = gen /\ NewFrame(fn, ret, gen).fn = fn
<1> DEFINE a == program[fn]
           f == NewFrame(fn, ret, gen)
<1>1. fn \in DOMAIN program /\ WellFormed(a)
  BY ProgramsAssumption
<1>2. Held(a, 1) = {} /\ Inside(a, 1) = {}
  <2>1. FinallyAround(a, 1) = {}
    <3> SUFFICES ASSUME NEW i \in FinallyAround(a, 1) PROVE FALSE
      OBVIOUS
    <3>1. /\ i \in DOMAIN a.try_catch /\ a.try_catch[i].finally_op # 0
          /\ a.try_catch[i].finally_op <= 1
      BY DEF FinallyAround
    <3>2. /\ a.try_catch[i].try_op \in Nat /\ a.try_catch[i].finally_op \in Nat
          /\ 1 <= a.try_catch[i].try_op /\ a.try_catch[i].try_op < a.try_catch[i].finally_op
      BY <1>1, <3>1, BlocksOK
    <3> QED
      BY <3>1, <3>2
  <2> QED
    BY <1>1, <2>1, BlocksAround DEF WellFormed, ValuesInPlace
<1>3. /\ DOMAIN f = FrameFields /\ f.fn = fn /\ f.opline = 1 /\ f.ret = ret /\ f.gen = gen
      /\ f.tmp = [v \in 1 .. a.T |-> "undef"]
      /\ f.fast = [v \in 1 .. a.T |-> [obj |-> NoException, ret |-> Unset]]
  BY DEF NewFrame, FrameFields
<1> HIDE DEF f
<1>4. Framed(a, f)
  BY <1>3, NoneIsSeq DEF Framed
<1>5. \A v : ~Wanted(a, f, {}, {}, v)
  BY DEF Wanted
<1>6. Fits(a, Lost[fn], f, {}, {})
  BY <1>3, <1>4, <1>5 DEF Fits
<1>7. FitsAt(program, Lost, f, 1)
  BY <1>1, <1>2, <1>3, <1>6 DEF FitsAt, FrameFits
<1> QED
  BY <1>3, <1>7 DEF f

LEMMA PushFits ==
  ASSUME ValuesInv, JumpsInv', Grows, exception' = exception, MisuseLost', pc' = "run",
         NEW g, frames' = Append(frames, g), Answers(program, EX, g),
         FitsAt(program, Lost, EX, EX.opline), FitsAt(program, Lost, g, g.opline)
  PROVE  ValuesInv'
<1>1. StackFits' /\ EX' = g
  BY TopOK, StackPush
<1>2. FitsAt(program, Lost', g, g.opline) /\ program' = program
  BY FitsStays DEF Grows
<1>3. TopFits' /\ GeneratorFits'
  BY <1>1, <1>2 DEF TopFits, GeneratorFits
<1> QED
  BY <1>1, <1>3 DEF ValuesInv, Grows

LEMMA CallFits ==
  ASSUME ValuesInv, DoUCall \/ RunGenerator, JumpsInv'
  PROVE  ValuesInv'
<1> DEFINE a == program[EX.fn]
           i == EX.opline
<1>1. /\ program' = program /\ misuse' = misuse /\ log' = log /\ exception' = exception
      /\ pc = "run" /\ pc' = "run"
      /\ opline = a.opcodes[i] /\ opline.opcode \in {"DO_UCALL", "RUN_GENERATOR"}
      /\ WellFormed(a) /\ i \in DOMAIN a.opcodes /\ FitsAt(program, Lost, EX, i)
  BY TopOK DEF DoUCall, RunGenerator, Running
<1>2. Grows /\ MisuseLost'
  BY <1>1, TopOK, SameLog, MisuseSame
<1>3. PICK gen \in BOOLEAN :
        /\ frames' = Append(frames, NewFrame("callee", opline.result, gen))
        /\ gen <=> opline.opcode = "RUN_GENERATOR"
  <2>1. CASE DoUCall
    <3>1. opline.opcode # "RUN_GENERATOR"
      BY <2>1 DEF DoUCall, Running
    <3> QED
      BY <2>1, <3>1 DEF DoUCall
  <2>2. CASE RunGenerator
    <3>1. opline.opcode = "RUN_GENERATOR" /\ opline.result = NoVar
      BY <2>2, <1>1, Makes DEF RunGenerator, Running
    <3> QED
      BY <2>2, <3>1 DEF RunGenerator
  <2> QED
    BY <2>1, <2>2
<1>4. PICK g : g = NewFrame("callee", opline.result, gen)
  OBVIOUS
<1>5. /\ FitsAt(program, Lost, g, g.opline) /\ g.ret = opline.result /\ g.gen = gen
  BY <1>4, TopOK, NewFits
<1>6. Answers(program, EX, g)
  BY <1>1, <1>3, <1>5 DEF Answers
<1> QED
  BY <1>1, <1>2, <1>3, <1>4, <1>5, <1>6, PushFits

\* The frame below goes on.
LEMMA PopFits ==
  ASSUME ValuesInv, JumpsInv', Grows, IsSeq(exception'), MisuseLost', pc' = "run",
         Len(frames) # 1, NEW f, SameCall(frames[Len(frames) - 1], f),
         NEW to, FitsAt(program, Lost, f, to),
         frames' = Append(SubSeq(frames, 1, Len(frames) - 2), At(f, to))
  PROVE  ValuesInv'
<1> DEFINE g == At(f, to)
<1>1. FrameFits(program, Lost, g, Held(program[f.fn], to), Inside(program[f.fn], to))
      /\ SameCall(f, g) /\ g.opline = to
  BY FrameMoved DEF FitsAt
<1>2. frames' = Append(SubSeq(frames, 1, Len(frames) - 2), g)
  OBVIOUS
<1> HIDE DEF g
<1>3. SameCall(frames[Len(frames) - 1], g) /\ FitsAt(program, Lost, g, g.opline)
  BY <1>1 DEF FitsAt, SameCall
<1>4. StackFits' /\ EX' = g
  BY <1>2, <1>3, TopOK, StackPop
<1>5. FitsAt(program, Lost', g, g.opline) /\ program' = program
  BY <1>3, FitsStays DEF Grows
<1>6. TopFits' /\ GeneratorFits'
  BY <1>4, <1>5 DEF TopFits, GeneratorFits
<1> QED
  BY <1>4, <1>6 DEF ValuesInv, Grows

\* The exception goes on in the frame below.
LEMMA PopThrows ==
  ASSUME ValuesInv, JumpsInv', Grows, IsSeq(exception'), exception' # NoException,
         MisuseLost', pc' = "handle",
         Len(frames) # 1, NEW g, SameCall(frames[Len(frames) - 1], g),
         FitsAt(program, Lost, g, g.opline),
         frames' = Append(SubSeq(frames, 1, Len(frames) - 2), g),
         NEW op, op = program[g.fn].opcodes[g.opline], op.opcode \in {"DO_UCALL", "RUN_GENERATOR"},
         op.result # NoVar => g.tmp[op.result] = "null"
  PROVE  ValuesInv'
<1>1. StackFits' /\ EX' = g
  BY TopOK, StackPop
<1>2. FitsAt(program, Lost', g, g.opline) /\ program' = program
  BY FitsStays DEF Grows
<1>3. Taken(op) = {} /\ ~OnReturn(op) /\ op.opcode \in Throwing
  BY DEF Taken, OnReturn, Throwing
<1>4. \A S : S \ {} = S
  OBVIOUS
<1>5. ThrownFits'
  BY <1>1, <1>2, <1>3, <1>4 DEF ThrownFits, FitsAt
<1>6. TopFits' /\ GeneratorFits'
  BY <1>1, <1>5 DEF TopFits, GeneratorFits
<1> QED
  BY <1>1, <1>6 DEF ValuesInv, Grows

\* The last frame ends.
LEMMA DoneFits ==
  ASSUME ValuesInv, JumpsInv', Grows, IsSeq(exception'), MisuseLost', pc' = "done",
         frames' = frames, Len(frames) = 1
  PROVE  ValuesInv'
<1>1. \A i \in 1 .. Len(frames) - 1 : FALSE
  OBVIOUS
<1>2. StackFits' /\ TopFits' /\ GeneratorFits'
  BY <1>1 DEF StackFits, TopFits, GeneratorFits
<1> QED
  BY <1>2 DEF ValuesInv, Grows

\* A RETURN finds its operand and nothing else.
LEMMA Returned ==
  ASSUME NEW p, NEW lost, NEW f, FitsAt(p, lost, f, f.opline), WellFormed(p[f.fn]),
         f.opline \in DOMAIN p[f.fn].opcodes, NEW v, v = p[f.fn].opcodes[f.opline].op1,
         p[f.fn].opcodes[f.opline].opcode = "RETURN"
  PROVE  /\ FrameFits(p, lost, Answered(f, v, "undef"), {}, {})
         /\ v # NoVar => FreedUndef(f, {v}) = {}
<1> DEFINE a == p[f.fn]
           i == f.opline
<1>1. Held(a, i) = {v} \ {NoVar} /\ Inside(a, i) = {} /\ Held(a, i) \subseteq 1 .. a.T
  BY DEF WellFormed, ValuesInPlace
<1>2. FrameFits(p, lost, f, {v} \ {NoVar}, {})
  BY <1>1 DEF FitsAt
<1>3. CASE v = NoVar
  <2>1. {v} \ {NoVar} = {}
    BY <1>3
  <2> QED
    BY <2>1, <1>2, <1>3 DEF Answered
<1>4. CASE v # NoVar
  <2>1. {v} \ {NoVar} = {v} /\ v \in 1 .. a.T
    BY <1>1, <1>4
  <2>2. FrameFits(p, lost, Write(f, v, "undef"), HeldAfter({v}, v, "undef"), {})
    <3>1. /\ FrameFits(p, lost, f, {v}, {}) /\ v \in 1 .. p[f.fn].T
          /\ \A b \in {} : v \notin Waits(p[f.fn], f, b)
      BY <1>2, <2>1
    <3> QED
      BY <3>1, FrameWritten
  <2>3. HeldAfter({v}, v, "undef") = {}
    BY DEF HeldAfter
  <2>4. f.tmp[v] = "live"
    BY <1>2, <2>1 DEF FrameFits, Fits, Wanted
  <2> QED
    BY <2>2, <2>3, <2>4, <1>4 DEF Answered, FreedUndef
<1> QED
  BY <1>3, <1>4

LEMMA ReturnFits ==
  ASSUME ValuesInv, Return \/ GeneratorReturn, JumpsInv'
  PROVE  ValuesInv'
<1> DEFINE a == program[EX.fn]
           i == EX.opline
           v == opline.op1
           caller == frames[Len(frames) - 1]
           unread == IF v = NoVar THEN {} ELSE FreedUndef(EX, {v})
<1>1. PICK f : f = Answered(EX, v, "undef")
  OBVIOUS
<1>2. /\ program' = program /\ log' = log /\ exception' = exception /\ pc = "run"
      /\ misuse' = misuse \cup unread \cup Leaked(f)
      /\ opline = a.opcodes[i] /\ opline.opcode = "RETURN"
      /\ WellFormed(a) /\ i \in DOMAIN a.opcodes /\ FitsAt(program, Lost, EX, i)
  BY <1>1, TopOK DEF Return, GeneratorReturn, Running, Answered, Write
<1>3. FrameFits(program, Lost, f, {}, {}) /\ unread = {}
  BY <1>1, <1>2, Returned
<1>4. Grows
  BY <1>2, TopOK, SameLog
<1>5. MisuseLost'
  <2>1. misuse' = misuse \cup Leaked(f)
    BY <1>2, <1>3
  <2> QED
    BY <2>1, <1>3, <1>4, TopOK, LeavesLost, MisuseStays
<1>6. CASE Len(frames) = 1
  <2>1. ~EX.gen
    BY <1>6, TopOK, GeneratorFrame
  <2>2. pc' = "done" /\ frames' = frames
    BY <1>6, <2>1, Zenon DEF Return, GeneratorReturn
  <2> QED
    BY <2>2, <1>2, <1>4, <1>5, <1>6, TopOK, DoneFits
<1>7. CASE Len(frames) # 1
  <2>1. /\ FitsAt(program, Lost, caller, caller.opline) /\ Answers(program, caller, EX)
        /\ Placed(program, caller) /\ Calls(program, caller)
    BY <1>7, TopOK, CallerFits, CallerPlaced
  <2>2. PICK g : /\ pc' = "run"
                 /\ frames' = Append(SubSeq(frames, 1, Len(frames) - 2), NextOp(g))
                 /\ g = Answered(caller, EX.ret, "live")
    <3>1. CASE Return
      BY <3>1, <1>7, Zenon DEF Return, Answered, Write
    <3>2. CASE GeneratorReturn
      <4>1. program[caller.fn].opcodes[caller.opline].opcode = "RUN_GENERATOR"
        BY <2>1, <3>2 DEF Answers, GeneratorReturn
      <4>2. WellFormed(program[caller.fn]) /\ caller.opline \in DOMAIN program[caller.fn].opcodes
        BY <2>1, TopOK, ProgramOK DEF Placed, PlacedAt
      <4>3. EX.ret = NoVar
        BY <2>1, <4>1, <4>2, Makes DEF Answers
      <4>4. frames' = Append(SubSeq(frames, 1, Len(frames) - 2), NextOp(caller)) /\ pc' = "run"
        BY <3>2, <1>2 DEF GeneratorReturn
      <4> QED
        BY <4>3, <4>4 DEF Answered
    <3> QED
      BY <3>1, <3>2
  <2> HIDE DEF caller
  <2>3. Gives(program, Lost, caller, EX.ret, "live")
    <3>1. WellFormed(program[caller.fn]) /\ caller.opline \in DOMAIN program[caller.fn].opcodes
      BY <2>1, TopOK, ProgramOK DEF Placed, PlacedAt
    <3>2. /\ EX.ret = program[caller.fn].opcodes[caller.opline].result
          /\ program[caller.fn].opcodes[caller.opline].opcode \in {"DO_ICALL", "DO_UCALL", "RUN_GENERATOR"}
      BY <2>1 DEF Answers, Calls
    <3> QED
      BY <2>1, <3>1, <3>2, Given
  <2>4. SameCall(caller, g) /\ NextOp(g) = At(g, caller.opline + 1)
        /\ FitsAt(program, Lost, g, caller.opline + 1)
    BY <2>2, <2>3 DEF Gives, NextOp
  <2> QED
    BY <2>2, <2>4, <1>2, <1>4, <1>5, <1>7, TopOK, PopFits DEF caller
<1> QED
  BY <1>6, <1>7

(***************************************************************************)
(* catch and finally.                                                      *)
(***************************************************************************)

LEMMA SameTop == ASSUME StackOK PROVE frames = SetTop(EX)
<1>1. PICK S : frames \in Seq(S)
  BY DEF StackOK
<1> QED
  BY <1>1 DEF SetTop, EX

LEMMA CatchFits == ASSUME ValuesInv, Catch, JumpsInv' PROVE ValuesInv'
<1> DEFINE a == program[EX.fn]
           i == EX.opline
           to == opline.target
<1>1. /\ program' = program /\ misuse' = misuse /\ log' = log /\ pc = "run"
      /\ opline = a.opcodes[i] /\ opline.opcode = "CATCH"
      /\ WellFormed(a) /\ i \in DOMAIN a.opcodes /\ FitsAt(program, Lost, EX, i)
  BY TopOK DEF Catch, Running
<1>2. /\ Held(a, to) = Held(a, i) /\ Inside(a, to) = Inside(a, i)
      /\ Held(a, i + 1) = Held(a, i) /\ Inside(a, i + 1) = Inside(a, i)
      /\ opline.result = NoVar
  <2>1. Held(a, to) = Held(a, i) /\ Inside(a, to) = Inside(a, i)
    BY <1>1, JumpsTo
  <2>2. /\ Held(a, i + 1) = Held(a, i) \cup ({opline.result} \ {NoVar})
        /\ Inside(a, i + 1) = Inside(a, i) /\ opline.result = NoVar
    BY <1>1, Makes
  <2>3. Held(a, i + 1) = Held(a, i)
    BY <2>2
  <2> QED
    BY <2>1, <2>2, <2>3
<1>3. FitsAt(program, Lost, EX, to) /\ FitsAt(program, Lost, EX, i + 1) /\ SameCall(EX, EX)
  BY <1>1, <1>2 DEF FitsAt, SameCall
<1>4. Grows /\ MisuseLost' /\ IsSeq(exception')
  <2>1. exception' \in {exception, NoException}
    BY DEF Catch
  <2> QED
    BY <1>1, <2>1, TopOK, SameLog, MisuseSame, NoneIsSeq
<1>5. \/ frames' = SetTop(At(EX, to)) /\ pc' = "run"
      \/ frames' = SetTop(At(EX, i + 1)) /\ pc' = "run"
      \/ frames' = frames /\ pc' = "handle" /\ exception' = exception /\ exception # NoException
  BY <1>1 DEF Catch, NextOp
<1>6. CASE pc' = "run"
  BY <1>3, <1>4, <1>5, <1>6, LeadsFits
<1>7. CASE pc' = "handle"
  <2>1. Taken(opline) = {} /\ ~OnReturn(opline) /\ opline.opcode \in Throwing
    BY <1>1 DEF Taken, OnReturn, Throwing
  <2>2. FrameFits(program, Lost, EX, Held(a, i) \ Taken(opline), Inside(a, i))
    BY <1>1, <2>1 DEF FitsAt
  <2>3. frames' = SetTop(EX) /\ exception' # NoException
    BY <1>5, <1>7, TopOK, SameTop
  <2> QED
    BY <2>1, <2>2, <2>3, <1>2, <1>3, <1>4, <1>7, ThrowsFits
<1> QED
  BY <1>5, <1>6, <1>7

\* g is f after some of its opcode: it holds H, and is in the finally blocks B.
Fitted(p, lost, f, g, H, B) ==
  FrameFits(p, lost, g, H, B) /\ SameCall(f, g) /\ g.opline = f.opline

\* A fast_call variable is written.
Enter(f, v, entry) == [f EXCEPT !.fast[v] = entry]

\* What called finally block b, or nothing.
Enters(a, f, b, entry) ==
  /\ DOMAIN entry = {"obj", "ret"} /\ IsSeq(entry.obj) /\ EnteredRight(f, entry)
  /\ \/ entry.ret = NoOp
     \/ /\ entry.ret \in DOMAIN a.opcodes /\ a.opcodes[entry.ret].opcode = "FAST_CALL"
        /\ a.opcodes[entry.ret].result = FastCallOf(a, b)

LEMMA FrameEntered ==
  ASSUME NEW p, NEW lost, NEW f, NEW H, NEW B, FrameFits(p, lost, f, H, B), WellFormed(p[f.fn]),
         NEW b \in Blocks(p[f.fn]), b \notin B, NEW entry, Enters(p[f.fn], f, b, entry),
         WaitsFor(p[f.fn], entry) \subseteq H, NEW v, v = FastCallOf(p[f.fn], b),
         NEW G, G = H \ WaitsFor(p[f.fn], entry), NEW C, C = B \cup {b}
  PROVE  Fitted(p, lost, f, Enter(f, v, entry), G, C)
<1> DEFINE g == Enter(f, v, entry)
<1>1. DOMAIN f = FrameFields /\ f.fn \in DOMAIN p
  BY DEF FrameFits, Fits, Framed
<1>2. g.fn = f.fn /\ g.ret = f.ret /\ g.gen = f.gen /\ g.opline = f.opline
  BY <1>1 DEF FrameFields, Enter
<1>3. Fits(p[f.fn], lost[f.fn], g, G, C)
  BY FitsEntered DEF FrameFits, Enter, Enters
<1> HIDE DEF g
<1> QED
  BY <1>1, <1>2, <1>3 DEF FrameFits, SameCall, Fitted, g

\* The object of a fast_call variable is dropped.
Drop(f, v) == [f EXCEPT !.fast[v].obj = NoException]

LEMMA FrameDropped ==
  ASSUME NEW p, NEW lost, NEW f, NEW H, NEW B, FrameFits(p, lost, f, H, B), WellFormed(p[f.fn]),
         NEW v \in 1 .. p[f.fn].T, \A b \in B : FastCallOf(p[f.fn], b) # v
  PROVE  Fitted(p, lost, f, Drop(f, v), H, B)
<1> DEFINE g == Drop(f, v)
<1>1. DOMAIN f = FrameFields /\ f.fn \in DOMAIN p
  BY DEF FrameFits, Fits, Framed
<1>2. g.fn = f.fn /\ g.ret = f.ret /\ g.gen = f.gen /\ g.opline = f.opline
  BY <1>1 DEF FrameFields, Drop
<1>3. Fits(p[f.fn], lost[f.fn], g, H, B)
  BY FitsDropped DEF FrameFits, Drop
<1> HIDE DEF g
<1> QED
  BY <1>1, <1>2, <1>3 DEF FrameFits, SameCall, Fitted, g

\* A FAST_CALL calls a finally block that it is not in: the value of its RETURN waits there.
LEMMA CallsBlock ==
  ASSUME NEW a, WellFormed(a), NEW i \in DOMAIN a.opcodes, a.opcodes[i].opcode = "FAST_CALL"
  PROVE  LET op == a.opcodes[i]
         IN  /\ \E b \in Blocks(a) :
                  /\ b \notin Inside(a, i) /\ FastCallOf(a, b) = op.result
                  /\ a.try_catch[b].finally_op = op.target
                  /\ Inside(a, op.target) = Inside(a, i) \cup {b}
             /\ Held(a, op.target) = Held(a, i) \ ({op.op2} \ {NoVar})
             /\ {op.op2} \ {NoVar} \subseteq Held(a, i)
             /\ Held(a, i + 1) = Held(a, i) /\ Inside(a, i + 1) = Inside(a, i)
<1> DEFINE op == a.opcodes[i]
<1>1. /\ Held(a, i + 1) = Held(a, i) /\ Inside(a, i + 1) = Inside(a, i)
      /\ Held(a, op.target) = Held(a, i) \ ({op.op2} \ {NoVar})
      /\ {op.op2} \ {NoVar} \subseteq Held(a, i)
  BY DEF WellFormed, ValuesInPlace, Hands, SameBlocks
<1>2. PICK b \in DOMAIN a.try_catch \ Inside(a, i) :
        /\ a.try_catch[b].finally_op = op.target /\ FastCallOf(a, b) = op.result
        /\ Inside(a, op.target) = Inside(a, i) \cup {b}
  BY DEF WellFormed, ValuesInPlace
<1>3. op.target \in DOMAIN a.opcodes /\ 0 \notin DOMAIN a.opcodes
  BY OpsOK DEF WellFormed, OpcodesInPlace
<1>4. b \in Blocks(a)
  BY <1>2, <1>3 DEF Blocks
<1> QED
  BY <1>1, <1>2, <1>4

LEMMA FastCallFits == ASSUME ValuesInv, FastCall, JumpsInv' PROVE ValuesInv'
<1> DEFINE a == program[EX.fn]
           i == EX.opline
           v == opline.result
           to == opline.target
<1>1. PICK entry : entry = [obj |-> NoException, ret |-> i]
  OBVIOUS
<1>2. PICK g : g = Enter(EX, v, entry)
  OBVIOUS
<1>3. /\ program' = program /\ misuse' = misuse /\ log' = log /\ exception' = exception
      /\ pc = "run" /\ pc' = "run" /\ frames' = SetTop(At(g, to))
      /\ opline = a.opcodes[i] /\ opline.opcode = "FAST_CALL" /\ i \in Nat \ {0}
      /\ WellFormed(a) /\ i \in DOMAIN a.opcodes /\ FitsAt(program, Lost, EX, i)
  BY <1>1, <1>2, TopOK DEF FastCall, Running, Enter
<1>4. PICK b \in Blocks(a) : /\ b \notin Inside(a, i) /\ FastCallOf(a, b) = v
                             /\ Inside(a, to) = Inside(a, i) \cup {b}
  BY <1>3, CallsBlock
<1>5. /\ Held(a, to) = Held(a, i) \ ({opline.op2} \ {NoVar})
      /\ {opline.op2} \ {NoVar} \subseteq Held(a, i)
  BY <1>3, CallsBlock
<1>6. WaitsFor(a, entry) = {opline.op2} \ {NoVar}
  BY <1>1, <1>3 DEF WaitsFor, NoOp
<1>7. Enters(a, EX, b, entry)
  BY <1>1, <1>3, <1>4, NoneIsSeq DEF Enters, EnteredRight, Unset, NoOp
<1>8. /\ FrameFits(program, Lost, g, Held(a, to), Inside(a, to)) /\ SameCall(EX, g)
  <2>1. FrameFits(program, Lost, EX, Held(a, i), Inside(a, i))
    BY <1>3 DEF FitsAt
  <2>2. /\ Held(a, to) = Held(a, i) \ WaitsFor(a, entry) /\ WaitsFor(a, entry) \subseteq Held(a, i)
        /\ v = FastCallOf(a, b) /\ WellFormed(a)
    BY <1>3, <1>4, <1>5, <1>6
  <2>3. Fitted(program, Lost, EX, Enter(EX, v, entry), Held(a, to), Inside(a, to))
    BY <1>4, <1>7, <2>1, <2>2, FrameEntered
  <2> QED
    BY <2>3, <1>2 DEF Fitted
<1>9. FitsAt(program, Lost, g, to)
  BY <1>8 DEF FitsAt, SameCall
<1>10. Grows /\ MisuseLost'
  BY <1>3, TopOK, SameLog, MisuseSame
<1> QED
  BY <1>3, <1>8, <1>9, <1>10, TopOK, LeadsFits

\* The helper begins.
LEMMA DispatchFits ==
  ASSUME ValuesInv, JumpsInv', Grows, IsSeq(exception'), MisuseLost', pc' = "dispatch",
         exception' = NoException => EX.gen,
         NEW g, frames' = SetTop(g), SameCall(EX, g),
         NEW off, NEW op, walk'.offset = off, walk'.op_num = op,
         FrameFits(program, Lost, g, InRange(program[EX.fn], op), LeftAt(program[EX.fn], op, off)),
         \A b \in LeftAt(program[EX.fn], op, off) : op < program[EX.fn].try_catch[b].finally_end
  PROVE  ValuesInv'
<1> DEFINE a == program[EX.fn]
<1>1. StackFits' /\ EX' = g
  BY TopOK, StackTop
<1>2. program' = program /\ g.fn = EX.fn /\ g.gen = EX.gen
  BY DEF Grows, SameCall
<1>3. FrameFits(program, Lost', g, InRange(a, op), LeftAt(a, op, off))
  BY FrameStays
<1>4. BlocksLeft' = LeftAt(a, op, off)
  BY <1>1, <1>2 DEF BlocksLeft
<1>5. WalkFits'
  BY <1>1, <1>2, <1>3, <1>4 DEF WalkFits
<1>6. TopFits' /\ GeneratorFits'
  BY <1>1, <1>2, <1>5 DEF TopFits, GeneratorFits
<1> QED
  BY <1>1, <1>6 DEF ValuesInv, Grows

\* A FAST_RET finds what its finally block began with.
LEMMA ReturnsFrom ==
  ASSUME NEW a, WellFormed(a), NEW i \in DOMAIN a.opcodes, a.opcodes[i].opcode = "FAST_RET"
  PROVE  /\ Held(a, i) = InRange(a, i) /\ Inside(a, i) = FinallyAround(a, i)
         /\ \E b \in Blocks(a) :
              /\ b \in Inside(a, i) /\ FastCallOf(a, b) = a.opcodes[i].op1
              /\ Held(a, i) = Held(a, a.try_catch[b].finally_op)
              /\ Inside(a, i) = Inside(a, a.try_catch[b].finally_op)
              /\ \A c \in Inside(a, i) : c <= a.opcodes[i].op2 <=> c # b
<1> DEFINE op == a.opcodes[i]
<1>1. /\ Held(a, i) = InRange(a, i) /\ Inside(a, i) = FinallyAround(a, i)
      /\ \E b \in DOMAIN a.try_catch :
           /\ FastCallOf(a, b) = op.op1
           /\ Held(a, i) = Held(a, a.try_catch[b].finally_op)
           /\ SameBlocks(a, i, a.try_catch[b].finally_op)
           /\ b \in Inside(a, i)
           /\ \A c \in Inside(a, i) : (c <= op.op2) <=> (c # b)
  BY DEF WellFormed, ValuesInPlace, InTheOpen
<1> QED
  BY <1>1, BlocksAround DEF SameBlocks

CalledBy(a, f, b, k) ==
  /\ k \in DOMAIN a.opcodes /\ a.opcodes[k].opcode = "FAST_CALL"
  /\ a.try_catch[b].finally_op = a.opcodes[k].target
  /\ b \notin Inside(a, k) /\ Inside(a, a.opcodes[k].target) = Inside(a, k) \cup {b}
  /\ Waits(a, f, b) = {a.opcodes[k].op2} \ {NoVar}

LEMMA CalledFrom ==
  ASSUME NEW a, WellFormed(a), NEW f, Framed(a, f), NEW b \in Blocks(a),
         EnteredRight(f, f.fast[FastCallOf(a, b)]),
         NEW k, k = f.fast[FastCallOf(a, b)].ret, k # NoOp
  PROVE  CalledBy(a, f, b, k)
BY CallOf DEF CalledBy

LEMMA FastRetFits == ASSUME ValuesInv, FastRet, JumpsInv' PROVE ValuesInv'
<1> DEFINE a == program[EX.fn]
           i == EX.opline
           v == opline.op1
           H == Held(a, i)
           B == Inside(a, i)
<1>1. /\ program' = program /\ misuse' = misuse /\ log' = log /\ pc = "run"
      /\ opline = a.opcodes[i] /\ opline.opcode = "FAST_RET" /\ i \in Nat
      /\ WellFormed(a) /\ i \in DOMAIN a.opcodes /\ FitsAt(program, Lost, EX, i)
  BY TopOK DEF FastRet, Running
<1>2. Grows /\ MisuseLost'
  BY <1>1, TopOK, SameLog, MisuseSame
<1>3. PICK b \in Blocks(a) :
        /\ b \in B /\ FastCallOf(a, b) = v
        /\ H = Held(a, a.try_catch[b].finally_op) /\ B = Inside(a, a.try_catch[b].finally_op)
        /\ \A c \in B : c <= opline.op2 <=> c # b
  BY <1>1, ReturnsFrom
<1>4. /\ H = InRange(a, i) /\ B = FinallyAround(a, i)
  BY <1>1, ReturnsFrom
<1>5. /\ Fits(a, Lost[EX.fn], EX, H, B) /\ EX.fn \in DOMAIN program
      /\ Framed(a, EX) /\ EnteredRight(EX, EX.fast[v]) /\ v \in 1 .. a.T
  BY <1>1, <1>3, OwnVariable DEF FitsAt, FrameFits, Fits
<1>6. FrameFits(program, Lost, EX, H \cup Waits(a, EX, b), B \ {b})
  <2> HIDE DEF H, B
  <2> QED
    BY <1>1, <1>3, <1>5, FitsLeft DEF FrameFits
<1> DEFINE k == EX.fast[v].ret
<1>7. CASE k # NoOp
  <2>1. frames' = SetTop(At(EX, k + 1)) /\ pc' = "run" /\ exception' = exception
    BY <1>1, <1>7 DEF FastRet
  <2>2. CalledBy(a, EX, b, k)
    BY <1>1, <1>3, <1>5, <1>7, CalledFrom
  <2>3. /\ Held(a, a.opcodes[k].target) = Held(a, k) \ ({a.opcodes[k].op2} \ {NoVar})
        /\ {a.opcodes[k].op2} \ {NoVar} \subseteq Held(a, k)
        /\ Held(a, k + 1) = Held(a, k) /\ Inside(a, k + 1) = Inside(a, k)
    <3>1. k \in DOMAIN a.opcodes /\ a.opcodes[k].opcode = "FAST_CALL"
      BY <2>2 DEF CalledBy
    <3> HIDE DEF k, v
    <3> QED
      BY <1>1, <3>1, CallsBlock
  <2> HIDE DEF k
  <2>4. H \cup Waits(a, EX, b) = Held(a, k + 1) /\ B \ {b} = Inside(a, k + 1)
    BY <1>3, <2>2, <2>3 DEF CalledBy
  <2>5. FitsAt(program, Lost, EX, k + 1) /\ SameCall(EX, EX)
    BY <1>6, <2>4 DEF FitsAt, SameCall
  <2> QED
    BY <2>1, <2>5, <1>2, TopOK, LeadsFits
<1>8. CASE k = NoOp
  <2>1. PICK g : g = Drop(EX, v)
    OBVIOUS
  <2>2. /\ exception' = EX.fast[v].obj /\ pc' = "dispatch" /\ frames' = SetTop(g)
        /\ walk'.offset = opline.op2 /\ walk'.op_num = i
    BY <1>8, <2>1 DEF FastRet, Drop
  <2>3. Waits(a, EX, b) = {} /\ IsSeq(exception') /\ (exception' = NoException => EX.gen)
    BY <1>3, <1>5, <1>8, <2>2 DEF Waits, WaitsFor, Framed, EnteredRight
  <2>4. B \ {b} = LeftAt(a, i, opline.op2)
    BY <1>3, <1>4 DEF LeftAt
  <2>5. H \cup Waits(a, EX, b) = InRange(a, i)
    BY <1>4, <2>3
  <2>6. FrameFits(program, Lost, EX, InRange(a, i), LeftAt(a, i, opline.op2))
    BY <1>6, <2>4, <2>5
  <2>7. \A c \in B \ {b} : c \in Blocks(a) /\ FastCallOf(a, c) # v
    BY <1>1, <1>3, <1>4, BlocksAround, OwnVariable
  <2>8. Fitted(program, Lost, EX, Drop(EX, v), InRange(a, i), LeftAt(a, i, opline.op2))
    <3>1. v \in 1 .. program[EX.fn].T /\ WellFormed(program[EX.fn])
          /\ \A c \in LeftAt(a, i, opline.op2) : FastCallOf(program[EX.fn], c) # v
      BY <1>1, <1>5, <2>4, <2>7
    <3> QED
      BY <2>6, <3>1, FrameDropped
  <2>9. \A c \in LeftAt(a, i, opline.op2) : i < a.try_catch[c].finally_end
    <3> SUFFICES ASSUME NEW c \in B \ {b} PROVE i < a.try_catch[c].finally_end
      BY <2>4
    <3>1. i <= a.try_catch[c].finally_end /\ c \in DOMAIN a.try_catch
      BY <1>4 DEF FinallyAround
    <3>2. a.try_catch[c].finally_end # i
      BY <1>1, <2>7 DEF FastCallOf
    <3>3. a.try_catch[c].finally_end \in Nat
      BY <1>1, <3>1, BlocksOK
    <3> QED
      BY <1>1, <3>1, <3>2, <3>3
  <2> HIDE DEF H, B, k
  <2>10. FrameFits(program, Lost, g, InRange(a, i), LeftAt(a, i, opline.op2)) /\ SameCall(EX, g)
    BY <2>1, <2>8 DEF Fitted
  <2> QED
    BY <2>2, <2>3, <2>9, <2>10, <1>2, DispatchFits
<1> QED
  BY <1>7, <1>8

\* The value of the RETURN that called the finally block is given up with it.
LEMMA PendingIs ==
  ASSUME NEW f, NEW a, a = OpArray(f), NEW entry
  PROVE  PendingReturn(f, entry) = WaitsFor(a, entry)
BY DEF PendingReturn, WaitsFor

LEMMA DiscardFits == ASSUME ValuesInv, DiscardException, JumpsInv' PROVE ValuesInv'
<1> DEFINE a == program[EX.fn]
           i == EX.opline
           v == opline.op1
<1>1. PICK D : D = PendingReturn(EX, EX.fast[v])
  OBVIOUS
<1>2. PICK f : f = FreeVars(EX, D)
  OBVIOUS
<1>3. PICK g : g = Drop(f, v)
  OBVIOUS
<1>4. /\ program' = program /\ misuse' = misuse \cup FreedUndef(EX, D) /\ log' = log
      /\ exception' = exception /\ pc = "run" /\ pc' = "run" /\ frames' = SetTop(NextOp(g))
      /\ opline = a.opcodes[i] /\ opline.opcode = "DISCARD_EXCEPTION"
      /\ WellFormed(a) /\ i \in DOMAIN a.opcodes /\ FitsAt(program, Lost, EX, i)
      /\ OpArray(EX) = a
  BY <1>1, <1>2, <1>3, TopOK DEF DiscardException, Running, Drop
<1>5. PICK b \in Inside(a, i) :
        FastCallOf(a, b) = v /\ Inside(a, i + 1) = Inside(a, i) \ {b} /\ Held(a, i + 1) = Held(a, i)
  <2>1. \E b \in Inside(a, i) :
          FastCallOf(a, b) = v /\ Inside(a, i + 1) = Inside(a, i) \ {b}
    BY <1>4 DEF WellFormed, ValuesInPlace
  <2>2. Hands(a, i, i + 1, {}, {})
    BY <1>4 DEF WellFormed, ValuesInPlace
  <2> QED
    BY <2>1, <2>2 DEF Hands
<1>6. FrameFits(program, Lost, EX, Held(a, i), Inside(a, i)) /\ Inside(a, i) \subseteq Blocks(a)
  BY <1>4, BlocksAround DEF FitsAt
<1>7. D = Waits(a, EX, b)
  BY <1>1, <1>4, <1>5, PendingIs DEF Waits
<1>8. Released(program, Lost, EX, D, Held(a, i + 1), Inside(a, i + 1))
  <2>1. AllOf(program[EX.fn], EX, {}, {b}, D) /\ {b} \subseteq Inside(a, i) /\ {} \subseteq Held(a, i)
    BY <1>7 DEF AllOf
  <2>2. Released(program, Lost, EX, D, Held(a, i) \ {}, Inside(a, i) \ {b})
    BY <1>4, <1>6, <2>1, FrameFreed
  <2>3. Held(a, i) \ {} = Held(a, i + 1)
    BY <1>5
  <2> QED
    BY <1>5, <2>2, <2>3
<1>9. /\ FreedUndef(EX, D) = {} /\ FrameFits(program, Lost, f, Held(a, i + 1), Inside(a, i + 1))
      /\ SameCall(EX, f) /\ f.opline = i /\ f.fn = EX.fn
  BY <1>2, <1>8 DEF Released, SameCall
<1>10. Fitted(program, Lost, f, Drop(f, v), Held(a, i + 1), Inside(a, i + 1))
  <2>1. /\ v \in 1 .. program[f.fn].T /\ WellFormed(program[f.fn])
        /\ \A c \in Inside(a, i + 1) : FastCallOf(program[f.fn], c) # v
    BY <1>4, <1>5, <1>6, <1>9, OwnVariable
  <2> QED
    BY <1>9, <2>1, FrameDropped
<1>11. /\ FitsAt(program, Lost, g, i + 1) /\ SameCall(EX, g) /\ g.opline = i
  BY <1>3, <1>9, <1>10 DEF FitsAt, Fitted, SameCall
<1>12. Grows /\ MisuseLost'
  BY <1>4, <1>9, TopOK, SameLog, MisuseSame
<1>13. frames' = SetTop(At(g, i + 1))
  BY <1>4, <1>11 DEF NextOp
<1> QED
  BY <1>4, <1>11, <1>12, <1>13, TopOK, LeadsFits

(***************************************************************************)
(* Generators.                                                             *)
(***************************************************************************)

LEMMA YieldFits == ASSUME ValuesInv, Yield, JumpsInv' PROVE ValuesInv'
<1> DEFINE a == program[EX.fn]
           i == EX.opline
           caller == frames[Len(frames) - 1]
<1>1. PICK g : g = At(EX, i + 1)
  OBVIOUS
<1>2. /\ program' = program /\ misuse' = misuse /\ log' = log /\ exception' = exception
      /\ pc = "run" /\ pc' = "yielded" /\ frames' = Pop /\ suspended' = <<g>> /\ EX.gen
      /\ opline = a.opcodes[i] /\ opline.opcode = "YIELD" /\ i \in Nat
      /\ WellFormed(a) /\ i \in DOMAIN a.opcodes /\ FitsAt(program, Lost, EX, i)
  BY <1>1, TopOK DEF Yield, Running, NextOp
<1>3. Grows /\ MisuseLost' /\ Len(frames) # 1
  BY <1>2, TopOK, SameLog, MisuseSame, GeneratorFrame
<1>4. /\ FitsAt(program, Lost, caller, caller.opline) /\ Answers(program, caller, EX)
      /\ Placed(program, caller)
  BY <1>3, TopOK, CallerFits, CallerPlaced
<1>5. /\ program[caller.fn].opcodes[caller.opline].opcode = "RUN_GENERATOR" /\ EX.ret = NoVar
  <2>1. program[caller.fn].opcodes[caller.opline].opcode = "RUN_GENERATOR"
    BY <1>2, <1>4 DEF Answers
  <2>2. WellFormed(program[caller.fn]) /\ caller.opline \in DOMAIN program[caller.fn].opcodes
    BY <1>4, TopOK, ProgramOK DEF Placed, PlacedAt
  <2>3. program[caller.fn].opcodes[caller.opline].result = NoVar
    BY <2>1, <2>2, Makes
  <2> QED
    BY <1>4, <2>1, <2>3 DEF Answers
<1>6. StackFits' /\ EX' = caller
  BY <1>2, <1>3, TopOK, StackLeave
<1> HIDE DEF caller
<1>7. /\ FrameFits(program, Lost, g, Held(a, i), Inside(a, i)) /\ SameCall(EX, g)
      /\ g.opline - 1 = i
  <2>1. FrameFits(program, Lost, EX, Held(a, i), Inside(a, i))
    BY <1>2 DEF FitsAt
  <2>2. /\ FrameFits(program, Lost, g, Held(a, i), Inside(a, i)) /\ SameCall(EX, g)
        /\ g.opline = i + 1
    BY <1>1, <2>1, FrameMoved
  <2> QED
    BY <1>2, <2>2
<1>8. /\ FitsAt(program, Lost', caller, caller.opline) /\ FitsAt(program, Lost', g, i)
      /\ g.gen /\ g.ret = NoVar /\ program[g.fn].opcodes[i].opcode = "YIELD"
  <2>1. FitsAt(program, Lost, g, i)
    BY <1>7 DEF FitsAt, SameCall
  <2> QED
    BY <1>2, <1>3, <1>4, <1>5, <1>7, <2>1, FitsStays DEF SameCall
<1>9. suspended'[1] = g
  BY <1>2
<1>10. TopFits'
  BY <1>2, <1>6, <1>8 DEF TopFits
<1>11. GeneratorFits'
  BY <1>2, <1>5, <1>6, <1>7, <1>8, <1>9 DEF GeneratorFits
<1> QED
  BY <1>2, <1>3, <1>6, <1>10, <1>11, TopOK DEF ValuesInv, Grows

LEMMA YieldInClosedFits == ASSUME ValuesInv, YieldInClosed, JumpsInv' PROVE ValuesInv'
<1> DEFINE a == program[EX.fn]
           i == EX.opline
<1>1. /\ program' = program /\ misuse' = misuse /\ log' = Logged(opline.label, "B")
      /\ pc = "run" /\ pc' = "handle" /\ frames' = SetTop(EX) /\ exception' = <<opline.label>>
      /\ opline = a.opcodes[i] /\ opline.opcode = "YIELD"
      /\ WellFormed(a) /\ i \in DOMAIN a.opcodes /\ FitsAt(program, Lost, EX, i)
  BY TopOK DEF YieldInClosed, Running, ThrowAt
<1>2. Grows /\ MisuseLost'
  BY <1>1, TopOK, LogAppended, MisuseSame DEF Logged
<1>3. opline.result = NoVar
  BY <1>1, Makes
<1>4. Taken(opline) = {} /\ ~OnReturn(opline) /\ opline.opcode \in Throwing
  BY <1>1 DEF Taken, OnReturn, Throwing
<1>5. FrameFits(program, Lost, EX, Held(a, i) \ Taken(opline), Inside(a, i)) /\ SameCall(EX, EX)
  BY <1>1, <1>4 DEF FitsAt, SameCall
<1> QED
  BY <1>1, <1>2, <1>3, <1>4, <1>5, OneIsSeq, ThrowsFits

LEMMA ResumeFits == ASSUME ValuesInv, Resume, JumpsInv' PROVE ValuesInv'
<1> DEFINE gen == suspended[1]
           b == program[gen.fn]
<1>1. /\ program' = program /\ misuse' = misuse /\ log' = Logged(YieldOp.label, "ok")
      /\ exception' = exception /\ pc = "yielded" /\ pc' = "run" /\ frames' = Append(frames, gen)
  BY DEF Resume
<1>2. /\ program[EX.fn].opcodes[EX.opline].opcode = "RUN_GENERATOR"
      /\ FitsAt(program, Lost, gen, gen.opline - 1) /\ gen.gen /\ gen.ret = NoVar
      /\ b.opcodes[gen.opline - 1].opcode = "YIELD"
      /\ FitsAt(program, Lost, EX, EX.opline)
  BY <1>1 DEF ValuesInv, GeneratorFits, TopFits
<1>3. /\ WellFormed(b) /\ gen.opline - 1 \in DOMAIN b.opcodes /\ gen.opline \in DOMAIN b.opcodes
  BY <1>1, TopOK, ProgramOK DEF JumpsInv, YieldPlaced, Placed, PlacedAt
<1> HIDE DEF gen
<1>4. Held(b, gen.opline) = Held(b, gen.opline - 1) /\ Inside(b, gen.opline) = Inside(b, gen.opline - 1)
  <2>1. gen.opline \in Nat
    BY <1>3, OpsOK
  <2>2. (gen.opline - 1) + 1 = gen.opline
    BY <2>1
  <2>3. /\ Held(b, (gen.opline - 1) + 1)
             = Held(b, gen.opline - 1) \cup ({b.opcodes[gen.opline - 1].result} \ {NoVar})
        /\ Inside(b, (gen.opline - 1) + 1) = Inside(b, gen.opline - 1)
        /\ b.opcodes[gen.opline - 1].result = NoVar
    BY <1>2, <1>3, Makes
  <2> QED
    BY <2>2, <2>3
<1>5. FitsAt(program, Lost, gen, gen.opline)
  BY <1>2, <1>4 DEF FitsAt
<1>6. Answers(program, EX, gen)
  <2>1. program[EX.fn].opcodes[EX.opline].result = NoVar
    BY <1>2, TopOK, Makes
  <2> QED
    BY <2>1, <1>2 DEF Answers
<1>7. Grows /\ MisuseLost'
  BY <1>1, TopOK, LogAppended, MisuseSame DEF Logged
<1> QED
  BY <1>1, <1>2, <1>5, <1>6, <1>7, PushFits

(***************************************************************************)
(* Unwinding.                                                              *)
(***************************************************************************)

\* A finally block that op is in, but not at its end, is not outside of the innermost block.
LEMMA InnermostLast ==
  ASSUME NEW f, NEW a, a = OpArray(f), WellFormed(a), NEW op,
         NEW b \in DOMAIN a.try_catch, a.try_catch[b].try_op <= op, op < a.try_catch[b].finally_end
  PROVE  b <= Innermost(f, op)
<1> DEFINE tc == a.try_catch
           around == {i \in DOMAIN tc : /\ tc[i].try_op <= op
                                        /\ op < tc[i].catch_op \/ op < tc[i].finally_end}
<1>1. b \in around
  OBVIOUS
<1>2. Len(tc) \in Nat /\ around \subseteq 1 .. Len(tc)
  BY BlocksOK
<1>3. \E i \in around : \A j \in around : j <= i
  <2> HIDE DEF around, tc
  <2> QED
    BY <1>1, <1>2, Greatest
<1>4. Innermost(f, op) = CHOOSE i \in around : \A j \in around : j <= i
  BY <1>1 DEF Innermost
<1> HIDE DEF around
<1> QED
  BY <1>1, <1>3, <1>4

LEMMA AllLeft ==
  ASSUME NEW f, NEW a, a = OpArray(f), WellFormed(a), NEW op \in Nat,
         a.opcodes[op].opcode # "FAST_RET"
  PROVE  /\ LeftAt(a, op, Innermost(f, op)) = FinallyAround(a, op)
         /\ \A b \in FinallyAround(a, op) : op < a.try_catch[b].finally_end
<1> DEFINE tc == a.try_catch
<1>1. ASSUME NEW b \in FinallyAround(a, op)
      PROVE  op < tc[b].finally_end /\ b <= Innermost(f, op)
  <2>1. /\ b \in DOMAIN tc /\ tc[b].finally_op # 0
        /\ tc[b].finally_op <= op /\ op <= tc[b].finally_end
    BY DEF FinallyAround
  <2>2. /\ tc[b].try_op \in Nat /\ tc[b].finally_op \in Nat /\ tc[b].finally_end \in Nat
        /\ tc[b].try_op < tc[b].finally_op
    BY <2>1, BlocksOK
  <2>3. a.opcodes[tc[b].finally_end].opcode = "FAST_RET"
    BY <2>1 DEF WellFormed, RangesInPlace
  <2>4. op # tc[b].finally_end
    BY <2>3
  <2>5. tc[b].try_op <= op /\ op < tc[b].finally_end
    BY <2>1, <2>2, <2>4
  <2> QED
    BY <2>1, <2>5, InnermostLast
<1> QED
  BY <1>1 DEF LeftAt

\* An exception leaves its opcode with the values that are in a live range there.
LEMMA ThrownHere ==
  ASSUME ValuesInv, pc = "handle", ~OnReturn(opline)
  PROVE  LET a == program[EX.fn]
         IN  /\ Released(program, Lost, EX, {opline.result} \ {NoVar},
                         InRange(a, EX.opline), FinallyAround(a, EX.opline))
             /\ opline.opcode # "FAST_RET"
<1> DEFINE a == program[EX.fn]
           i == EX.opline
           D == {opline.result} \ {NoVar}
           g == FreeVars(EX, D)
<1>1. /\ opline = a.opcodes[i] /\ WellFormed(a) /\ i \in DOMAIN a.opcodes
      /\ opline.opcode \in Throwing /\ (opline.result # NoVar => EX.tmp[opline.result] = "null")
      /\ FrameFits(program, Lost, EX, Held(a, i) \ Taken(opline), Inside(a, i))
  BY TopOK DEF ValuesInv, TopFits, ThrownFits
<1>2. Held(a, i) \ Taken(opline) = InRange(a, i) /\ Inside(a, i) = FinallyAround(a, i)
  <2>1. CASE opline.opcode = "FREE"
    <3>1. ~opline.flag
      BY <2>1 DEF OnReturn
    <3>2. InRange(a, i) = Held(a, i) \ {opline.op1} /\ InTheOpen(a, i)
      BY <1>1, <2>1, <3>1 DEF WellFormed, ValuesInPlace
    <3> QED
      BY <2>1, <3>2 DEF Taken, InTheOpen
  <2>2. CASE opline.opcode # "FREE"
    <3>1. Held(a, i) = InRange(a, i) /\ Inside(a, i) = FinallyAround(a, i)
      BY <1>1, <2>2, Makes DEF Throwing
    <3>2. \A S : S \ {} = S
      OBVIOUS
    <3> QED
      BY <2>2, <3>1, <3>2 DEF Taken
  <2> QED
    BY <2>1, <2>2
<1>3. FrameFits(program, Lost, EX, InRange(a, i), FinallyAround(a, i))
  BY <1>1, <1>2
<1>4. /\ DOMAIN EX = FrameFields /\ EX.fn \in DOMAIN program
      /\ Fits(a, Lost[EX.fn], EX, InRange(a, i), FinallyAround(a, i))
      /\ DOMAIN EX.tmp = 1 .. a.T
  BY <1>3 DEF FrameFits, Fits, Framed
<1>5. \A v \in D : EX.tmp[v] = "null"
  BY <1>1
<1> HIDE DEF D
<1>6. /\ DOMAIN g = FrameFields /\ g.fn = EX.fn /\ g.ret = EX.ret /\ g.gen = EX.gen
      /\ g.opline = EX.opline /\ g.fast = EX.fast
      /\ g.tmp = [v \in DOMAIN EX.tmp |-> IF v \in D /\ EX.tmp[v] = "live" THEN "undef" ELSE EX.tmp[v]]
  BY <1>4 DEF FreeVars, FrameFields
<1> HIDE DEF g
<1>7. DOMAIN g.tmp = DOMAIN EX.tmp /\ \A v \in 1 .. a.T : g.tmp[v] = EX.tmp[v]
  BY <1>4, <1>5, <1>6
<1>8. FrameFits(program, Lost, g, InRange(a, i), FinallyAround(a, i))
  <2>1. Fits(a, Lost[EX.fn], g, InRange(a, i), FinallyAround(a, i))
    <3>1. /\ Fits(a, Lost[EX.fn], EX, InRange(a, i), FinallyAround(a, i))
          /\ DOMAIN g = FrameFields /\ g.fast = EX.fast /\ g.gen = EX.gen
      BY <1>4, <1>6
    <3> QED
      BY <1>7, <3>1, FitsMoved
  <2> QED
    BY <1>4, <1>6, <2>1 DEF FrameFits
<1>9. FreedUndef(EX, D) = {}
  BY <1>5 DEF FreedUndef
<1>10. Released(program, Lost, EX, D, InRange(a, i), FinallyAround(a, i))
  BY <1>6, <1>8, <1>9 DEF Released, SameCall, g
<1> QED
  BY <1>1, <1>10 DEF Throwing, D

\* What WellFormed says of the frees on the way to a RETURN.
LEMMA FreesAt ==
  ASSUME NEW a, WellFormed(a), NEW i \in DOMAIN a.opcodes, OnReturn(a.opcodes[i]),
         NEW r \in a.live_range, r.var = a.opcodes[i].op1, r.start <= i, i < r.end
  PROVE  LET ops == a.opcodes
         IN  /\ Inside(a, i) = FinallyAround(a, r.end)
             /\ \E j \in DOMAIN ops \cap (i + 1 .. r.end - 1) :
                  /\ ops[j].opcode = "RETURN" /\ \A k \in i .. j - 1 : OnWayOut(ops[k])
                  /\ InRange(a, r.end) = Held(a, i) \ {ops[i].op1, ops[j].op1}
                  /\ ops[j].op1 \in Held(a, i) \cup {NoVar} /\ ops[j].op1 # ops[i].op1
BY Zenon DEF WellFormed, FreesInPlace

\* The operand of the RETURN that comes right after the frees.
LEMMA FreedReturnIs ==
  ASSUME NEW f, NEW a, a = OpArray(f), NEW r, r = LoopRange(f), f.opline \in Nat, r.end \in Nat,
         NEW first \in f.opline .. r.end - 1, a.opcodes[first].opcode # "FREE",
         \A k \in f.opline .. r.end - 1 : a.opcodes[k].opcode # "FREE" => first <= k
  PROVE  FreedReturn(f)
           = IF a.opcodes[first].opcode = "RETURN" THEN {a.opcodes[first].op1} \ {NoVar} ELSE {}
<1> DEFINE S == {k \in f.opline .. r.end - 1 : a.opcodes[k].opcode # "FREE"}
           x == CHOOSE k \in S : \A m \in S : k <= m
<1>1. first \in S /\ \A k \in S : k \in Nat /\ first <= k
  OBVIOUS
<1>2. x \in S /\ \A k \in S : x <= k
  <2> HIDE DEF S
  <2> QED
    BY <1>1
<1>3. x = first
  <2> HIDE DEF S, x
  <2> QED
    BY <1>1, <1>2
<1>4. FreedReturn(f) = IF S # {} /\ a.opcodes[x].opcode = "RETURN" THEN {a.opcodes[x].op1} \ {NoVar} ELSE {}
  BY Zenon DEF FreedReturn
<1> HIDE DEF S, x
<1> QED
  BY <1>1, <1>3, <1>4

\* On the way to a RETURN: at the end of the loop, with the operand of the RETURN freed if
\* it is found, and lost if it is not.
LEMMA ThrownFree ==
  ASSUME ValuesInv, pc = "handle", OnReturn(opline)
  PROVE  LET a == program[EX.fn]
             r == LoopRange(EX)
         IN  /\ Released(program, Lost, EX, FreedReturn(EX), InRange(a, r.end), FinallyAround(a, r.end))
             /\ r.end \in Nat /\ a.opcodes[r.end].opcode # "FAST_RET"
             /\ opline.result = NoVar
<1> DEFINE a == program[EX.fn]
           ops == a.opcodes
           i == EX.opline
<1>1. /\ opline = ops[i] /\ WellFormed(a) /\ i \in DOMAIN ops /\ OpArray(EX) = a /\ i \in Nat
      /\ opline.opcode = "FREE" /\ EX.fn \in DOMAIN program
      /\ FrameFits(program, Lost, EX, Held(a, i) \ {opline.op1}, Inside(a, i))
      /\ \E n \in DOMAIN log : log[n][1] = opline.label /\ log[n][2] # "ok"
  BY TopOK DEF ValuesInv, TopFits, ThrownFits, OnReturn, Taken
<1>2. opline.result = NoVar /\ opline.op1 # NoVar
  BY <1>1 DEF WellFormed, ValuesInPlace
<1>3. PICK r \in a.live_range :
        r = LoopRange(EX) /\ r.var = opline.op1 /\ r.start <= i /\ i < r.end
  <2>1. \E r \in a.live_range : r.var = opline.op1 /\ r.start <= i /\ i < r.end
    BY <1>1 DEF WellFormed
  <2> QED
    BY <1>1, <2>1 DEF LoopRange
<1>4. r.end \in Nat /\ ops[r.end].opcode # "FAST_RET"
  BY <1>1, BlocksOK DEF WellFormed, RangesInPlace
<1>5. /\ Inside(a, i) = FinallyAround(a, r.end)
      /\ \E j \in DOMAIN ops \cap (i + 1 .. r.end - 1) :
           /\ ops[j].opcode = "RETURN" /\ \A k \in i .. j - 1 : OnWayOut(ops[k])
           /\ InRange(a, r.end) = Held(a, i) \ {opline.op1, ops[j].op1}
           /\ ops[j].op1 \in Held(a, i) \cup {NoVar} /\ ops[j].op1 # opline.op1
  BY <1>1, <1>3, FreesAt
<1>6. PICK j \in DOMAIN ops \cap (i + 1 .. r.end - 1) :
        /\ ops[j].opcode = "RETURN" /\ \A k \in i .. j - 1 : OnWayOut(ops[k])
        /\ InRange(a, r.end) = Held(a, i) \ {opline.op1, ops[j].op1}
        /\ ops[j].op1 \in Held(a, i) \cup {NoVar} /\ ops[j].op1 # opline.op1
  BY <1>5
<1> DEFINE H == Held(a, i) \ {opline.op1}
           W == {ops[j].op1} \ {NoVar}
           others == {k \in i .. r.end - 1 : ops[k].opcode # "FREE"}
           D == FreedReturn(EX)
<1>7. Held(a, i) \subseteq 1 .. a.T /\ a.T \in Nat
  BY <1>1, OpsOK DEF WellFormed, ValuesInPlace
<1>8. InRange(a, r.end) = H \ W /\ W \subseteq H
  BY <1>6, <1>7 DEF NoVar
<1>9. FrameFits(program, Lost, EX, H, Inside(a, i))
  BY <1>1
<1>10. /\ j \in Nat /\ i < j /\ j < r.end /\ j \in others
       /\ \A k \in i .. j : k \in i .. j - 1 \/ k = j
       /\ \A k \in others : k \in Nat /\ i <= k
  BY <1>1, <1>4, <1>6
<1>11. PICK first \in others : /\ \A k \in others : first <= k
                               /\ first = CHOOSE k \in others : \A m \in others : k <= m
  <2>1. others \subseteq Nat /\ others # {}
    BY <1>10
  <2> HIDE DEF others
  <2> QED
    BY <2>1, Least
<1>12. D = IF ops[first].opcode = "RETURN" THEN {ops[first].op1} \ {NoVar} ELSE {}
  <2>1. a = OpArray(EX) /\ r = LoopRange(EX) /\ i \in Nat /\ r.end \in Nat
    BY <1>1, <1>3, <1>4
  <2>2. /\ first \in EX.opline .. r.end - 1 /\ a.opcodes[first].opcode # "FREE"
        /\ \A k \in EX.opline .. r.end - 1 : a.opcodes[k].opcode # "FREE" => first <= k
    BY <1>11
  <2>3. D = IF a.opcodes[first].opcode = "RETURN" THEN {a.opcodes[first].op1} \ {NoVar} ELSE {}
    <3> HIDE DEF others, a
    <3> QED
      BY <2>1, <2>2, FreedReturnIs
  <2> QED
    BY <2>3
<1>13. first = j \/ (first \in i .. j - 1 /\ ops[first].opcode \in {"FAST_CALL", "DISCARD_EXCEPTION"})
  <2>1. first <= j /\ first \in Nat /\ i <= first
    BY <1>10, <1>11
  <2>2. first = j \/ first \in i .. j - 1
    BY <1>1, <1>10, <2>1
  <2>3. first \in i .. j - 1 => OnWayOut(ops[first]) /\ ops[first].opcode # "FREE"
    BY <1>6, <1>11
  <2> QED
    BY <2>2, <2>3 DEF OnWayOut, OnReturn
<1> HIDE DEF H, D, others
<1>14. Inside(a, i) \ {} = Inside(a, i) /\ H \ {} = H
  OBVIOUS
<1>15. CASE first = j
  <2>1. D = W
    BY <1>6, <1>12, <1>15
  <2>2. AllOf(program[EX.fn], EX, W, {}, W) /\ {} \subseteq Inside(a, i)
    BY DEF AllOf
  <2>3. Released(program, Lost, EX, W, H \ W, Inside(a, i) \ {})
    BY <1>1, <1>8, <1>9, <2>2, FrameFreed
  <2> QED
    BY <2>1, <2>3, <1>2, <1>3, <1>4, <1>5, <1>8, <1>14 DEF D
<1>16. CASE first # j
  <2>1. D = {} /\ \E k \in i .. j : ops[k].opcode \in {"FAST_CALL", "DISCARD_EXCEPTION"}
    <3>1. i .. j - 1 \subseteq i .. j
      BY <1>1, <1>10
    <3> QED
      BY <1>12, <1>13, <1>16, <3>1
  <2>2. \A v \in W : v \in 1 .. a.T /\ LostReturn(EX.fn, v)
    <3> SUFFICES ASSUME NEW v \in W PROVE v \in 1 .. a.T /\ LostReturn(EX.fn, v)
      OBVIOUS
    <3>1. v = ops[j].op1 /\ v \in 1 .. a.T
      BY <1>7, <1>8 DEF H
    <3>2. ops[j].opcode = "RETURN" /\ i < j /\ OnReturn(ops[i]) /\ i \in DOMAIN ops
      BY <1>1, <1>6, <1>10
    <3>3. j \in DOMAIN ops
      BY <1>6
    <3> QED
      BY <3>1, <3>2, <3>3, <2>1, <1>1 DEF LostReturn
  <2>3. W \subseteq Lost[EX.fn]
    BY <1>1, <2>2 DEF Lost
  <2>4. FrameFits(program, Lost, EX, H \ W, Inside(a, i))
    <3>1. Fits(a, Lost[EX.fn], EX, H, Inside(a, i)) /\ H \ W \in SUBSET H
          /\ H \ (H \ W) \subseteq Lost[EX.fn]
      BY <1>9, <2>3 DEF FrameFits
    <3>2. Fits(a, Lost[EX.fn], EX, H \ W, Inside(a, i))
      BY <3>1, FitsLess
    <3> QED
      BY <1>1, <3>2 DEF FrameFits
  <2>5. AllOf(program[EX.fn], EX, {}, {}, {}) /\ {} \subseteq Inside(a, i) /\ {} \subseteq H \ W
    BY DEF AllOf
  <2>6. Released(program, Lost, EX, {}, (H \ W) \ {}, Inside(a, i) \ {})
    BY <1>1, <2>4, <2>5, FrameFreed
  <2>7. (H \ W) \ {} = H \ W
    OBVIOUS
  <2> QED
    BY <2>1, <2>6, <2>7, <1>2, <1>3, <1>4, <1>5, <1>8, <1>14 DEF D
<1> QED
  BY <1>15, <1>16

LEMMA HandleExceptionFits == ASSUME ValuesInv, HandleException, JumpsInv' PROVE ValuesInv'
<1> DEFINE a == program[EX.fn]
           loop == OnReturn(opline)
           op == IF loop THEN LoopRange(EX).end ELSE EX.opline
           D == (IF loop THEN FreedReturn(EX) ELSE {}) \cup ({opline.result} \ {NoVar})
           g == FreeVars(EX, D)
           off == Innermost(EX, op)
<1>1. /\ StackOK /\ MisuseLost /\ IsSeq(log) /\ IsSeq(exception) /\ OpArray(EX) = a
      /\ WellFormed(a) /\ EX.opline \in Nat /\ opline = a.opcodes[EX.opline]
  BY TopOK
<1>2. /\ pc = "handle" /\ pc' = "dispatch" /\ misuse' = misuse \cup FreedUndef(EX, D)
      /\ frames' = SetTop(g) /\ walk' = [offset |-> off, op_num |-> op]
      /\ program' = program /\ log' = log /\ exception' = exception
  BY Zenon DEF HandleException
<1>3. /\ Released(program, Lost, EX, D, InRange(a, op), FinallyAround(a, op))
      /\ op \in Nat /\ a.opcodes[op].opcode # "FAST_RET"
  <2>1. CASE loop
    <3>1. /\ Released(program, Lost, EX, FreedReturn(EX), InRange(a, op), FinallyAround(a, op))
          /\ op \in Nat /\ a.opcodes[op].opcode # "FAST_RET" /\ opline.result = NoVar
      BY <1>2, <2>1, ThrownFree
    <3>2. D = FreedReturn(EX)
      BY <2>1, <3>1
    <3> QED
      BY <3>1, <3>2
  <2>2. CASE ~loop
    <3>1. /\ Released(program, Lost, EX, {opline.result} \ {NoVar}, InRange(a, op), FinallyAround(a, op))
          /\ opline.opcode # "FAST_RET"
      BY <1>2, <2>2, ThrownHere
    <3>2. D = {opline.result} \ {NoVar} /\ op = EX.opline
      BY <2>2
    <3> QED
      BY <1>1, <3>1, <3>2
  <2> QED
    BY <2>1, <2>2
<1> HIDE DEF D, op, a, loop
<1>4. /\ LeftAt(a, op, off) = FinallyAround(a, op)
      /\ \A b \in FinallyAround(a, op) : op < a.try_catch[b].finally_end
  BY <1>1, <1>3, AllLeft
<1>5. /\ FreedUndef(EX, D) = {} /\ SameCall(EX, g)
      /\ FrameFits(program, Lost, g, InRange(a, op), LeftAt(a, op, off))
  BY <1>3, <1>4 DEF Released
<1>6. Grows /\ misuse' = misuse
  BY <1>1, <1>2, <1>5, SameLog
<1>7. MisuseLost'
  BY <1>1, <1>6, MisuseSame
<1>8. exception' = NoException => EX.gen
  BY <1>2 DEF ValuesInv, TopFits
<1>9. walk'.offset = off /\ walk'.op_num = op
  BY <1>2
<1>10. \A b \in LeftAt(a, op, off) : op < a.try_catch[b].finally_end
  BY <1>4
<1> HIDE DEF g, off
<1>11. IsSeq(exception')
  BY <1>1, <1>2
<1> QED
  BY <1>2, <1>5, <1>6, <1>7, <1>8, <1>9, <1>10, <1>11, DispatchFits DEF a

(***************************************************************************)
(* The dispatch helper.                                                    *)
(***************************************************************************)

\* cleanup_live_vars on the way to a handler of block b frees what is in a live range at
\* op and not there; nothing else begins there.
LEMMA RangesLeft ==
  ASSUME NEW f, NEW a, a = OpArray(f), WellFormed(a), NEW op \in Nat,
         NEW b \in DOMAIN a.try_catch, a.try_catch[b].try_op <= op,
         NEW to \in {a.try_catch[b].catch_op, a.try_catch[b].finally_op} \ {0}, op < to
  PROVE  /\ LiveVars(f, op, to) \subseteq InRange(a, op)
         /\ InRange(a, to) = InRange(a, op) \ LiveVars(f, op, to)
<1>1. to \in Nat /\ a.try_catch[b].try_op \in Nat /\ to # NoOp
  BY BlocksOK DEF NoOp
<1>2. \A r \in a.live_range :
        /\ r.start \in Nat /\ r.end \in Nat
        /\ \A q \in a.live_range : q.var = r.var => q = r
        /\ r.start <= to /\ to < r.end => r.start <= a.try_catch[b].try_op
  BY BlocksOK DEF WellFormed, RangesInPlace
<1>3. LiveVars(f, op, to)
        = {r.var : r \in {q \in a.live_range : q.start <= op /\ op < q.end /\ to >= q.end}}
  BY <1>1 DEF LiveVars
<1>4. \A v : v \in LiveVars(f, op, to)
               <=> \E q \in a.live_range : q.var = v /\ q.start <= op /\ op < q.end /\ to >= q.end
  BY <1>3
<1>5. \A v, i : v \in InRange(a, i) <=> \E q \in a.live_range : q.var = v /\ q.start <= i /\ i < q.end
  BY DEF InRange
<1>6. LiveVars(f, op, to) \subseteq InRange(a, op)
  BY <1>4, <1>5
<1>7. ASSUME NEW v PROVE v \in InRange(a, to) <=> v \in InRange(a, op) /\ v \notin LiveVars(f, op, to)
  <2>1. ASSUME v \in InRange(a, to) PROVE v \in InRange(a, op) /\ v \notin LiveVars(f, op, to)
    <3>1. PICK q \in a.live_range : q.var = v /\ q.start <= to /\ to < q.end
      BY <2>1, <1>5
    <3>2. q.start <= op /\ op < q.end
      BY <1>1, <1>2, <3>1
    <3>3. v \in InRange(a, op)
      BY <3>1, <3>2, <1>5
    <3>4. ~(to >= q.end)
      BY <1>1, <1>2, <3>1
    <3>5. \A r \in a.live_range : r.var = v => r = q
      BY <1>2, <3>1
    <3> QED
      BY <3>3, <3>4, <3>5, <1>4
  <2>2. ASSUME v \in InRange(a, op), v \notin LiveVars(f, op, to) PROVE v \in InRange(a, to)
    <3>1. PICK q \in a.live_range : q.var = v /\ q.start <= op /\ op < q.end
      BY <2>2, <1>5
    <3>2. ~(to >= q.end)
      BY <2>2, <3>1, <1>4
    <3>3. q.start <= to /\ to < q.end
      BY <1>1, <1>2, <3>1, <3>2
    <3> QED
      BY <3>1, <3>3, <1>5
  <2> QED
    BY <2>1, <2>2
<1> QED
  BY <1>6, <1>7

\* The finally blocks around a handler of block b are those that the helper has not left, and
\* b itself if the handler is its finally block.
LEMMA HandlerBlocks ==
  ASSUME NEW a, WellFormed(a), NEW op \in Nat, NEW b \in DOMAIN a.try_catch, a.try_catch[b].try_op <= op,
         NEW to \in {a.try_catch[b].catch_op, a.try_catch[b].finally_op} \ {0}, op < to,
         \A c \in LeftAt(a, op, b) : op < a.try_catch[c].finally_end
  PROVE  /\ b \notin LeftAt(a, op, b) /\ FinallyAround(a, to) \ {b} = LeftAt(a, op, b)
         /\ b \in FinallyAround(a, to) <=> to = a.try_catch[b].finally_op
<1> DEFINE tc == a.try_catch
           last == IF tc[b].finally_op = 0 THEN tc[b].catch_op ELSE tc[b].finally_end
           Nested(c) == \/ last < tc[c].finally_op \/ tc[c].finally_end < tc[b].try_op
                        \/ tc[c].finally_op <= tc[b].try_op /\ last <= tc[c].finally_end
<1>1. \A c \in DOMAIN tc : /\ c \in Nat /\ tc[c].try_op \in Nat /\ tc[c].catch_op \in Nat
                           /\ tc[c].finally_op \in Nat /\ tc[c].finally_end \in Nat
                           /\ c <= b => tc[c].try_op <= tc[b].try_op
                           /\ b <= c => tc[b].try_op <= tc[c].try_op
                           /\ tc[c].finally_op # 0 => tc[c].try_op < tc[c].finally_op
  BY BlocksOK
<1>2. tc[b].finally_op # 0 => tc[b].catch_op < tc[b].finally_op /\ tc[b].finally_op <= tc[b].finally_end
  BY DEF WellFormed, RangesInPlace
<1>3. \A c \in DOMAIN tc : tc[c].finally_op # 0 /\ c < b => Nested(c)
  BY Zenon DEF WellFormed, RangesInPlace
<1>4. to <= last /\ to \in Nat /\ last \in Nat
  BY <1>1, <1>2
<1>5. \A c, i : c \in FinallyAround(a, i)
                  <=> c \in DOMAIN tc /\ tc[c].finally_op # 0 /\ tc[c].finally_op <= i /\ i <= tc[c].finally_end
  BY DEF FinallyAround
<1>6. \A c \in FinallyAround(a, to) \ {b} : c \in FinallyAround(a, tc[b].try_op)
  <2>1. CASE to = tc[b].catch_op
    BY <2>1, BlocksOK DEF Leads
  <2>2. CASE to = tc[b].finally_op
    BY <2>2, BlocksOK
  <2> QED
    BY <2>1, <2>2
<1>7. b \notin LeftAt(a, op, b)
  BY <1>1, <1>2, <1>5 DEF LeftAt
<1> HIDE DEF last
<1>8. ASSUME NEW c \in FinallyAround(a, to) \ {b} PROVE c \in LeftAt(a, op, b)
  <2>1. /\ c \in DOMAIN tc /\ tc[c].finally_op # 0 /\ tc[c].finally_op <= tc[b].try_op
        /\ to <= tc[c].finally_end
    BY <1>5, <1>6
  <2>2. c <= b
    BY <1>1, <2>1
  <2>3. tc[c].finally_op <= op /\ op <= tc[c].finally_end
    BY <1>1, <1>4, <2>1
  <2> QED
    BY <1>5, <2>1, <2>2, <2>3 DEF LeftAt
<1>9. ASSUME NEW c \in LeftAt(a, op, b) PROVE c \in FinallyAround(a, to) \ {b}
  <2>1. /\ c \in DOMAIN tc /\ tc[c].finally_op # 0 /\ tc[c].finally_op <= op
        /\ op < tc[c].finally_end /\ c <= b /\ c # b
    BY <1>5, <1>7 DEF LeftAt
  <2>2. Nested(c)
    BY <1>1, <1>3, <2>1
  <2>3. tc[c].finally_op <= to /\ to <= tc[c].finally_end
    BY <1>1, <1>4, <2>1, <2>2
  <2> QED
    BY <1>5, <2>1, <2>3
<1>10. b \in FinallyAround(a, to) <=> to = tc[b].finally_op
  BY <1>1, <1>2, <1>5
<1> QED
  BY <1>7, <1>8, <1>9, <1>10

\* What WellFormed says of the handlers of a block.
LEMMA Handlers ==
  ASSUME NEW a, WellFormed(a), NEW b \in DOMAIN a.try_catch,
         NEW to \in {a.try_catch[b].catch_op, a.try_catch[b].finally_op} \ {0}
  PROVE  Held(a, to) = InRange(a, to) /\ Inside(a, to) = FinallyAround(a, to)
<1>1. CASE to = a.try_catch[b].catch_op
  <2>1. to \in DOMAIN a.opcodes /\ a.opcodes[to].opcode = "CATCH"
    BY <1>1, BlocksOK DEF Leads, WellFormed
  <2> QED
    BY <2>1, Makes
<1>2. CASE to = a.try_catch[b].finally_op
  BY <1>2 DEF WellFormed, RangesInPlace, InTheOpen
<1> QED
  BY <1>1, <1>2

\* A handler is entered with what is in a live range at op freed.
Handled(p, lost, f, D, to) ==
  /\ FreedUndef(f, D) = {}
  /\ FitsAt(p, lost, FreeVars(f, D), to) /\ SameCall(f, FreeVars(f, D))

LEMMA HandlerFits ==
  ASSUME NEW f, NEW a, a = OpArray(f), WellFormed(a), NEW op, NEW to,
         NEW B, FrameFits(program, Lost, f, InRange(a, op), B),
         LiveVars(f, op, to) \subseteq InRange(a, op),
         Held(a, to) = InRange(a, op) \ LiveVars(f, op, to), Inside(a, to) = B
  PROVE  Handled(program, Lost, f, LiveVars(f, op, to), to)
<1> DEFINE D == LiveVars(f, op, to)
<1>1. AllOf(program[f.fn], f, D, {}, D) /\ {} \subseteq B /\ B \ {} = B
  BY DEF AllOf
<1> HIDE DEF D
<1>2. WellFormed(program[f.fn]) /\ program[f.fn] = a
  BY DEF OpArray
<1>3. D \subseteq InRange(a, op)
  BY DEF D
<1>4. Released(program, Lost, f, D, InRange(a, op) \ D, B \ {})
  BY <1>1, <1>2, <1>3, FrameFreed
<1>5. Held(a, to) = InRange(a, op) \ D /\ Inside(a, to) = B
  BY DEF D
<1>6. FreeVars(f, D).fn = f.fn
  BY <1>4 DEF Released, SameCall
<1>7. FitsAt(program, Lost, FreeVars(f, D), to)
  BY <1>1, <1>2, <1>4, <1>5, <1>6 DEF Released, FitsAt
<1> QED
  BY <1>4, <1>7 DEF Released, Handled, D

\* The block that the helper is at, in terms of the frame.
LEMMA WalkAt ==
  ASSUME ValuesInv, InBlocks
  PROVE  LET a == program[EX.fn]
             b == walk.offset
             op == walk.op_num
         IN  /\ op \in Nat /\ b \in DOMAIN a.try_catch /\ b \in Nat \ {0}
             /\ try_catch = a.try_catch[b] /\ a.try_catch[b].try_op <= op
             /\ pc = "dispatch" /\ (exception = NoException => EX.gen)
             /\ FrameFits(program, Lost, EX, InRange(a, op), LeftAt(a, op, b))
             /\ \A c \in LeftAt(a, op, b) : op < a.try_catch[c].finally_end
<1>1. pc = "dispatch" /\ JumpsInv /\ TopFits
  BY DEF InBlocks, ValuesInv
<1>2. WalkFits /\ (exception = NoException => EX.gen)
  BY <1>1 DEF TopFits
<1> QED
  BY <1>1, <1>2, BlockOf, Zenon DEF WalkFits, BlocksLeft

LEMMA CatchFirst ==
  ASSUME NEW a, WellFormed(a), NEW b \in DOMAIN a.try_catch, a.try_catch[b].catch_op # 0
  PROVE  a.try_catch[b].catch_op # a.try_catch[b].finally_op
BY BlocksOK DEF WellFormed, RangesInPlace

LEMMA GoToCatchFits == ASSUME ValuesInv, GoToCatch, JumpsInv' PROVE ValuesInv'
<1> DEFINE a == program[EX.fn]
           b == walk.offset
           op == walk.op_num
           to == a.try_catch[b].catch_op
           D == LiveVars(EX, op, to)
           g == FreeVars(EX, D)
<1>1. /\ StackOK /\ MisuseLost /\ IsSeq(log) /\ IsSeq(exception) /\ OpArray(EX) = a /\ WellFormed(a)
  BY TopOK
<1>2. InBlocks /\ CatchAhead
  BY DEF GoToCatch
<1>3. /\ op \in Nat /\ b \in DOMAIN a.try_catch
      /\ try_catch = a.try_catch[b] /\ a.try_catch[b].try_op <= op
      /\ FrameFits(program, Lost, EX, InRange(a, op), LeftAt(a, op, b))
      /\ \A c \in LeftAt(a, op, b) : op < a.try_catch[c].finally_end
  BY <1>2, WalkAt
<1>4. /\ pc' = "run" /\ misuse' = misuse \cup FreedUndef(EX, D) /\ frames' = SetTop(At(g, to))
      /\ program' = program /\ log' = log /\ exception' = exception
  BY <1>3 DEF GoToCatch, JumpTo
<1>5. op < to /\ to \in Nat
  BY <1>1, <1>2, <1>3, BlocksOK DEF CatchAhead
<1>6. to \in {a.try_catch[b].catch_op, a.try_catch[b].finally_op} \ {0}
  BY <1>3, <1>5
<1>7. to # a.try_catch[b].finally_op
  <2> HIDE DEF a, to
  <2>1. to \in Nat
    BY <1>5
  <2> QED
    BY <1>1, <1>3, <1>5, <2>1, CatchFirst DEF to
<1> HIDE DEF to, a, b, op
<1>8. D \subseteq InRange(a, op) /\ InRange(a, to) = InRange(a, op) \ D
  BY <1>1, <1>3, <1>5, <1>6, RangesLeft
<1>9. FinallyAround(a, to) = LeftAt(a, op, b)
  BY <1>1, <1>3, <1>5, <1>6, <1>7, HandlerBlocks
<1>10. Held(a, to) = InRange(a, to) /\ Inside(a, to) = FinallyAround(a, to)
  BY <1>1, <1>3, <1>6, Handlers
<1>11. Handled(program, Lost, EX, D, to)
  <2>1. Held(a, to) = InRange(a, op) \ D /\ Inside(a, to) = LeftAt(a, op, b)
    BY <1>8, <1>9, <1>10
  <2> QED
    BY <1>1, <1>3, <1>8, <2>1, HandlerFits
<1> HIDE DEF D
<1>12. FreedUndef(EX, D) = {} /\ FitsAt(program, Lost, g, to) /\ SameCall(EX, g)
  BY <1>11 DEF Handled
<1>13. Grows /\ misuse' = misuse
  BY <1>1, <1>4, <1>12, SameLog
<1>14. MisuseLost'
  BY <1>1, <1>13, MisuseSame
<1>15. IsSeq(exception')
  BY <1>1, <1>4
<1> HIDE DEF g
<1> QED
  BY <1>4, <1>12, <1>13, <1>14, <1>15, LeadsFits

LEMMA GoToFinallyFits == ASSUME ValuesInv, GoToFinally, JumpsInv' PROVE ValuesInv'
<1> DEFINE a == program[EX.fn]
           b == walk.offset
           op == walk.op_num
           to == a.try_catch[b].finally_op
           entry == [obj |-> exception, ret |-> NoOp]
           e == Enter(EX, FastCallOf(a, b), entry)
           D == LiveVars(e, op, to)
           g == FreeVars(e, D)
           B == LeftAt(a, op, b) \cup {b}
<1>1. /\ StackOK /\ MisuseLost /\ IsSeq(log) /\ IsSeq(exception) /\ OpArray(EX) = a /\ WellFormed(a)
  BY TopOK
<1>2. InBlocks /\ FinallyAhead
  BY DEF GoToFinally
<1>3. /\ op \in Nat /\ b \in DOMAIN a.try_catch
      /\ try_catch = a.try_catch[b] /\ a.try_catch[b].try_op <= op
      /\ exception = NoException => EX.gen
      /\ FrameFits(program, Lost, EX, InRange(a, op), LeftAt(a, op, b))
      /\ \A c \in LeftAt(a, op, b) : op < a.try_catch[c].finally_end
  BY <1>2, WalkAt
<1>4. /\ pc' = "run" /\ misuse' = misuse \cup FreedUndef(e, D) /\ frames' = SetTop(At(g, to))
      /\ program' = program /\ log' = log /\ exception' = NoException
  <2>1. FastCallVar = FastCallOf(a, b)
    BY <1>1, <1>3 DEF FastCallVar, FastCallOf
  <2>2. JumpTo(e, to)
    BY <1>3, <2>1 DEF GoToFinally, Enter
  <2> QED
    BY <2>2 DEF GoToFinally, JumpTo
<1>5. op < to /\ to \in Nat
  BY <1>1, <1>2, <1>3, BlocksOK DEF FinallyAhead
<1>6. /\ to \in {a.try_catch[b].catch_op, a.try_catch[b].finally_op} \ {0}
      /\ b \in Blocks(a) /\ to = a.try_catch[b].finally_op
  BY <1>3, <1>5 DEF Blocks
<1> HIDE DEF to, a, b, op
<1>7. FinallyAround(a, to) = B /\ b \notin LeftAt(a, op, b)
  BY <1>1, <1>3, <1>5, <1>6, HandlerBlocks
<1>8. Held(a, to) = InRange(a, to) /\ Inside(a, to) = FinallyAround(a, to)
  BY <1>1, <1>3, <1>6, Handlers
<1>9. Enters(a, EX, b, entry) /\ WaitsFor(a, entry) = {}
  BY <1>1, <1>3 DEF Enters, EnteredRight, WaitsFor, NoOp, Unset
<1>10. Fitted(program, Lost, EX, e, InRange(a, op), B)
  <2>1. InRange(a, op) = InRange(a, op) \ WaitsFor(a, entry) /\ WaitsFor(a, entry) \subseteq InRange(a, op)
    BY <1>9
  <2>2. a = program[EX.fn]
    BY DEF a
  <2> HIDE DEF entry, B
  <2>3. B = LeftAt(a, op, b) \cup {b}
    BY DEF B
  <2> QED
    BY <1>1, <1>3, <1>6, <1>7, <1>9, <2>1, <2>2, <2>3, FrameEntered DEF a
<1> HIDE DEF e
<1>11. OpArray(e) = a /\ FrameFits(program, Lost, e, InRange(a, op), B) /\ SameCall(EX, e)
  BY <1>1, <1>10 DEF Fitted, SameCall, OpArray
<1>12. D \subseteq InRange(a, op) /\ InRange(a, to) = InRange(a, op) \ D
  BY <1>1, <1>3, <1>5, <1>6, <1>11, RangesLeft
<1>13. Handled(program, Lost, e, D, to)
  <2>1. Held(a, to) = InRange(a, op) \ D /\ Inside(a, to) = B
    BY <1>7, <1>8, <1>12
  <2> HIDE DEF B
  <2> QED
    BY <1>1, <1>11, <1>12, <2>1, HandlerFits
<1> HIDE DEF D
<1>14. FreedUndef(e, D) = {} /\ FitsAt(program, Lost, g, to) /\ SameCall(EX, g)
  BY <1>11, <1>13 DEF Handled, SameCall
<1>15. Grows /\ misuse' = misuse
  BY <1>1, <1>4, <1>14, SameLog
<1>16. MisuseLost'
  BY <1>1, <1>15, MisuseSame
<1>17. IsSeq(exception')
  BY <1>4, NoneIsSeq
<1> HIDE DEF g
<1> QED
  BY <1>4, <1>14, <1>15, <1>16, <1>17, LeadsFits

\* The blocks left of the one before b, with b out of what the helper has left or not in it.
LEMMA LeftNext ==
  ASSUME NEW a, WellFormed(a), NEW op, NEW b \in Nat \ {0}
  PROVE  LeftAt(a, op, b - 1) = LeftAt(a, op, b) \ {b}
<1>1. \A c \in FinallyAround(a, op) : c \in Nat
  BY BlocksOK DEF FinallyAround
<1>2. \A c \in FinallyAround(a, op) : c <= b - 1 <=> c <= b /\ c # b
  BY <1>1
<1> QED
  BY <1>2 DEF LeftAt

LEMMA PassFits ==
  ASSUME ValuesInv, SkipFinally \/ PassBlock, JumpsInv'
  PROVE  ValuesInv'
<1> DEFINE a == program[EX.fn]
           b == walk.offset
           op == walk.op_num
<1>1. /\ StackOK /\ MisuseLost /\ IsSeq(log) /\ IsSeq(exception) /\ WellFormed(a)
      /\ WalkOK /\ frames = SetTop(EX)
  BY TopOK, SameTop DEF JumpsInv, ThrownInv
<1>2. /\ InBlocks /\ frames' = SetTop(EX) /\ program' = program /\ log' = log
      /\ exception' = exception /\ misuse' = misuse /\ pc' = "dispatch" /\ Outwards
      /\ FinallyAhead \/ (~FinallyAhead /\ ~InFinally)
  BY <1>1 DEF SkipFinally, PassBlock, InBlocks
<1>3. /\ op \in Nat /\ b \in DOMAIN a.try_catch /\ b \in Nat \ {0} /\ try_catch = a.try_catch[b]
      /\ exception = NoException => EX.gen
      /\ FrameFits(program, Lost, EX, InRange(a, op), LeftAt(a, op, b))
      /\ \A c \in LeftAt(a, op, b) : op < a.try_catch[c].finally_end
  BY <1>2, WalkAt
<1>4. walk'.offset = b - 1 /\ walk'.op_num = op
  BY <1>1, <1>2 DEF Outwards, WalkOK
<1> HIDE DEF b, op
<1>5. b \notin LeftAt(a, op, b)
  <2>1. CASE FinallyAhead
    <3>1. op < a.try_catch[b].finally_op /\ a.try_catch[b].finally_op \in Nat
      BY <1>1, <1>3, <2>1, BlocksOK DEF FinallyAhead, op
    <3> QED
      BY <1>3, <3>1 DEF LeftAt, FinallyAround
  <2>2. CASE ~FinallyAhead /\ ~InFinally
    <3>1. ~(op < a.try_catch[b].finally_end)
      BY <1>3, <2>2 DEF InFinally, op
    <3> QED
      BY <1>3, <3>1
  <2> QED
    BY <1>2, <2>1, <2>2
<1>6. LeftAt(a, op, b - 1) = LeftAt(a, op, b)
  BY <1>1, <1>3, <1>5, LeftNext
<1>7. Grows /\ MisuseLost'
  BY <1>1, <1>2, SameLog, MisuseSame
<1>8. SameCall(EX, EX)
  BY DEF SameCall
<1>9. /\ FrameFits(program, Lost, EX, InRange(a, op), LeftAt(a, op, b - 1))
      /\ \A c \in LeftAt(a, op, b - 1) : op < a.try_catch[c].finally_end
  BY <1>3, <1>6
<1>10. IsSeq(exception') /\ (exception' = NoException => EX.gen)
  BY <1>1, <1>2, <1>3
<1> QED
  BY <1>2, <1>4, <1>7, <1>8, <1>9, <1>10, DispatchFits

\* An exception that becomes the previous one of another.
LEMMA Chained ==
  ASSUME NEW s, NEW t, IsSeq(s), IsSeq(t)
  PROVE  IsSeq(s \o t) /\ (s \o t = NoException => s = NoException)
<1>1. PICK S : s \in Seq(S)
  BY Zenon DEF IsSeq
<1>2. PICK T : t \in Seq(T)
  BY Zenon DEF IsSeq
<1>3. s \in Seq(S \cup T) /\ t \in Seq(S \cup T)
  BY <1>1, <1>2
<1>4. s \o t \in Seq(S \cup T) /\ Len(s \o t) = Len(s) + Len(t)
  BY <1>3
<1>5. s \o t = << >> => s = << >>
  BY <1>3, <1>4
<1>6. IsSeq(s \o t)
  BY <1>4, Zenon DEF IsSeq
<1> QED
  BY <1>5, <1>6 DEF NoException

LEMMA ChainFits == ASSUME ValuesInv, ChainPrevious, JumpsInv' PROVE ValuesInv'
<1> DEFINE a == program[EX.fn]
           b == walk.offset
           op == walk.op_num
           D == Waits(a, EX, b)
           g == FreeVars(EX, D)
           obj == EX.fast[FastCallOf(a, b)].obj
<1>1. /\ StackOK /\ MisuseLost /\ IsSeq(log) /\ IsSeq(exception) /\ WellFormed(a)
      /\ WalkOK /\ OpArray(EX) = a
  BY TopOK DEF JumpsInv, ThrownInv
<1>2. /\ InBlocks /\ ~FinallyAhead /\ InFinally /\ Outwards
  BY DEF ChainPrevious, InFinally
<1>3. /\ op \in Nat /\ b \in DOMAIN a.try_catch /\ b \in Nat \ {0} /\ try_catch = a.try_catch[b]
      /\ exception = NoException => EX.gen
      /\ FrameFits(program, Lost, EX, InRange(a, op), LeftAt(a, op, b))
      /\ \A c \in LeftAt(a, op, b) : op < a.try_catch[c].finally_end
  BY <1>2, WalkAt
<1>4. walk'.offset = b - 1 /\ walk'.op_num = op
  BY <1>1, <1>2 DEF Outwards, WalkOK
<1>5. FastCallVar = FastCallOf(a, b)
  BY <1>1, <1>3 DEF FastCallVar, FastCallOf
<1>6. PendingReturn(EX, EX.fast[FastCallOf(a, b)]) = D
  BY <1>1, PendingIs DEF Waits
<1>7. /\ pc' = "dispatch" /\ misuse' = misuse \cup FreedUndef(EX, D) /\ frames' = SetTop(g)
      /\ program' = program /\ log' = log
      /\ exception' = IF IsUnwindExit(exception) THEN exception ELSE exception \o obj
  BY <1>5, <1>6 DEF ChainPrevious, InBlocks
<1>8. b \in LeftAt(a, op, b) /\ b \in Blocks(a)
  <2>1. /\ a.try_catch[b].finally_op <= op /\ op < a.try_catch[b].finally_end
        /\ a.try_catch[b].finally_op \in Nat /\ a.try_catch[b].finally_end \in Nat
    BY <1>1, <1>2, <1>3, BlocksOK DEF FinallyAhead, InFinally
  <2>2. b \in Blocks(a)
    <3>1. a.try_catch[b].finally_end # 0
      BY <1>3, <2>1
    <3> HIDE DEF a, b
    <3> QED
      BY <1>1, <1>3, <3>1 DEF WellFormed, RangesInPlace, Blocks
  <2> QED
    <3> HIDE DEF a, b, op
    <3>1. op <= a.try_catch[b].finally_end /\ b <= b
      BY <1>3, <2>1
    <3>2. /\ b \in DOMAIN a.try_catch /\ a.try_catch[b].finally_op # 0
          /\ a.try_catch[b].finally_op <= op
      BY <2>1, <2>2 DEF Blocks
    <3>3. b \in FinallyAround(a, op)
      BY <3>1, <3>2 DEF FinallyAround
    <3> QED
      BY <2>2, <3>1, <3>3 DEF LeftAt
<1>9. LeftAt(a, op, b - 1) = LeftAt(a, op, b) \ {b}
  BY <1>1, <1>3, LeftNext
<1>10. /\ exception' = NoException => EX.gen
       /\ IsSeq(exception')
  <2>1. IsSeq(obj)
    <3>1. Framed(a, EX)
      BY <1>3 DEF FrameFits, Fits
    <3>2. FastCallOf(a, b) \in 1 .. a.T
      BY <1>1, <1>8, OwnVariable
    <3> QED
      BY <3>1, <3>2 DEF Framed
  <2>2. IsSeq(exception \o obj) /\ (exception \o obj = NoException => exception = NoException)
    BY <1>1, <2>1, Chained
  <2> HIDE DEF obj
  <2> QED
    BY <1>1, <1>3, <1>7, <2>2
<1> HIDE DEF b, op
<1>11. Released(program, Lost, EX, D, InRange(a, op), LeftAt(a, op, b - 1))
  <2>1. AllOf(a, EX, {}, {b}, D) /\ {} \subseteq InRange(a, op) /\ {b} \subseteq LeftAt(a, op, b)
    BY <1>8 DEF AllOf
  <2>2. InRange(a, op) \ {} = InRange(a, op)
    OBVIOUS
  <2>3. Released(program, Lost, EX, D, InRange(a, op) \ {}, LeftAt(a, op, b) \ {b})
    <3> HIDE DEF D
    <3> QED
      BY <1>1, <1>3, <2>1, FrameFreed
  <2> QED
    BY <1>9, <2>2, <2>3
<1> HIDE DEF D
<1>12. /\ FreedUndef(EX, D) = {} /\ SameCall(EX, g)
       /\ FrameFits(program, Lost, g, InRange(a, op), LeftAt(a, op, b - 1))
  BY <1>11 DEF Released
<1>13. \A c \in LeftAt(a, op, b - 1) : op < a.try_catch[c].finally_end
  BY <1>3, <1>9
<1>14. Grows /\ misuse' = misuse
  BY <1>1, <1>7, <1>12, SameLog
<1>15. MisuseLost'
  BY <1>1, <1>14, MisuseSame
<1> HIDE DEF g
<1> QED
  BY <1>4, <1>7, <1>10, <1>12, <1>13, <1>14, <1>15, DispatchFits

\* What is freed when no block is left: all that is held.
LEMMA AllRanges ==
  ASSUME NEW f, NEW a, a = OpArray(f), NEW op
  PROVE  LiveVars(f, op, NoOp) = InRange(a, op)
BY DEF LiveVars, InRange

LEMMA UncaughtFits == ASSUME ValuesInv, Uncaught, JumpsInv' PROVE ValuesInv'
<1> DEFINE a == program[EX.fn]
           op == walk.op_num
           D == LiveVars(EX, op, NoOp)
           caller == frames[Len(frames) - 1]
           told == Answered(caller, EX.ret, "null")
<1>1. /\ StackOK /\ StackFits /\ MisuseLost /\ IsSeq(log) /\ IsSeq(exception) /\ WellFormed(a)
      /\ OpArray(EX) = a /\ JumpsInv /\ program \in Programs
  BY TopOK
<1>2. /\ pc = "dispatch" /\ walk.offset = 0
      /\ program' = program /\ log' = log /\ exception' = exception
      /\ misuse' = misuse \cup FreedUndef(EX, D) \cup Leaked(FreeVars(EX, D))
  BY Zenon DEF Uncaught
<1>3. /\ FrameFits(program, Lost, EX, InRange(a, op), BlocksLeft)
      /\ exception = NoException => EX.gen
  BY <1>2 DEF ValuesInv, TopFits, WalkFits
<1>4. BlocksLeft = {}
  BY <1>1, <1>2, BlocksOK DEF BlocksLeft, LeftAt, FinallyAround
<1>5. Released(program, Lost, EX, D, {}, {})
  <2>1. D = InRange(a, op) /\ AllOf(a, EX, D, {}, D)
    BY <1>1, AllRanges DEF AllOf
  <2> HIDE DEF D
  <2>2. Released(program, Lost, EX, D, D \ D, {} \ {})
    BY <1>1, <1>3, <1>4, <2>1, FrameFreed
  <2>3. D \ D = {} /\ {} \ {} = {}
    OBVIOUS
  <2> QED
    BY <2>2, <2>3
<1> HIDE DEF D
<1>6. Grows
  BY <1>1, <1>2, SameLog
<1>7. MisuseLost'
  <2>1. FreedUndef(EX, D) = {} /\ FrameFits(program, Lost, FreeVars(EX, D), {}, {})
    BY <1>5 DEF Released
  <2>2. misuse' = misuse \cup Leaked(FreeVars(EX, D))
    BY <1>2, <2>1
  <2> QED
    BY <2>1, <2>2, <1>1, <1>6, LeavesLost, MisuseStays
<1>8. IsSeq(exception')
  BY <1>1, <1>2
<1>9. CASE Len(frames) = 1
  <2>1. pc' = "done" /\ frames' = frames
    BY <1>9, Zenon DEF Uncaught
  <2> QED
    BY <2>1, <1>6, <1>7, <1>8, <1>9, DoneFits
<1>10. CASE Len(frames) # 1
  <2>1. /\ FitsAt(program, Lost, caller, caller.opline) /\ Answers(program, caller, EX)
        /\ Placed(program, caller) /\ Calls(program, caller)
    BY <1>1, <1>10, CallerFits, CallerPlaced
  <2>2. IF exception = NoException
        THEN pc' = "run" /\ frames' = Append(SubSeq(frames, 1, Len(frames) - 2), NextOp(caller))
        ELSE pc' = "handle" /\ frames' = Append(SubSeq(frames, 1, Len(frames) - 2), told)
    BY <1>10, Zenon DEF Uncaught, Answered, Write
  <2> HIDE DEF caller
  <2> DEFINE called == program[caller.fn].opcodes[caller.opline]
  <2>3. /\ WellFormed(program[caller.fn]) /\ caller.opline \in DOMAIN program[caller.fn].opcodes
        /\ EX.ret = called.result /\ called.opcode \in {"DO_UCALL", "RUN_GENERATOR"}
        /\ EX.gen <=> called.opcode = "RUN_GENERATOR"
    BY <2>1, <1>1, ProgramOK DEF Placed, PlacedAt, Answers, Calls
  <2>4. Gives(program, Lost, caller, EX.ret, "null")
    BY <2>1, <2>3, Given
  <2>5. CASE exception = NoException
    <3>1. EX.ret = NoVar
      BY <1>3, <2>3, <2>5, Makes
    <3>2. FitsAt(program, Lost, caller, caller.opline + 1)
      BY <2>4, <3>1 DEF Gives, Answered
    <3>3. /\ pc' = "run" /\ SameCall(caller, caller)
          /\ frames' = Append(SubSeq(frames, 1, Len(frames) - 2), At(caller, caller.opline + 1))
      BY <2>2, <2>5 DEF NextOp, SameCall
    <3> QED
      BY <1>6, <1>7, <1>8, <1>10, <3>2, <3>3, PopFits DEF caller
  <2>6. CASE exception # NoException
    <3>1. /\ SameCall(caller, told) /\ told.opline = caller.opline
          /\ EX.ret # NoVar => told.tmp[EX.ret] = "null"
          /\ FitsAt(program, Lost, told, caller.opline)
      BY <2>4 DEF Gives
    <3>2. pc' = "handle" /\ frames' = Append(SubSeq(frames, 1, Len(frames) - 2), told)
      BY <2>2, <2>6
    <3>3. exception' # NoException
      BY <1>2, <2>6
    <3> HIDE DEF told
    <3>4. called = program[told.fn].opcodes[told.opline] /\ FitsAt(program, Lost, told, told.opline)
      BY <3>1 DEF SameCall
    <3>5. called.result # NoVar => told.tmp[called.result] = "null"
      BY <2>3, <3>1
    <3> HIDE DEF called
    <3> QED
      BY <1>6, <1>7, <1>8, <1>10, <2>3, <3>1, <3>2, <3>3, <3>4, <3>5, PopThrows DEF caller
  <2> QED
    BY <2>5, <2>6
<1> QED
  BY <1>9, <1>10

\* The finally block that a generator destroyed at op runs; the ones inside of it that are
\* given up, and what waits in them.
Ahead(f, op) == {i \in 1 .. Innermost(f, op) : op < OpArray(f).try_catch[i].finally_op}
LastAhead(f, op) ==
  IF Ahead(f, op) = {} THEN 0 ELSE CHOOSE i \in Ahead(f, op) : \A j \in Ahead(f, op) : j <= i
LeftFrom(f, op, last) ==
  {i \in last + 1 .. Innermost(f, op) :
     op >= OpArray(f).try_catch[i].finally_op /\ op < OpArray(f).try_catch[i].finally_end}
WaitingIn(f, left) == UNION {PendingReturn(f, f.fast[FastCallOf(OpArray(f), i)]) : i \in left}

\* It begins ahead of the YIELD, in a block that has begun.
LEMMA BlockAhead ==
  ASSUME NEW f, NEW a, a = OpArray(f), WellFormed(a), NEW op \in Nat
  PROVE  LET last == LastAhead(f, op)
         IN  /\ last \in Nat
             /\ last # 0 => /\ last \in DOMAIN a.try_catch /\ a.try_catch[last].try_op <= op
                            /\ op < a.try_catch[last].finally_op
<1> SUFFICES ASSUME NEW ahead, ahead = Ahead(f, op), ahead # {},
                    NEW last, last = CHOOSE i \in ahead : \A j \in ahead : j <= i
             PROVE  /\ last \in DOMAIN a.try_catch /\ last \in Nat \ {0}
                    /\ a.try_catch[last].try_op <= op /\ op < a.try_catch[last].finally_op
  BY Zenon DEF LastAhead
<1> DEFINE tc == a.try_catch
<1>1. PICK inner : inner = Innermost(f, op)
  OBVIOUS
<1>2. inner \in Nat /\ (inner # 0 => inner \in DOMAIN tc /\ tc[inner].try_op <= op)
  BY <1>1, InnermostOf
<1>3. ahead \subseteq 1 .. inner /\ \A i \in ahead : op < tc[i].finally_op
  BY <1>1 DEF Ahead
<1>4. \E i \in ahead : \A j \in ahead : j <= i
  BY <1>2, <1>3, Greatest
<1>5. last \in ahead
  BY <1>4
<1>6. last \in 1 .. inner /\ op < tc[last].finally_op /\ inner # 0
  BY <1>2, <1>3, <1>5
<1>7. DOMAIN tc = 1 .. Len(tc) /\ Len(tc) \in Nat
  BY BlocksOK
<1>8. last \in DOMAIN tc /\ last \in Nat \ {0} /\ inner \in DOMAIN tc /\ tc[inner].try_op <= op
  <2>1. inner \in DOMAIN tc /\ tc[inner].try_op <= op
    BY <1>2, <1>6
  <2>2. \A n, k, m : n \in Nat /\ k \in 1 .. n /\ n \in 1 .. m /\ m \in Nat => k \in 1 .. m /\ k \in Nat \ {0}
    OBVIOUS
  <2>3. last \in 1 .. Len(tc) /\ last \in Nat \ {0}
    BY <1>2, <1>6, <1>7, <2>1, <2>2, Zenon
  <2> QED
    BY <1>7, <2>1, <2>3
<1>9. /\ tc[last].try_op \in Nat /\ tc[inner].try_op \in Nat
      /\ tc[last].try_op <= tc[inner].try_op
  BY <1>6, <1>8, BlocksOK
<1> QED
  BY <1>6, <1>8, <1>9

\* What is given up with the finally blocks that a generator is suspended in, from block last.
LEMMA GivenUp ==
  ASSUME NEW f, NEW a, a = OpArray(f), WellFormed(a), NEW op \in Nat,
         a.opcodes[op].opcode # "FAST_RET", NEW last \in Nat
  PROVE  LET left == LeftFrom(f, op, last)
         IN  /\ left = {b \in FinallyAround(a, op) : b > last}
             /\ \A vs : AllOf(a, f, vs, left, WaitingIn(f, left) \cup vs)
<1> DEFINE tc == a.try_catch
           left == LeftFrom(f, op, last)
           given == WaitingIn(f, left)
<1>1. PICK inner : inner = Innermost(f, op)
  OBVIOUS
<1>2. inner \in Nat /\ (inner # 0 => inner \in DOMAIN tc)
  BY <1>1, InnermostOf
<1>3. DOMAIN tc = 1 .. Len(tc) /\ Len(tc) \in Nat
  BY BlocksOK
<1>4. \A b \in FinallyAround(a, op) : op < tc[b].finally_end
  BY AllLeft
<1>5. \A b \in FinallyAround(a, op) : b <= inner
  <2>1. LeftAt(a, op, Innermost(f, op)) = FinallyAround(a, op)
    BY AllLeft
  <2> QED
    BY <1>1, <2>1 DEF LeftAt
<1>6. ASSUME NEW b \in left PROVE b \in FinallyAround(a, op) /\ b > last
  <2>1. /\ b \in last + 1 .. inner /\ op >= tc[b].finally_op /\ op < tc[b].finally_end
    BY <1>1 DEF LeftFrom
  <2>2. b \in DOMAIN tc /\ b > last
    BY <1>2, <1>3, <2>1
  <2>3. tc[b].finally_op \in Nat /\ tc[b].finally_end \in Nat
    BY <2>2, BlocksOK
  <2>4. tc[b].finally_end # 0 /\ tc[b].finally_op <= op /\ op <= tc[b].finally_end
    BY <2>1, <2>3
  <2>5. tc[b].finally_op # 0
    BY <2>2, <2>4 DEF WellFormed, RangesInPlace
  <2> QED
    BY <2>2, <2>4, <2>5 DEF FinallyAround
<1>7. ASSUME NEW b \in FinallyAround(a, op), b > last PROVE b \in left
  <2>1. b \in DOMAIN tc /\ tc[b].finally_op <= op
    BY DEF FinallyAround
  <2>2. tc[b].finally_op \in Nat /\ b \in Nat
    BY <1>3, <2>1, BlocksOK
  <2>3. b \in last + 1 .. inner /\ op >= tc[b].finally_op
    BY <1>2, <1>5, <1>7, <2>1, <2>2
  <2> QED
    BY <1>1, <1>4, <2>3 DEF LeftFrom
<1>8. \A i : PendingReturn(f, f.fast[FastCallOf(a, i)]) = Waits(a, f, i)
  BY PendingIs DEF Waits
<1>9. \A v : v \in given <=> \E b \in left : v \in Waits(a, f, b)
  <2> HIDE DEF left
  <2> QED
    BY <1>8 DEF WaitingIn
<1>10. \A vs : AllOf(a, f, vs, left, given \cup vs)
  BY <1>9 DEF AllOf
<1>11. left = {b \in FinallyAround(a, op) : b > last}
  BY <1>6, <1>7
<1> QED
  BY <1>10, <1>11, Zenon

\* A generator is forced.
Forced(f) == [f EXCEPT !.forced = TRUE]

LEMMA FrameForced ==
  ASSUME NEW p, NEW lost, NEW f, NEW H, NEW B, FrameFits(p, lost, f, H, B)
  PROVE  Fitted(p, lost, f, Forced(f), H, B)
<1> DEFINE g == Forced(f)
<1>1. DOMAIN f = FrameFields /\ f.fn \in DOMAIN p /\ Fits(p[f.fn], lost[f.fn], f, H, B)
  BY DEF FrameFits, Fits, Framed
<1>2. /\ DOMAIN g = FrameFields /\ g.fn = f.fn /\ g.ret = f.ret /\ g.gen = f.gen
      /\ g.opline = f.opline /\ g.fast = f.fast /\ g.tmp = f.tmp
  BY <1>1 DEF FrameFields, Forced
<1> HIDE DEF g
<1>3. Fits(p[f.fn], lost[f.fn], g, H, B)
  BY <1>1, <1>2, FitsMoved
<1> QED
  BY <1>1, <1>2, <1>3 DEF FrameFits, SameCall, Fitted, g

\* The finally block that it runs finds what is in a live range where it begins, and that no
\* RETURN called it.
LEMMA DestroyedRuns ==
  ASSUME NEW gen, NEW a, a = OpArray(gen), WellFormed(a), NEW op \in Nat,
         FrameFits(program, Lost, gen, InRange(a, op), FinallyAround(a, op)), gen.gen,
         a.opcodes[op].opcode # "FAST_RET",
         NEW last \in DOMAIN a.try_catch, a.try_catch[last].try_op <= op,
         NEW to, to = a.try_catch[last].finally_op, op < to,
         NEW left, left = {b \in FinallyAround(a, op) : b > last},
         NEW dead, AllOf(a, gen, LiveVars(gen, op, to), left, dead),
         NEW v, v = FastCallOf(a, last),
         NEW g, g = At(Enter(Forced(FreeVars(gen, dead)), v, [obj |-> NoException, ret |-> NoOp]), to)
  PROVE  /\ FreedUndef(gen, dead) = {}
         /\ FitsAt(program, Lost, g, g.opline) /\ SameCall(gen, g)
<1> DEFINE vs == LiveVars(gen, op, to)
           B == LeftAt(a, op, last)
           f == FreeVars(gen, dead)
           h == Forced(f)
           entry == [obj |-> NoException, ret |-> NoOp]
           e == Enter(h, v, entry)
<1>1. /\ to \in {a.try_catch[last].catch_op, a.try_catch[last].finally_op} \ {0}
      /\ last \in Blocks(a) /\ last \in Nat
  BY BlocksOK DEF Blocks
<1>2. a = program[gen.fn]
  BY DEF OpArray
<1>3. vs \subseteq InRange(a, op) /\ InRange(a, to) = InRange(a, op) \ vs
  BY <1>1, RangesLeft
<1>4. \A c \in FinallyAround(a, op) : c \in Nat /\ op < a.try_catch[c].finally_end
  BY AllLeft, BlocksOK DEF FinallyAround
<1>5. FinallyAround(a, to) = B \cup {last} /\ last \notin B
  BY <1>1, <1>4, HandlerBlocks DEF LeftAt
<1>6. left \subseteq FinallyAround(a, op) /\ FinallyAround(a, op) \ left = B
  <2>1. \A c \in FinallyAround(a, op) : ~(c > last) <=> c <= last
    BY <1>1, <1>4
  <2> QED
    BY <2>1 DEF LeftAt
<1>7. Held(a, to) = InRange(a, op) \ vs /\ Inside(a, to) = B \cup {last}
  BY <1>1, <1>3, <1>5, Handlers
<1>8. AllOf(program[gen.fn], gen, vs, left, dead) /\ WellFormed(program[gen.fn])
  BY <1>2
<1> HIDE DEF vs, B
<1>9. Released(program, Lost, gen, dead, InRange(a, op) \ vs, FinallyAround(a, op) \ left)
  BY <1>3, <1>6, <1>8, FrameFreed
<1>10. /\ FreedUndef(gen, dead) = {} /\ SameCall(gen, f)
      /\ FrameFits(program, Lost, f, InRange(a, op) \ vs, B)
  BY <1>6, <1>9 DEF Released
<1> HIDE DEF f
<1>11. Fitted(program, Lost, f, h, InRange(a, op) \ vs, B)
  BY <1>10, FrameForced
<1> HIDE DEF h
<1>12. /\ FrameFits(program, Lost, h, InRange(a, op) \ vs, B) /\ SameCall(gen, h)
       /\ program[h.fn] = a /\ h.gen
  BY <1>2, <1>10, <1>11 DEF Fitted, SameCall
<1>13. Enters(a, h, last, entry) /\ WaitsFor(a, entry) = {}
  BY <1>12, NoneIsSeq DEF Enters, EnteredRight, WaitsFor, NoOp, Unset
<1>14. Fitted(program, Lost, h, e, InRange(a, op) \ vs, B \cup {last})
  <2> HIDE DEF entry
  <2>1. InRange(a, op) \ vs = (InRange(a, op) \ vs) \ WaitsFor(a, entry)
    BY <1>13
  <2>2. WaitsFor(a, entry) \subseteq InRange(a, op) \ vs
    BY <1>13
  <2>3. /\ WellFormed(program[h.fn]) /\ last \in Blocks(program[h.fn]) /\ last \notin B
        /\ Enters(program[h.fn], h, last, entry) /\ v = FastCallOf(program[h.fn], last)
        /\ WaitsFor(program[h.fn], entry) \subseteq InRange(a, op) \ vs
        /\ InRange(a, op) \ vs = (InRange(a, op) \ vs) \ WaitsFor(program[h.fn], entry)
    BY <1>1, <1>5, <1>12, <1>13, <2>1, <2>2
  <2> QED
    BY <1>12, <2>3, FrameEntered
<1> HIDE DEF e
<1>15. FrameFits(program, Lost, e, InRange(a, op) \ vs, B \cup {last}) /\ SameCall(gen, e)
  BY <1>12, <1>14 DEF Fitted, SameCall
<1>16. g = At(e, to)
  BY DEF e, h, f, entry
<1>17. /\ FrameFits(program, Lost, g, InRange(a, op) \ vs, B \cup {last}) /\ SameCall(gen, g)
       /\ g.opline = to
  <2>1. /\ FrameFits(program, Lost, g, InRange(a, op) \ vs, B \cup {last}) /\ SameCall(e, g)
        /\ g.opline = to
    BY <1>15, <1>16, FrameMoved
  <2> QED
    BY <1>15, <2>1 DEF SameCall
<1>18. FitsAt(program, Lost, g, g.opline)
  BY <1>2, <1>7, <1>17 DEF FitsAt, SameCall
<1> QED
  BY <1>10, <1>17, <1>18

LEMMA DestroyFits == ASSUME ValuesInv, Destroy, JumpsInv' PROVE ValuesInv'
<1> DEFINE gen == suspended[1]
           op == gen.opline - 1
           a == program[gen.fn]
           tc == a.try_catch
           last == LastAhead(gen, op)
           left == LeftFrom(gen, op, last)
           given == WaitingIn(gen, left)
           to == tc[last].finally_op
           vs == LiveVars(gen, op, IF last = 0 THEN NoOp ELSE to)
           dead == given \cup vs
           f == FreeVars(gen, dead)
           v == FastCallOf(a, last)
           g == At(Enter(Forced(f), v, [obj |-> NoException, ret |-> NoOp]), to)
<1>1. /\ program' = program /\ log' = Logged(YieldOp.label, "destroy")
      /\ exception' = exception /\ pc = "yielded" /\ pc' = "run"
  BY DEF Destroy
<1>2. IF last = 0
      THEN /\ misuse' = misuse \cup FreedUndef(gen, dead) \cup Leaked(f)
           /\ frames' = SetTop(NextOp(EX))
      ELSE /\ misuse' = misuse \cup FreedUndef(gen, dead)
           /\ frames' = Append(frames, At([f EXCEPT !.forced = TRUE,
                                             !.fast[v] = [obj |-> NoException, ret |-> NoOp]], to))
  BY Zenon DEF Destroy, LastAhead, Ahead, LeftFrom, WaitingIn, FastCallOf, OpArray
<1>3. [f EXCEPT !.forced = TRUE, !.fast[v] = [obj |-> NoException, ret |-> NoOp]]
        = Enter(Forced(f), v, [obj |-> NoException, ret |-> NoOp])
  BY DEF Enter, Forced
<1>4. /\ program[EX.fn].opcodes[EX.opline].opcode = "RUN_GENERATOR"
      /\ FitsAt(program, Lost, gen, op) /\ gen.gen /\ gen.ret = NoVar
      /\ a.opcodes[op].opcode = "YIELD" /\ FitsAt(program, Lost, EX, EX.opline)
  BY <1>1 DEF ValuesInv, GeneratorFits, TopFits
<1>5. WellFormed(a) /\ op \in DOMAIN a.opcodes /\ a = OpArray(gen)
  BY <1>1, TopOK, ProgramOK DEF JumpsInv, YieldPlaced, PlacedAt, OpArray
<1>6. op \in Nat
  BY <1>5, OpsOK
<1>7. Grows /\ IsSeq(exception') /\ MisuseLost
  BY <1>1, TopOK, LogAppended DEF Logged
<1> HIDE DEF gen
<1>8. FrameFits(program, Lost, gen, InRange(a, op), FinallyAround(a, op))
  BY <1>4, <1>5, Makes DEF FitsAt
<1>9. /\ last \in Nat
      /\ last # 0 => last \in DOMAIN tc /\ tc[last].try_op <= op /\ op < tc[last].finally_op
  BY <1>5, <1>6, BlockAhead
<1>10. a.opcodes[op].opcode # "FAST_RET"
  BY <1>4
<1>11. /\ left = {b \in FinallyAround(a, op) : b > last}
       /\ AllOf(a, gen, vs, left, dead)
  <2> HIDE DEF op, a, last, vs
  <2> QED
    BY <1>5, <1>6, <1>9, <1>10, GivenUp
<1> HIDE DEF left, given, dead
<1>12. CASE last = 0
  <2>1. vs = InRange(a, op)
    BY <1>5, <1>12, AllRanges
  <2>2. left = FinallyAround(a, op)
    <3>1. \A b \in FinallyAround(a, op) : b > 0
      BY <1>5, BlocksOK DEF FinallyAround
    <3> HIDE DEF last
    <3> QED
      BY <1>11, <1>12, <3>1
  <2> HIDE DEF vs, op
  <2>3. Released(program, Lost, gen, dead, {}, {})
    <3>1. Released(program, Lost, gen, dead, InRange(a, op) \ vs, FinallyAround(a, op) \ left)
      BY <1>5, <1>8, <1>11, <2>1, <2>2, FrameFreed
    <3>2. InRange(a, op) \ vs = {} /\ FinallyAround(a, op) \ left = {}
      BY <2>1, <2>2
    <3> QED
      BY <3>1, <3>2
  <2>4. FreedUndef(gen, dead) = {} /\ FrameFits(program, Lost, f, {}, {})
    BY <2>3 DEF Released
  <2>5. misuse' = misuse \cup Leaked(f) /\ frames' = SetTop(NextOp(EX))
    BY <1>2, <1>12, <2>4
  <2> HIDE DEF f
  <2>6. MisuseLost'
    BY <1>7, <2>4, <2>5, LeavesLost, MisuseStays
  <2>7. FitsAt(program, Lost, EX, EX.opline + 1)
    <3>1. /\ WellFormed(program[EX.fn]) /\ EX.opline \in DOMAIN program[EX.fn].opcodes
      BY TopOK
    <3>2. /\ Gives(program, Lost, EX, program[EX.fn].opcodes[EX.opline].result, "live")
          /\ program[EX.fn].opcodes[EX.opline].result = NoVar
      BY <1>4, <3>1, Given, Makes
    <3> QED
      BY <3>2 DEF Gives, Answered
  <2>8. frames' = SetTop(At(EX, EX.opline + 1)) /\ SameCall(EX, EX)
    BY <2>5 DEF NextOp, SameCall
  <2> QED
    BY <1>1, <1>7, <2>6, <2>7, <2>8, LeadsFits
<1>13. CASE last # 0
  <2>2. last \in DOMAIN tc /\ tc[last].try_op <= op /\ op < tc[last].finally_op
    BY <1>9, <1>13
  <2>3. AllOf(a, gen, LiveVars(gen, op, to), left, dead)
    BY <1>11, <1>13
  <2>4. misuse' = misuse \cup FreedUndef(gen, dead) /\ frames' = Append(frames, g)
    BY <1>2, <1>3, <1>13
  <2> HIDE DEF op, a, last, vs
  <2>5. g = At(Enter(Forced(FreeVars(gen, dead)), v, [obj |-> NoException, ret |-> NoOp]), to)
    OBVIOUS
  <2> HIDE DEF g
  <2>6. /\ FreedUndef(gen, dead) = {}
        /\ FitsAt(program, Lost, g, g.opline) /\ SameCall(gen, g)
    <3>1. to = a.try_catch[last].finally_op /\ op < to /\ v = FastCallOf(a, last)
      BY <2>2
    <3>2. last \in DOMAIN a.try_catch /\ a.try_catch[last].try_op <= op
      BY <2>2
    <3> HIDE DEF to, v, f, tc
    <3> QED
      BY <1>4, <1>5, <1>6, <1>8, <1>10, <1>11, <2>3, <2>5, <3>1, <3>2, DestroyedRuns DEF f
  <2>7. MisuseLost'
    <3>1. misuse' = misuse
      BY <2>4, <2>6
    <3> QED
      BY <1>7, <3>1, MisuseSame
  <2>8. Answers(program, EX, g)
    <3>1. program[EX.fn].opcodes[EX.opline].result = NoVar
      BY <1>4, TopOK, Makes
    <3> QED
      BY <3>1, <1>4, <2>6 DEF Answers, SameCall
  <2> QED
    BY <1>1, <1>4, <1>7, <2>4, <2>6, <2>7, <2>8, PushFits
<1> QED
  BY <1>12, <1>13

(***************************************************************************)
(* The theorems.                                                           *)
(***************************************************************************)

LEMMA InitValues == Init => ValuesInv
<1> SUFFICES ASSUME Init PROVE ValuesInv
  OBVIOUS
<1>1. /\ program \in Programs /\ pc = "run" /\ misuse = {}
      /\ log = NoException /\ exception = NoException
  BY DEF Init, NoException
<1>2. JumpsInv /\ IsSeq(log) /\ IsSeq(exception)
  BY <1>1, InitJumps, NoneIsSeq
<1>3. PICK f : frames = <<f>> /\ FitsAt(program, Lost, f, 1) /\ f.opline = 1
  <2>1. PICK f : f = NewFrame("main", NoVar, FALSE)
    OBVIOUS
  <2>2. frames = <<f>>
    BY <2>1 DEF Init
  <2>3. \A fn \in {"main", "callee"} : \A ret, gen : FitsAt(program, Lost, NewFrame(fn, ret, gen), 1)
    BY <1>1, NewFits
  <2>4. "main" \in {"main", "callee"}
    OBVIOUS
  <2>5. FitsAt(program, Lost, f, 1)
    BY <2>1, <2>3, <2>4, Zenon
  <2>6. f.opline = 1
    BY <2>1 DEF NewFrame
  <2> QED
    BY <2>2, <2>5, <2>6
<1>4. Len(frames) = 1 /\ EX = f
  BY <1>3 DEF EX
<1>5. StackFits
  BY <1>4 DEF StackFits
<1>6. TopFits /\ GeneratorFits
  BY <1>1, <1>3, <1>4 DEF TopFits, GeneratorFits
<1>7. MisuseLost
  BY <1>1 DEF MisuseLost
<1> QED
  BY <1>2, <1>5, <1>6, <1>7 DEF ValuesInv

LEMMA StutterFits == ASSUME ValuesInv, UNCHANGED vars, JumpsInv' PROVE ValuesInv'
<1>1. Lost' = Lost /\ EX' = EX
  BY DEF vars, Lost, LostReturn, EX
<1>2. StackFits'
  BY <1>1 DEF vars, ValuesInv, StackFits
<1>3. TopFits'
  BY <1>1 DEF vars, ValuesInv, TopFits, ThrownFits, WalkFits, BlocksLeft
<1>4. GeneratorFits'
  BY <1>1 DEF vars, ValuesInv, GeneratorFits
<1>5. MisuseLost'
  BY DEF vars, ValuesInv, MisuseLost, LostReturn
<1> QED
  BY <1>2, <1>3, <1>4, <1>5 DEF vars, ValuesInv

LEMMA NextValues == ValuesInv /\ [Next]_vars => ValuesInv'
<1> SUFFICES ASSUME ValuesInv, [Next]_vars PROVE ValuesInv'
  OBVIOUS
<1>1. JumpsInv'
  BY NextJumps DEF ValuesInv
<1>2. CASE Execute
  BY <1>1, <1>2, DoICallFits, FreeFits, JmpFits, CallFits, ReturnFits, CatchFits, FastCallFits,
     FastRetFits, DiscardFits, YieldFits, YieldInClosedFits, ResumeFits, DestroyFits DEF Execute
<1>3. CASE Unwind
  BY <1>1, <1>3, HandleExceptionFits, GoToCatchFits, GoToFinallyFits, PassFits, ChainFits,
     UncaughtFits DEF Unwind
<1>4. CASE UNCHANGED vars
  BY <1>1, <1>4, StutterFits
<1> QED
  BY <1>2, <1>3, <1>4 DEF Next, Done

\* However a function is left - by its RETURN, by an exception that a handler is found for or
\* none, out of a finally block that a RETURN or an exception called, as a generator that is
\* destroyed - no temporary is freed that holds nothing: cleanup_live_vars, the value of the
\* RETURN that is given up and the one that HANDLE_EXCEPTION looks for never free the same
\* value, nor one that is not made yet (zend_vm_def.h:7831-8041).
THEOREM FreedOnlyOnce == Spec => []FreedOnce
<1>1. ValuesInv => FreedOnce
  <2>1. ASSUME ValuesInv, NEW m \in misuse PROVE m[1] = "leaked"
    <3>1. PICK fn, v : m = <<"leaked", fn, v>>
      BY <2>1 DEF ValuesInv, MisuseLost
    <3> QED
      BY <3>1
  <2>2. "leaked" # "freed undef"
    BY Zenon
  <2> QED
    BY <2>1, <2>2, Zenon DEF FreedOnce
<1> QED
  BY InitValues, NextValues, <1>1, PTL DEF Spec

\* And none of its temporaries is left with a value in it, but for the operand of a RETURN
\* that is not right after the FREE whose destructor threw (zend_vm_def.h:7945-7965).
THEOREM NothingLeftBehind == Spec => []NothingLeaks
<1>1. ValuesInv => NothingLeaks
  <2> SUFFICES ASSUME ValuesInv, NEW m \in misuse, m[1] = "leaked" PROVE LostReturn(m[2], m[3])
    BY DEF NothingLeaks
  <2>1. PICK fn, v : m = <<"leaked", fn, v>> /\ LostReturn(fn, v)
    BY DEF ValuesInv, MisuseLost
  <2>2. m[2] = fn /\ m[3] = v
    BY <2>1
  <2> QED
    BY <2>1, <2>2
<1> QED
  BY InitValues, NextValues, <1>1, PTL DEF Spec

(***************************************************************************)
(* Unwinding ends.                                                         *)
(***************************************************************************)

\* An exception is on its way, from HANDLE_EXCEPTION or from a FAST_RET.
Unwinding == pc \in {"handle", "dispatch"}

\* What is ahead of it: the frames, the call of the dispatch helper, the try blocks.
OnItsWay == <<Len(frames), IF pc = "handle" THEN 1 ELSE 0,
              IF pc = "dispatch" THEN walk.offset ELSE 0>>

\* Of two lists of numbers, the first that they differ in decides.
Lower(a, b) == \E n \in DOMAIN b : a[n] < b[n] /\ \A m \in 1 .. n - 1 : a[m] = b[m]

\* The three numbers, before and after a step.
LEMMA WayNumbers ==
  /\ DOMAIN OnItsWay = 1 .. 3
  /\ OnItsWay[1] = Len(frames) /\ OnItsWay[2] = (IF pc = "handle" THEN 1 ELSE 0)
  /\ OnItsWay[3] = (IF pc = "dispatch" THEN walk.offset ELSE 0)
  /\ OnItsWay'[1] = Len(frames') /\ OnItsWay'[2] = (IF pc' = "handle" THEN 1 ELSE 0)
  /\ OnItsWay'[3] = (IF pc' = "dispatch" THEN walk'.offset ELSE 0)
BY DEF OnItsWay

\* One of them falls, and those before it are as they were.
LEMMA WayFalls ==
  ASSUME NEW n \in 1 .. 3, OnItsWay'[n] < OnItsWay[n],
         \A m \in 1 .. n - 1 : OnItsWay'[m] = OnItsWay[m]
  PROVE  Lower(OnItsWay', OnItsWay)
<1>1. DOMAIN OnItsWay = 1 .. 3
  BY WayNumbers
<1> QED
  BY <1>1 DEF Lower

\* A block is passed, or a frame is given up, or the helper begins.
LEMMA UnwindFalls ==
  ASSUME JumpsInv, Unwinding, Unwinding', [Next]_vars, vars' # vars
  PROVE  Lower(OnItsWay', OnItsWay)
<1>0. StackOK /\ WalkOK /\ Len(frames) \in Nat \ {0}
  BY TopFrame DEF JumpsInv, ThrownInv
<1>1. CASE HandleException
  <2>1. \E g : frames' = SetTop(g)
    BY <1>1, Zenon DEF HandleException
  <2>2. Len(frames') = Len(frames)
    BY <1>0, <2>1, TopSeq
  <2>3. pc = "handle" /\ pc' = "dispatch"
    BY <1>1 DEF HandleException
  <2>4. OnItsWay'[2] < OnItsWay[2] /\ OnItsWay'[1] = OnItsWay[1]
    BY <2>2, <2>3, WayNumbers
  <2>5. \A m \in 1 .. 2 - 1 : OnItsWay'[m] = OnItsWay[m]
    BY <2>4
  <2> HIDE DEF OnItsWay
  <2> QED
    BY <2>4, <2>5, WayFalls
<1>2. CASE SkipFinally \/ ChainPrevious \/ PassBlock
  <2>1. Len(frames') = Len(frames)
    <3>1. UNCHANGED frames \/ \E g : frames' = SetTop(g)
      BY <1>2, Zenon DEF SkipFinally, ChainPrevious, PassBlock
    <3> QED
      BY <1>0, <3>1, TopSeq
  <2>2. pc = "dispatch" /\ pc' = "dispatch" /\ walk' = [walk EXCEPT !.offset = @ - 1]
    BY <1>2 DEF SkipFinally, ChainPrevious, PassBlock, InBlocks, Outwards
  <2>3. walk'.offset = walk.offset - 1
    BY <1>0, <2>2 DEF WalkOK
  <2>4. walk.offset \in Nat
    BY <2>2 DEF JumpsInv, WalkPlaced
  <2>5. OnItsWay'[3] < OnItsWay[3] /\ OnItsWay'[1] = OnItsWay[1] /\ OnItsWay'[2] = OnItsWay[2]
    BY <2>1, <2>2, <2>3, <2>4, WayNumbers
  <2>6. \A m \in 1 .. 3 - 1 : OnItsWay'[m] = OnItsWay[m]
    BY <2>5
  <2> QED
    BY <2>5, <2>6, WayFalls
<1>3. CASE Uncaught
  <2>1. Len(frames) # 1 /\ \E g : frames' = Append(SubSeq(frames, 1, Len(frames) - 2), g)
    BY <1>3, Zenon DEF Uncaught, Unwinding
  <2>2. Len(frames') = Len(frames) - 1
    BY <1>0, <2>1, PopSeq
  <2>3. OnItsWay'[1] < OnItsWay[1]
    BY <1>0, <2>2, WayNumbers
  <2>4. \A m \in 1 .. 1 - 1 : OnItsWay'[m] = OnItsWay[m]
    OBVIOUS
  <2> QED
    BY <2>3, <2>4, WayFalls
<1>4. CASE GoToCatch \/ GoToFinally
  BY <1>4 DEF GoToCatch, GoToFinally, JumpTo, Unwinding
<1>5. CASE Execute
  BY <1>5 DEF Execute, Running, Unwinding, DoICall, Free, Jmp, DoUCall, Return, Catch, FastCall, FastRet,
     DiscardException, RunGenerator, Yield, YieldInClosed, GeneratorReturn, Resume, Destroy
<1> QED
  BY <1>1, <1>2, <1>3, <1>4, <1>5 DEF Next, Unwind, Done

\* From the opcode that throws to the catch or finally block that takes the exception, or
\* to the end of the program, every step of the unwinding leaves fewer frames, or as many
\* and fewer blocks to look at: it cannot go round, whatever the finally blocks throw and
\* the callers do (zend_vm_def.h:7864-8041).
THEOREM UnwindingEnds ==
  Spec => /\ [](OnItsWay \in [1 .. 3 -> Nat])
          /\ [][Unwinding /\ Unwinding' => Lower(OnItsWay', OnItsWay)]_vars
<1>1. JumpsInv => OnItsWay \in [1 .. 3 -> Nat]
  <2> SUFFICES ASSUME JumpsInv PROVE OnItsWay \in [1 .. 3 -> Nat]
    OBVIOUS
  <2>1. Len(frames) \in Nat
    BY TopFrame DEF JumpsInv, ThrownInv
  <2>2. pc = "dispatch" => walk.offset \in Nat
    BY DEF JumpsInv, WalkPlaced
  <2> QED
    BY <2>1, <2>2 DEF OnItsWay
<1>2. JumpsInv /\ [Next]_vars => [Unwinding /\ Unwinding' => Lower(OnItsWay', OnItsWay)]_vars
  BY UnwindFalls
<1> QED
  BY InitJumps, NextJumps, <1>1, <1>2, PTL DEF Spec
================================================================================
