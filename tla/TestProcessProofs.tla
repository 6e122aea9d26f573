--------------------------- MODULE TestProcessProofs ---------------------------
(***************************************************************************)
(* A call of system_with_timeout loses no output, and leaves its program   *)
(* running only when it timed out, whatever the call, the size of the      *)
(* pipes, the command and the signals.  Every step leaves less to do, and  *)
(* under the conditions of the timeout the call is never stuck.            *)
(***************************************************************************)
EXTENDS TestProcess, TLAPS

(* Every step of the parent, the command and the kernel keeps the types.   *)
LEMMA TypeStep == TypeOK /\ [Next]_vars => TypeOK'
<1> SUFFICES ASSUME TypeOK, [Next]_vars PROVE TypeOK'
  OBVIOUS
<1> USE CallsAssumption, SizesAssumption DEF TypeOK, Pcs, Fate, Stream, Process
<1>1. CASE OpenFails
  BY <1>1 DEF OpenFails, processVars
<1>2. CASE Open
  BY <1>2 DEF Open, Call
<1>3. CASE Feed
  <2>1. unwritten \in Int /\ call.input \in Int
    BY DEF Call
  <2>2. unwritten' \in 0 .. call.input /\ pipe' \in [Stream -> 0 .. PipeSize]
    BY <1>3, <2>1 DEF Feed
  <2> QED
    BY <1>3, <2>2 DEF Feed, processVars
<1>5. CASE TimeOut
  BY <1>5 DEF TimeOut, processVars
<1>51. CASE CloseInput
  BY <1>51 DEF CloseInput, processVars
<1>52. CASE Select
  BY <1>52 DEF Select, processVars
<1>53. CASE ReadEof
  BY <1>53 DEF ReadEof, processVars
<1>54. CASE Close
  BY <1>54 DEF Close, processVars
<1>55. CASE SelectFails
  BY <1>55 DEF SelectFails, processVars
<1>6. CASE Read
  BY <1>6 DEF Read, main, processVars
<1>7. CASE GetStatus
  BY <1>7 DEF GetStatus, Reported, processVars
<1>8. CASE Wait
  BY <1>8 DEF Wait, processVars
<1>9. ASSUME NEW p \in Programs, NEW s \in Stream, WriteOutput(p, s) PROVE TypeOK'
  BY <1>9 DEF WriteOutput, parentVars, processVars
<1>10. ASSUME NEW p \in Programs, ReadInput(p) PROVE TypeOK'
  BY <1>10 DEF ReadInput, parentVars, processVars
<1>11. ASSUME NEW p \in Programs, NEW s \in Stream, LetGo(p, s) PROVE TypeOK'
  BY <1>11 DEF LetGo, parentVars, Programs
<1>12. CASE StartBackground
  BY <1>12 DEF StartBackground, parentVars
<1>13. ASSUME NEW p \in Process, NEW f \in Fate, Ends(p, f) PROVE TypeOK'
  BY <1>13 DEF Ends, parentVars
<1>14. ASSUME NEW p \in Process, Dies(p) PROVE TypeOK'
  BY <1>14 DEF Dies, parentVars
<1>15. CASE UNCHANGED vars
  BY <1>15 DEF vars, parentVars, processVars
<1>16. CASE ShellEnds
  BY <1>16 DEF ShellEnds, Ends, parentVars
<1>17. ASSUME NEW p \in Process, Exit(p) \/ Crash(p) \/ Killed(p) PROVE TypeOK'
  <2>1. ASSUME NEW n \in Statuses, Ends(p, [signal |-> 0, status |-> n]) PROVE TypeOK'
    <3>1. [signal |-> 0, status |-> n] \in Fate
      OBVIOUS
    <3> QED
      BY <1>13, <2>1, <3>1
  <2>2. ASSUME NEW n \in Signals \cup {9}, Ends(p, [signal |-> n, status |-> 0]) PROVE TypeOK'
    <3>1. [signal |-> n, status |-> 0] \in Fate
      OBVIOUS
    <3> QED
      BY <1>13, <2>2, <3>1
  <2> QED
    BY <1>17, <2>1, <2>2 DEF Exit, Crash, Killed
<1> HIDE DEF TypeOK, Pcs, Fate
<1>18. CASE Parent \/ SelectFails
  BY <1>1, <1>2, <1>3, <1>5, <1>51, <1>52, <1>53, <1>54, <1>55, <1>6, <1>7, <1>8, <1>18
  DEF Parent
<1>19. CASE Command
  BY <1>9, <1>10, <1>11, <1>12, <1>17, <1>19 DEF Command, Programs
<1>20. CASE \E p \in Process : Kernel(p)
  BY <1>14, <1>17, <1>20 DEF Kernel
<1> QED
  BY <1>15, <1>16, <1>18, <1>19, <1>20 DEF Next, Over

(* The call starts with nothing written and no process running.            *)
LEMMA InvInit == Init => CommandInv
<1> SUFFICES ASSUME Init PROVE CommandInv
  OBVIOUS
<1> USE CallsAssumption, SizesAssumption DEF Init, Stream, Process
<1>1. call.input \in Nat
  BY DEF Call
<1>2. TypeOK
  <2>1. Unended \in Fate
    BY DEF Unended, Fate
  <2>2. fate \in [Process -> Fate]
    BY <2>1
  <2>3. unwritten \in 0 .. call.input
    BY <1>1
  <2>4. pipe \in [Stream -> 0 .. PipeSize] /\ written \in [Stream -> Nat]
    OBVIOUS
  <2> QED
    BY <2>2, <2>3, <2>4 DEF TypeOK, Pcs
<1>3. Flow /\ AfterEof
  BY DEF Flow, AfterEof, main
<1>4. Outlives
  BY DEF Outlives
<1> QED
  BY <1>2, <1>3, <1>4 DEF CommandInv

(* What is read is what was written: only Read takes from the pipe that is *)
(* read, and gives it to $data.                                            *)
LEMMA FlowStep == CommandInv /\ [Next]_vars => Flow'
<1> SUFFICES ASSUME CommandInv, [Next]_vars PROVE Flow'
  OBVIOUS
<1> USE DEF CommandInv, TypeOK, Flow
<1>0. main \in {"out", "err"} /\ main \in Stream
  BY DEF main, Stream
<1>1. call' = call
  BY DEF Next, vars, Parent, OpenFails, Open, Feed, CloseInput, Select, SelectFails, TimeOut,
     Read, ReadEof, GetStatus, Close, Wait, Command, WriteOutput, LetGo, ReadInput, Exit, Crash,
     StartBackground, ShellEnds, Kernel, Dies, Killed, Ends, Over
<1>2. main' = main
  BY <1>1 DEF main
<1>3. CASE Read
  BY <1>0, <1>2, <1>3 DEF Read
<1>4. ASSUME NEW p \in Programs, NEW s \in Stream, WriteOutput(p, s) PROVE Flow'
  BY <1>0, <1>2, <1>4 DEF WriteOutput, parentVars
<1>5. CASE Feed
  BY <1>0, <1>2, <1>5 DEF Feed
<1>6. ASSUME NEW p \in Programs, ReadInput(p) PROVE Flow'
  BY <1>0, <1>2, <1>6 DEF ReadInput, parentVars
<1>7. CASE UNCHANGED <<data, pipe, written>>
  BY <1>2, <1>7
<1>8. \/ Read \/ Feed \/ UNCHANGED <<data, pipe, written>>
      \/ \E p \in Programs : ReadInput(p) \/ \E s \in Stream : WriteOutput(p, s)
  BY DEF Next, vars, parentVars, Parent, OpenFails, Open, CloseInput, Select, SelectFails,
     TimeOut, ReadEof, GetStatus, Close, Wait, Command, LetGo, Exit, Crash,
     StartBackground, ShellEnds, Kernel, Dies, Killed, Ends, Over
<1> QED
  BY <1>3, <1>4, <1>5, <1>6, <1>7, <1>8

(* After the end of file nobody can write to the pipe that is read: a new  *)
(* process inherits only pipes that are held.                              *)
LEMMA AfterEofStep == CommandInv /\ [Next]_vars => AfterEof'
<1> SUFFICES ASSUME CommandInv, [Next]_vars PROVE AfterEof'
  OBVIOUS
<1> USE DEF CommandInv, TypeOK, AfterEof, Abandoned
<1>0. main \in {"out", "err"} /\ main \in Stream
  BY DEF main, Stream
<1>1. call' = call
  BY DEF Next, vars, Parent, OpenFails, Open, Feed, CloseInput, Select, SelectFails, TimeOut,
     Read, ReadEof, GetStatus, Close, Wait, Command, WriteOutput, LetGo, ReadInput, Exit, Crash,
     StartBackground, ShellEnds, Kernel, Dies, Killed, Ends, Over
<1>2. main' = main
  BY <1>1 DEF main
<1>3. CASE OpenFails \/ Open \/ Feed \/ CloseInput \/ Select \/ TimeOut \/ Read
  <2>1. pc' \notin {"status", "close", "wait"}
    BY <1>3 DEF OpenFails, Open, Feed, CloseInput, Select, TimeOut, Read
  <2>2. pc # "returned" /\ result' # "ended"
    BY <1>3 DEF OpenFails, Open, Feed, CloseInput, Select, TimeOut, Read, Outlives
  <2> QED
    BY <2>1, <2>2
<1>4. CASE SelectFails
  BY <1>4 DEF SelectFails
<1>5. CASE ReadEof
  BY <1>0, <1>2, <1>5 DEF ReadEof, processVars
<1>6. CASE GetStatus
  BY <1>0, <1>2, <1>6 DEF GetStatus, processVars
<1>7. CASE Close
  BY <1>0, <1>2, <1>7 DEF Close, processVars
<1>8. CASE Wait
  BY <1>0, <1>2, <1>8 DEF Wait, processVars
<1>9. ASSUME NEW p \in Programs, NEW s \in Stream, WriteOutput(p, s) PROVE AfterEof'
  BY <1>0, <1>2, <1>9 DEF WriteOutput, parentVars, processVars, Programs, Process
<1>10. ASSUME NEW p \in Programs, ReadInput(p) PROVE AfterEof'
  BY <1>0, <1>2, <1>10 DEF ReadInput, parentVars, processVars
<1>11. ASSUME NEW p \in Programs, NEW s \in Stream, LetGo(p, s) PROVE AfterEof'
  BY <1>0, <1>2, <1>11 DEF LetGo, parentVars, Programs, Process
<1>12. CASE StartBackground
  BY <1>0, <1>2, <1>12 DEF StartBackground, parentVars, Process
<1>13. ASSUME NEW p \in Process, NEW f, Ends(p, f) PROVE AfterEof'
  BY <1>0, <1>2, <1>13 DEF Ends, parentVars
<1>14. ASSUME NEW p \in Process, Dies(p) PROVE AfterEof'
  BY <1>0, <1>2, <1>14 DEF Dies, parentVars
<1>15. CASE UNCHANGED vars
  BY <1>2, <1>15 DEF vars, parentVars, processVars
<1>16. CASE Parent
  BY <1>3, <1>5, <1>6, <1>7, <1>8, <1>16 DEF Parent
<1>17. CASE Command
  BY <1>9, <1>10, <1>11, <1>12, <1>13, <1>17 DEF Command, Exit, Crash, Programs, Process
<1>18. CASE ShellEnds \/ \E p \in Process : Kernel(p)
  BY <1>13, <1>14, <1>18 DEF ShellEnds, Kernel, Killed, Process
<1> QED
  BY <1>4, <1>15, <1>16, <1>17, <1>18 DEF Next, Over

(* The shell ends after its program or by the timeout; proc_close waits.   *)
LEMMA OutlivesStep == CommandInv /\ [Next]_vars => Outlives'
<1> SUFFICES ASSUME CommandInv, [Next]_vars PROVE Outlives'
  OBVIOUS
<1> USE DEF CommandInv, TypeOK, Outlives, Process
<1>1. CASE OpenFails
  BY <1>1 DEF OpenFails, processVars
<1>2. CASE Open
  BY <1>2 DEF Open
<1>3. CASE Feed
  BY <1>3 DEF Feed, processVars
<1>4. CASE CloseInput
  BY <1>4 DEF CloseInput, processVars
<1>5. CASE Select
  BY <1>5 DEF Select, processVars
<1>6. CASE SelectFails
  BY <1>6 DEF SelectFails, processVars
<1>7. CASE TimeOut
  BY <1>7 DEF TimeOut, processVars
<1>8. CASE Read
  BY <1>8 DEF Read, processVars
<1>9. CASE ReadEof
  BY <1>9 DEF ReadEof, processVars
<1>10. CASE GetStatus
  BY <1>10 DEF GetStatus, processVars
<1>11. CASE Close
  BY <1>11 DEF Close, processVars
<1>12. CASE Wait
  BY <1>12 DEF Wait, processVars
<1>13. CASE UNCHANGED <<pc, result, killed, child, state>>
  BY <1>13
<1>14. CASE StartBackground
  BY <1>14 DEF StartBackground, parentVars
<1>15. ASSUME NEW p \in Programs, NEW f, Ends(p, f) PROVE Outlives'
  BY <1>15 DEF Ends, parentVars, Programs
<1>16. CASE ShellEnds
  BY <1>16 DEF ShellEnds, Ends, parentVars
<1>17. ASSUME NEW p \in Process, Killed(p) PROVE Outlives'
  BY <1>17 DEF Killed, Ends, parentVars
<1>18. ASSUME NEW p \in Process, Dies(p) PROVE Outlives'
  BY <1>18 DEF Dies, parentVars
<1>19. CASE Parent
  BY <1>1, <1>2, <1>3, <1>4, <1>5, <1>7, <1>8, <1>9, <1>10, <1>11, <1>12, <1>19 DEF Parent
<1>20. CASE Command
  <2>1. ASSUME NEW p \in Programs, NEW s \in Stream, WriteOutput(p, s) \/ LetGo(p, s)
        PROVE  Outlives'
    BY <1>13, <2>1 DEF WriteOutput, LetGo, parentVars, processVars
  <2>2. ASSUME NEW p \in Programs, ReadInput(p) PROVE Outlives'
    BY <1>13, <2>2 DEF ReadInput, parentVars, processVars
  <2> QED
    BY <1>14, <1>15, <1>20, <2>1, <2>2 DEF Command, Exit, Crash
<1>21. CASE UNCHANGED vars
  BY <1>13, <1>21 DEF vars, parentVars, processVars
<1> QED
  BY <1>6, <1>16, <1>17, <1>18, <1>19, <1>20, <1>21 DEF Next, Over, Kernel

(* Every step keeps the invariant, so it holds throughout the call.        *)
THEOREM CommandInductive == Spec => []CommandInv
<1>1. CommandInv /\ [Next]_vars => CommandInv'
  BY TypeStep, FlowStep, AfterEofStep, OutlivesStep DEF CommandInv
<1> QED
  BY InvInit, <1>1, PTL DEF Spec

(* A call that ended at the end of file has collected all output of the    *)
(* command and of what it left behind, however the writes, reads and exits *)
(* interleave.                                                             *)
THEOREM OutputComplete == Spec => []NoOutputLost
<1>1. CommandInv => NoOutputLost
  <2> SUFFICES ASSUME CommandInv, result = "ended", ~interrupted PROVE data = written[main]
    BY DEF NoOutputLost
  <2>1. main \in Stream
    BY DEF main, Stream
  <2>2. data + pipe[main] = written[main] /\ pipe[main] = 0
    BY DEF CommandInv, Flow, AfterEof
  <2>3. data \in Nat
    BY DEF CommandInv, TypeOK
  <2> QED
    BY <2>2, <2>3
<1> QED
  BY CommandInductive, <1>1, PTL

(* A program that still runs when the call returns was given up by the     *)
(* timeout.                                                                *)
THEOREM SurvivorTimedOut == Spec => []SurvivesOnlyTimeout
<1>1. CommandInv => SurvivesOnlyTimeout
  <2> SUFFICES ASSUME CommandInv, pc = "returned", state["program"] \in {"running", "ending"},
                      result # "timeout"
               PROVE  FALSE
    BY DEF SurvivesOnlyTimeout
  <2>1. result = "ended"
    BY DEF CommandInv, TypeOK, Outlives, Process
  <2>2. state[child] = "dead" /\ killed = {}
    BY <2>1 DEF CommandInv, Outlives
  <2> QED
    BY <2>2 DEF CommandInv, TypeOK, Outlives, Process
<1> QED
  BY CommandInductive, <1>1, PTL

-------------------------------------------------------------------------------
(* The status that is looked up.                                           *)

(* What the shell that was not killed ends with.                           *)
OfProgram(f) == [signal |-> 0,
                 status |-> IF f.signal > 0 THEN 128 + f.signal ELSE f.status]

(* A process that has not ended has no fate; a program has a signal or one *)
(* of the statuses; the shell, unless it was killed, has its program's;    *)
(* and a Termsig is told only of a program that has ended.                 *)
Fates ==
  /\ \A p \in Process : state[p] \in {"none", "running"} => fate[p] = Unended
  /\ \A p \in Programs : fate[p].status = 0 \/ (fate[p].signal = 0 /\ fate[p].status \in Statuses)
  /\ killed = {} /\ state["shell"] \in {"ending", "dead"} =>
       state["program"] = "dead" /\ fate["shell"] = OfProgram(fate["program"])
  /\ termsig # -1 => state["program"] = "dead"
  /\ child = "program" => state["shell"] = "none"
  /\ pc = "open" => termsig = -1
  /\ pc \in {"open", "feed", "select", "read", "status"} /\ result # "timeout" => termsig = -1

StatusInv == Fates /\ TermsigOfProgram

(* Looking up the status tells the truth, of the program and of the shell. *)
LEMMA GetStatusStep ==
  ASSUME CommandInv, StatusInv, GetStatus
  PROVE  StatusInv'
<1> USE SizesAssumption DEF CommandInv, TypeOK, StatusInv, Fates, Process, Programs
<1>1. /\ UNCHANGED <<killed, state, fate, child, result>> /\ pc = "status" /\ pc' = "close"
      /\ termsig' = IF state[child] = "dead" THEN Reported(fate[child]) ELSE -1
  BY DEF GetStatus, processVars
<1>2. killed = {}
  BY <1>1 DEF Outlives
<1>3. fate["program"] \in Fate
  OBVIOUS
<1>4. CASE state[child] = "dead" /\ child = "program"
  <2>1. termsig' = Reported(fate["program"]) /\ child' = "program"
    BY <1>1, <1>4
  <2> QED
    BY <1>1, <1>3, <1>4, <2>1 DEF TermsigOfProgram, Reported, Fate
<1>5. CASE state[child] = "dead" /\ child = "shell"
  <2>1. state["program"] = "dead" /\ fate["shell"] = OfProgram(fate["program"])
    BY <1>2, <1>5
  <2>2. termsig' = Reported(OfProgram(fate["program"])) /\ child' = "shell"
    BY <1>1, <1>5, <2>1
  <2> QED
    BY <1>1, <1>3, <2>1, <2>2 DEF TermsigOfProgram, Reported, OfProgram, Fate
<1>6. CASE state[child] # "dead"
  BY <1>1, <1>6 DEF TermsigOfProgram
<1> QED
  BY <1>4, <1>5, <1>6

(* A process that ends gets its fate once.                                 *)
LEMMA EndsFate ==
  ASSUME CommandInv, StatusInv, NEW p \in Process, NEW f \in Fate, Ends(p, f),
         p \in Programs => f.status = 0 \/ (f.signal = 0 /\ f.status \in Statuses),
         p = "shell" => \/ killed # {}
                        \/ state["program"] = "dead" /\ f = OfProgram(fate["program"])
  PROVE  StatusInv'
<1> USE DEF CommandInv, TypeOK, StatusInv, Fates, Process, Programs
<1>1. /\ UNCHANGED <<pc, result, termsig, killed, child>> /\ state[p] = "running"
      /\ state' = [state EXCEPT ![p] = "ending"] /\ fate' = [fate EXCEPT ![p] = f]
  BY DEF Ends, parentVars
<1>2. p = "program" => termsig = -1
  BY <1>1
<1>3. p # "program" => fate'["program"] = fate["program"] /\ state'["program"] = state["program"]
  BY <1>1
<1>4. TermsigOfProgram'
  BY <1>1, <1>2, <1>3 DEF TermsigOfProgram
<1>5. Fates'
  BY <1>1, <1>2, <1>3 DEF Fates
<1> QED
  BY <1>4, <1>5

(* Every other step leaves the fates and what is told of them alone.       *)
LEMMA StatusStep ==
  ASSUME CommandInv, StatusInv, [Next]_vars
  PROVE  StatusInv'
<1> USE SizesAssumption DEF CommandInv, TypeOK, Process, Programs
<1>1. CASE GetStatus
  BY <1>1, GetStatusStep
<1>2. CASE Open
  BY <1>2 DEF Open, StatusInv, Fates, TermsigOfProgram, Outlives
<1>3. CASE OpenFails \/ Feed \/ CloseInput \/ Select \/ SelectFails \/ Read \/ ReadEof \/ Close \/ Wait
  BY <1>3 DEF OpenFails, Feed, CloseInput, Select, SelectFails, Read, ReadEof, Close, Wait,
     processVars, StatusInv, Fates, TermsigOfProgram
<1>4. CASE TimeOut
  BY <1>4 DEF TimeOut, processVars, StatusInv, Fates, TermsigOfProgram, Outlives
<1>5. ASSUME NEW p \in Programs, Exit(p) \/ Crash(p)
      PROVE  StatusInv'
  <2>1. CASE Exit(p)
    <3>1. PICK n \in Statuses : Ends(p, [signal |-> 0, status |-> n])
      BY <2>1 DEF Exit
    <3> QED
      BY <3>1, EndsFate DEF Fate
  <2>2. CASE Crash(p)
    <3>1. PICK n \in Signals : Ends(p, [signal |-> n, status |-> 0])
      BY <2>2 DEF Crash
    <3> QED
      BY <3>1, EndsFate DEF Fate
  <2> QED
    BY <1>5, <2>1, <2>2
<1>6. ASSUME NEW p \in Process, Killed(p) PROVE StatusInv'
  BY <1>6, EndsFate DEF Killed, Fate
<1>7. CASE ShellEnds
  <2>1. /\ state["program"] = "dead" /\ Ends("shell", OfProgram(fate["program"]))
        /\ fate["program"] \in Fate
    BY <1>7 DEF ShellEnds, OfProgram
  <2>2. OfProgram(fate["program"]) \in Fate
    BY <2>1 DEF OfProgram, Fate
  <2> QED
    BY <2>1, <2>2, EndsFate
<1>8. ASSUME NEW p \in Process, Dies(p) PROVE StatusInv'
  BY <1>8 DEF Dies, parentVars, StatusInv, Fates, TermsigOfProgram
<1>9. CASE StartBackground
  BY <1>9 DEF StartBackground, parentVars, StatusInv, Fates, TermsigOfProgram
<1>10. CASE UNCHANGED <<pc, result, termsig, killed, child, state, fate>>
  BY <1>10 DEF StatusInv, Fates, TermsigOfProgram
<1>11. \/ UNCHANGED <<pc, result, termsig, killed, child, state, fate>>
       \/ Parent \/ SelectFails \/ StartBackground \/ ShellEnds
       \/ \E p \in Programs : Exit(p) \/ Crash(p)
       \/ \E p \in Process : Dies(p) \/ Killed(p)
  BY DEF Next, vars, parentVars, processVars, Command, WriteOutput, LetGo, ReadInput, Kernel,
     Over
<1> QED
  BY <1>1, <1>2, <1>3, <1>4, <1>5, <1>6, <1>7, <1>8, <1>9, <1>10, <1>11 DEF Parent

(* Whatever statuses programs exit with: a Termsig is the signal that      *)
(* ended the program, where the shell waited for it, 0 where the program   *)
(* took its place, or the n of a program that exited with 128 + n itself.  *)
THEOREM TermsigTold == Spec => []TermsigOfProgram
<1>1. Init => StatusInv
  BY DEF Init, StatusInv, Fates, TermsigOfProgram, Process, Programs, Unended
<1>2. CommandInv /\ StatusInv /\ [Next]_vars => StatusInv'
  BY StatusStep
<1>3. StatusInv => TermsigOfProgram
  BY DEF StatusInv
<1> QED
  BY <1>1, <1>2, <1>3, CommandInductive, PTL DEF Spec

-------------------------------------------------------------------------------
(***************************************************************************)
(* A call ends.  Every step uses up some of what is left to do, and while  *)
(* system_with_timeout has not returned it has a step to take, or waits    *)
(* for a process that is ending.                                           *)
(***************************************************************************)

(* The stages of the call still ahead; Read goes back one stage, for the   *)
(* units it takes.                                                         *)
Ahead == [open |-> 7, feed |-> 6, select |-> 5, read |-> 4, status |-> 3, close |-> 2,
          wait |-> 1, returned |-> 0]

(* What a process can still do but for reading and writing: start, let go  *)
(* of each stream, end, die.                                               *)
One(b) == IF b THEN 1 ELSE 0
HeldBy(p) == One("in" \in holds[p]) + One("out" \in holds[p]) + One("err" \in holds[p])
LifeOf(p) == IF state[p] = "none" THEN 6
             ELSE IF state[p] = "running" THEN 2 + HeldBy(p)
             ELSE One(state[p] = "ending")

(* Input is written and read; output may be written, then read.            *)
Traffic == 2 * unwritten + pipe["in"]
           + 3 * (MaxOutput - written["out"]) + 2 * pipe["out"]
           + 3 * (MaxOutput - written["err"]) + 2 * pipe["err"]

Lives == LifeOf("shell") + LifeOf("program") + LifeOf("background")

Left == Ahead[pc] + Traffic + Lives

(* No stream carries more than a run is given to write.                    *)
Bounded == \A s \in Stream : written[s] <= MaxOutput

(* WriteOutput alone writes, below the bound.                              *)
LEMMA BoundedStep == TypeOK /\ Bounded /\ [Next]_vars => Bounded'
<1> SUFFICES ASSUME TypeOK, Bounded, [Next]_vars PROVE Bounded'
  OBVIOUS
<1>1. ASSUME NEW p \in Programs, NEW s \in Stream, WriteOutput(p, s) PROVE Bounded'
  BY <1>1, SizesAssumption DEF WriteOutput, TypeOK, Bounded
<1>2. CASE UNCHANGED written
  BY <1>2 DEF Bounded
<1>3. \/ UNCHANGED written
      \/ \E p \in Programs : \E s \in Stream : WriteOutput(p, s)
  BY DEF Next, vars, parentVars, processVars, Parent, OpenFails, Open, Feed, CloseInput, Select,
     SelectFails, TimeOut, Read, ReadEof, GetStatus, Close, Wait, Command, LetGo, ReadInput,
     Exit, Crash, StartBackground, ShellEnds, Kernel, Dies, Killed, Ends, Over
<1> QED
  BY <1>1, <1>2, <1>3

(* What is left is counted by natural numbers.                             *)
LEMMA LeftTypes ==
  TypeOK /\ Bounded => /\ Ahead[pc] \in 0 .. 7 /\ Traffic \in Nat
                       /\ \A p \in Process : LifeOf(p) \in 0 .. 6 /\ HeldBy(p) \in 0 .. 3
                       /\ Lives \in Nat /\ Left \in Nat
<1> SUFFICES ASSUME TypeOK, Bounded
             PROVE  /\ Ahead[pc] \in 0 .. 7 /\ Traffic \in Nat
                    /\ \A p \in Process : LifeOf(p) \in 0 .. 6 /\ HeldBy(p) \in 0 .. 3
                    /\ Lives \in Nat /\ Left \in Nat
  OBVIOUS
<1>1. Ahead[pc] \in 0 .. 7
  BY DEF TypeOK, Pcs, Ahead
<1>2. call.input \in Nat
  BY CallsAssumption DEF TypeOK, Call
<1>3. /\ unwritten \in Nat /\ \A s \in Stream : pipe[s] \in Nat /\ written[s] \in Nat
  BY <1>2, SizesAssumption DEF TypeOK
<1>4. Traffic \in Nat
  BY <1>3, SizesAssumption DEF Traffic, Bounded, Stream
<1>5. \A p \in Process : HeldBy(p) \in 0 .. 3
  BY DEF HeldBy, One
<1>6. \A p \in Process : LifeOf(p) \in 0 .. 6
  BY <1>5 DEF LifeOf, One
<1>7. Lives \in Nat
  BY <1>6 DEF Lives, Process
<1>8. Left \in Nat
  BY <1>1, <1>4, <1>7 DEF Left
<1> QED
  BY <1>1, <1>4, <1>5, <1>6, <1>7, <1>8

(* A step that changes the place of the call alone.                        *)
LEMMA PlaceStep ==
  ASSUME TypeOK, Bounded, UNCHANGED <<unwritten, pipe, written, state, holds>>,
         pc' \in Pcs, Ahead[pc'] < Ahead[pc]
  PROVE  Left' < Left
<1>1. Traffic' = Traffic /\ Lives' = Lives
  BY DEF Traffic, Lives, LifeOf, HeldBy
<1>2. Ahead[pc'] \in 0 .. 7
  BY DEF Pcs, Ahead
<1> QED
  BY <1>1, <1>2, LeftTypes DEF Left

(* A step that lets units through alone.                                   *)
LEMMA TrafficStep ==
  ASSUME TypeOK, Bounded, UNCHANGED <<state, holds>>, pc' \in Pcs, Traffic' \in Nat,
         Ahead[pc'] + Traffic' < Ahead[pc] + Traffic
  PROVE  Left' < Left
<1>1. Lives' = Lives
  BY DEF Lives, LifeOf, HeldBy
<1>2. Ahead[pc'] \in 0 .. 7
  BY DEF Pcs, Ahead
<1> QED
  BY <1>1, <1>2, LeftTypes DEF Left

(* A step of one process that is not about its input or output.            *)
LEMMA LifeStep ==
  ASSUME TypeOK, Bounded, UNCHANGED <<pc, unwritten, pipe, written>>, NEW p \in Process,
         \A q \in Process \ {p} : state'[q] = state[q] /\ holds'[q] = holds[q],
         LifeOf(p)' \in Nat, LifeOf(p)' < LifeOf(p)
  PROVE  Left' < Left
<1>1. Traffic' = Traffic /\ Ahead[pc]' = Ahead[pc]
  BY DEF Traffic
<1>2. \A q \in Process \ {p} : LifeOf(q)' = LifeOf(q)
  BY DEF LifeOf, HeldBy
<1>3. /\ \A q \in Process : LifeOf(q) \in Nat
      /\ Ahead[pc] \in Nat /\ Traffic \in Nat /\ Lives \in Nat
  BY LeftTypes
<1>4. Lives' < Lives
  BY <1>2, <1>3 DEF Lives, Process
<1>5. Lives' \in Nat
  BY <1>2, <1>3 DEF Lives, Process
<1> QED
  BY <1>1, <1>3, <1>4, <1>5 DEF Left

(* Each step counts down one of the three sums, and Read more than it adds. *)
LEMMA LeftStep == CommandInv /\ Bounded /\ Next => Left' < Left \/ UNCHANGED vars
<1> SUFFICES ASSUME CommandInv, TypeOK, Bounded, Next PROVE Left' < Left \/ UNCHANGED vars
  BY DEF CommandInv
<1>0. /\ TypeOK' /\ Bounded'
  BY TypeStep, BoundedStep
<1>a. Traffic' \in Nat /\ pc' \in Pcs /\ \A p \in Process : LifeOf(p)' \in 0 .. 6
  <2>1. (TypeOK /\ Bounded => /\ Ahead[pc] \in 0 .. 7 /\ Traffic \in Nat
                              /\ \A p \in Process : LifeOf(p) \in 0 .. 6 /\ HeldBy(p) \in 0 .. 3)'
    BY LeftTypes, PTL
  <2> QED
    BY <1>0, <2>1 DEF TypeOK
<1>b. Traffic \in Nat /\ call.input \in Nat
  BY LeftTypes, CallsAssumption DEF TypeOK, Call
<1>1. CASE OpenFails \/ CloseInput \/ Select \/ SelectFails \/ TimeOut \/ ReadEof \/ GetStatus
           \/ Close \/ Wait
  <2>1. UNCHANGED <<unwritten, pipe, written, state, holds>> /\ Ahead[pc'] < Ahead[pc]
    BY <1>1 DEF OpenFails, CloseInput, Select, SelectFails, TimeOut, ReadEof, GetStatus, Close,
       Wait, processVars, Ahead
  <2> QED
    BY <1>a, <2>1, PlaceStep
<1>2. CASE Open
  <2>1. /\ UNCHANGED <<unwritten, pipe, written>>
        /\ pc = "open" /\ pc' \in {"feed", "select"}
        /\ state'["program"] = "running" /\ state'["background"] = state["background"]
        /\ state'["shell"] \in {"running", "none"}
    BY <1>2 DEF Open, TypeOK, Process
  <2>2. \A p \in Process : state[p] = "none"
    BY <2>1 DEF CommandInv, Outlives
  <2>3. \A p \in Process : LifeOf(p) = 6 /\ LifeOf(p)' \in 0 .. 6
    BY <1>a, <2>2 DEF LifeOf
  <2>4. Traffic' = Traffic /\ Ahead[pc] = 7 /\ Ahead[pc'] \in 5 .. 6
    BY <2>1 DEF Traffic, Ahead
  <2>5. Lives = 18 /\ Lives' \in 0 .. 18
    BY <2>3 DEF Lives, Process
  <2>6. Ahead[pc'] + Traffic' + Lives' < Ahead[pc] + Traffic + Lives
    <3> HIDE DEF Ahead, Traffic, Lives
    <3> QED
      BY <1>b, <2>4, <2>5
  <2> QED
    BY <2>6 DEF Left
<1>3. CASE Feed
  <2>1. Traffic' < Traffic /\ UNCHANGED <<pc, state, holds>>
    BY <1>3, <1>b, SizesAssumption DEF Feed, processVars, Traffic, TypeOK, Stream
  <2> QED
    BY <1>a, <1>b, <2>1, TrafficStep, LeftTypes
<1>4. CASE Read
  <2>1. main \in {"out", "err"}
    BY DEF main
  <2>2. Traffic' + 2 <= Traffic /\ UNCHANGED <<state, holds>> /\ pc = "read" /\ pc' = "select"
    BY <1>4, <1>b, <2>1, SizesAssumption DEF Read, processVars, Traffic, TypeOK, Stream
  <2>3. Ahead[pc'] = 5 /\ Ahead[pc] = 4
    BY <2>2 DEF Ahead
  <2>4. Lives' = Lives /\ Lives \in Nat /\ Traffic' \in Nat /\ Traffic \in Nat
    BY <1>a, <1>b, <2>2, LeftTypes DEF Lives, LifeOf, HeldBy
  <2>5. Left' = 5 + Traffic' + Lives
    BY <2>3, <2>4 DEF Left
  <2>6. Left = 4 + Traffic + Lives
    BY <2>3, <2>4 DEF Left
  <2>7. PICK t \in Nat : t = Traffic
    BY <2>4
  <2>8. PICK u \in Nat : u = Traffic'
    BY <2>4
  <2>9. PICK l \in Nat : l = Lives
    BY <2>4
  <2>10. u + 2 <= t
    BY <2>2, <2>7, <2>8
  <2>11. 5 + u + l < 4 + t + l
    BY <2>10
  <2> QED
    BY <2>5, <2>6, <2>7, <2>8, <2>9, <2>11
<1>5. ASSUME NEW p \in Programs, NEW s \in Stream, WriteOutput(p, s) PROVE Left' < Left
  <2>1. Traffic' < Traffic /\ UNCHANGED <<pc, state, holds>>
    BY <1>5, <1>b, SizesAssumption DEF WriteOutput, parentVars, processVars, Traffic, TypeOK, Stream
  <2> QED
    BY <1>a, <1>b, <2>1, TrafficStep, LeftTypes
<1>6. ASSUME NEW p \in Programs, ReadInput(p) PROVE Left' < Left
  <2>1. Traffic' < Traffic /\ UNCHANGED <<pc, state, holds>>
    BY <1>6, <1>b, SizesAssumption DEF ReadInput, parentVars, processVars, Traffic, TypeOK, Stream
  <2> QED
    BY <1>a, <1>b, <2>1, TrafficStep, LeftTypes
<1>7. ASSUME NEW p \in Programs, NEW s \in Stream, LetGo(p, s) PROVE Left' < Left
  <2>1. /\ UNCHANGED <<pc, unwritten, pipe, written>>
        /\ \A q \in Process \ {p} : state'[q] = state[q] /\ holds'[q] = holds[q]
        /\ p \in Process /\ LifeOf(p)' < LifeOf(p)
    <3>1. /\ state' = state /\ state[p] = "running" /\ s \in holds[p] /\ p \in Process
          /\ holds' = [holds EXCEPT ![p] = @ \ {s}]
      BY <1>7 DEF LetGo, Programs, Process
    <3>2. holds'[p] = holds[p] \ {s}
      BY <3>1 DEF TypeOK
    <3>3. LifeOf(p)' < LifeOf(p)
      BY <3>1, <3>2 DEF LifeOf, HeldBy, One, Stream
    <3> QED
      BY <1>7, <3>1, <3>3 DEF LetGo, parentVars, TypeOK
  <2> QED
    BY <1>a, <2>1, LifeStep
<1>8. CASE StartBackground
  <2> DEFINE p == "background"
  <2>1. /\ UNCHANGED <<pc, unwritten, pipe, written>> /\ p \in Process
        /\ \A q \in Process \ {p} : state'[q] = state[q] /\ holds'[q] = holds[q]
        /\ state[p] = "none" /\ state'[p] = "running"
    BY <1>8 DEF StartBackground, parentVars, TypeOK, Process
  <2>2. LifeOf(p) = 6 /\ LifeOf(p)' <= 5
    BY <2>1 DEF LifeOf, HeldBy, One
  <2> QED
    BY <1>a, <2>1, <2>2, LifeStep
<1>9. ASSUME NEW p \in Process, NEW f, Ends(p, f) PROVE Left' < Left
  <2>1. /\ UNCHANGED <<pc, unwritten, pipe, written>>
        /\ \A q \in Process \ {p} : state'[q] = state[q] /\ holds'[q] = holds[q]
        /\ state[p] = "running" /\ state'[p] = "ending"
    BY <1>9 DEF Ends, parentVars, TypeOK
  <2>2. LifeOf(p)' < LifeOf(p)
    BY <2>1, LeftTypes DEF LifeOf, One
  <2> QED
    BY <1>a, <2>1, <2>2, LifeStep
<1>10. ASSUME NEW p \in Process, Dies(p) PROVE Left' < Left
  <2>1. /\ UNCHANGED <<pc, unwritten, pipe, written>>
        /\ \A q \in Process \ {p} : state'[q] = state[q] /\ holds'[q] = holds[q]
        /\ state[p] = "ending" /\ state'[p] = "dead"
    BY <1>10 DEF Dies, parentVars, TypeOK
  <2>2. LifeOf(p)' < LifeOf(p)
    BY <2>1 DEF LifeOf, One
  <2> QED
    BY <1>a, <2>1, <2>2, LifeStep
<1>11. ASSUME NEW p \in Process, Exit(p) \/ Crash(p) \/ Killed(p) PROVE Left' < Left
  BY <1>9, <1>11 DEF Exit, Crash, Killed
<1>12. CASE ShellEnds
  BY <1>9, <1>12 DEF ShellEnds, Process
<1>13. CASE Parent \/ SelectFails
  BY <1>1, <1>2, <1>3, <1>4, <1>13 DEF Parent
<1>14. CASE Command
  BY <1>5, <1>6, <1>7, <1>8, <1>11, <1>14 DEF Command, Programs, Process
<1>15. CASE \E p \in Process : Kernel(p)
  BY <1>10, <1>11, <1>15 DEF Kernel
<1> QED
  BY <1>12, <1>13, <1>14, <1>15 DEF Next, Over

(* Every step of a call, its command and the kernel leaves less to do, so  *)
(* that no call goes on for ever, unless its command writes for ever.      *)
THEOREM EveryStepUsesUp == Spec => [](Left \in Nat) /\ [][Left' < Left]_vars
<1>1. Init => Bounded
  BY SizesAssumption DEF Init, Bounded, Stream
<1>2. TypeOK /\ Bounded /\ [Next]_vars => Bounded'
  BY BoundedStep
<1>3. CommandInv => TypeOK
  BY DEF CommandInv
<1>4. CommandInv /\ Bounded => Left \in Nat
  BY LeftTypes DEF CommandInv
<1>5. CommandInv /\ Bounded /\ [Next]_vars => [Left' < Left]_vars
  BY LeftStep
<1> QED
  BY <1>1, <1>2, <1>3, <1>4, <1>5, CommandInductive, PTL DEF Spec

(* While system_with_timeout is at work it can take its next step, or the  *)
(* process that proc_close waits for is ending.                            *)
GoesOn ==
  /\ pc = "feed" => unwritten = 0 \/ pipe["in"] < PipeSize \/ Abandoned("in")
  /\ pc = "read" => Readable(main)
  /\ pc = "wait" => state[child] \in {"ending", "dead"}

(* What it rests on: the pipe of stdin holds only input; and once proc_open *)
(* has succeeded there is a process to wait for.                           *)
GoingInv ==
  /\ unwritten + pipe["in"] <= call.input
  /\ pc = "read" => Readable(main)
  /\ pc \notin {"open", "returned"} => state[child] # "none"

(* stream_select has said so, and nobody else reads what it has seen.      *)
LEMMA ReadableStep ==
  ASSUME CommandInv, Benign, GoingInv, [Next]_vars, pc' = "read"
  PROVE  Readable(main)'
<1> USE DEF CommandInv, TypeOK
<1>0. main \in {"out", "err"} /\ main \in Stream
  BY DEF main, Stream
<1>1. call' = call
  BY DEF Next, vars, Parent, OpenFails, Open, Feed, CloseInput, Select, SelectFails, TimeOut,
     Read, ReadEof, GetStatus, Close, Wait, Command, WriteOutput, LetGo, ReadInput, Exit, Crash,
     StartBackground, ShellEnds, Kernel, Dies, Killed, Ends, Over
<1>2. main' = main
  BY <1>1 DEF main
<1>3. CASE Select
  <2>1. PICK s \in call.captured \ {"in"} : Readable(s)
    BY <1>3 DEF Select
  <2>2. s \in {"out", "err"}
    BY <2>1, CallsAssumption DEF Call, Stream
  <2>3. Readable(main)
    BY <1>0, <2>1, <2>2 DEF Readable, Benign, main, Stream
  <2> QED
    BY <1>2, <1>3, <2>3 DEF Select, processVars, Readable, Abandoned
<1>4. CASE ~Select
  <2>1. pc = "read"
    BY <1>4 DEF Next, vars, parentVars, Parent, OpenFails, Open, Feed, CloseInput, SelectFails,
       TimeOut, Read, ReadEof, GetStatus, Close, Wait, Command, WriteOutput, LetGo, ReadInput,
       Exit, Crash, StartBackground, ShellEnds, Kernel, Dies, Killed, Ends, Over
  <2>2. Readable(main)
    BY <2>1 DEF GoingInv
  <2>3. pipe'[main] >= pipe[main]
    <3>1. ASSUME NEW p \in Programs, NEW s \in Stream, WriteOutput(p, s)
          PROVE  pipe'[main] >= pipe[main]
      BY <1>0, <3>1, SizesAssumption DEF WriteOutput
    <3>2. ASSUME NEW p \in Programs, ReadInput(p) PROVE pipe'[main] >= pipe[main]
      BY <1>0, <3>2, SizesAssumption DEF ReadInput
    <3>3. CASE UNCHANGED pipe
      BY <1>0, <3>3, SizesAssumption
    <3>4. \/ UNCHANGED pipe
          \/ \E p \in Programs : ReadInput(p) \/ \E s \in Stream : WriteOutput(p, s)
      BY <1>4, <2>1 DEF Next, vars, parentVars, processVars, Parent, OpenFails, Open, Feed,
         CloseInput, SelectFails, TimeOut, Read, ReadEof, GetStatus, Close, Wait, Command,
         LetGo, Exit, Crash, StartBackground, ShellEnds, Kernel, Dies, Killed, Ends, Over
    <3> QED
      BY <3>1, <3>2, <3>3, <3>4
  <2>4. Abandoned(main) => Abandoned(main)'
    <3> SUFFICES ASSUME \A p \in Process : main \notin holds[p], NEW p \in Process
                 PROVE  main \notin holds'[p]
      BY <1>2 DEF Abandoned
    <3>1. \/ UNCHANGED holds \/ StartBackground
          \/ \E q \in Process : (\E s \in Stream : LetGo(q, s)) \/ \E f : Ends(q, f)
      BY <1>4, <2>1 DEF Next, vars, parentVars, processVars, Parent, OpenFails, Open, Feed,
         CloseInput, SelectFails, TimeOut, Read, ReadEof, GetStatus, Close, Wait, Command,
         WriteOutput, ReadInput, Exit, Crash, ShellEnds, Kernel, Dies, Killed, Over, Programs,
         Process
    <3>2. CASE StartBackground
      BY <3>2 DEF StartBackground, Process
    <3>3. ASSUME NEW q \in Process, NEW s \in Stream, LetGo(q, s) PROVE main \notin holds'[p]
      BY <3>3 DEF LetGo
    <3>4. ASSUME NEW q \in Process, NEW f, Ends(q, f) PROVE main \notin holds'[p]
      BY <3>4 DEF Ends
    <3> QED
      BY <3>1, <3>2, <3>3, <3>4
  <2>5. pipe[main] \in Nat /\ pipe'[main] \in Int
    <3>1. TypeOK'
      BY TypeStep
    <3> QED
      BY <1>0, <3>1, SizesAssumption
  <2> QED
    BY <1>2, <2>2, <2>3, <2>4, <2>5 DEF Readable
<1> QED
  BY <1>3, <1>4

(* Feed and ReadInput move input on; and no process leaves its state none  *)
(* but by starting.                                                        *)
LEMMA GoingStep ==
  CommandInv /\ Benign /\ GoingInv /\ [Next]_vars => GoingInv'
<1> SUFFICES ASSUME CommandInv, Benign, GoingInv, [Next]_vars PROVE GoingInv'
  OBVIOUS
<1>1. pc' = "read" => Readable(main)'
  BY ReadableStep
<1> USE DEF CommandInv, TypeOK
<1>0. call.input \in Nat
  BY CallsAssumption DEF Call
<1>2. (unwritten + pipe["in"] <= call.input)'
  <2>0. main \in {"out", "err"}
    BY DEF main
  <2>1. CASE Feed
    BY <1>0, <2>1, SizesAssumption DEF Feed, GoingInv, Stream
  <2>2. CASE Read
    BY <1>0, <2>0, <2>2, SizesAssumption DEF Read, GoingInv, Stream
  <2>3. ASSUME NEW p \in Programs, NEW s \in Stream, WriteOutput(p, s)
        PROVE  (unwritten + pipe["in"] <= call.input)'
    BY <1>0, <2>3, SizesAssumption DEF WriteOutput, GoingInv, Stream, parentVars
  <2>4. ASSUME NEW p \in Programs, ReadInput(p)
        PROVE  (unwritten + pipe["in"] <= call.input)'
    BY <1>0, <2>4, SizesAssumption DEF ReadInput, GoingInv, Stream, parentVars
  <2>5. CASE UNCHANGED <<call, unwritten, pipe>>
    BY <2>5 DEF GoingInv
  <2>6. \/ Feed \/ Read \/ UNCHANGED <<call, unwritten, pipe>>
        \/ \E p \in Programs : ReadInput(p) \/ \E s \in Stream : WriteOutput(p, s)
    BY DEF Next, vars, parentVars, processVars, Parent, OpenFails, Open,
       CloseInput, Select, SelectFails, TimeOut, ReadEof, GetStatus, Close, Wait, Command,
       LetGo, Exit, Crash, StartBackground, ShellEnds, Kernel, Dies, Killed, Ends, Over
  <2> QED
    BY <2>1, <2>2, <2>3, <2>4, <2>5, <2>6
<1>3. pc' \notin {"open", "returned"} => state'[child'] # "none"
  <2>1. CASE Open
    BY <2>1 DEF Open, Process
  <2>2. CASE ~Open
    <3>1. pc' \notin {"open", "returned"} => pc \notin {"open", "returned"} /\ child' = child
      BY <2>2 DEF Next, vars, parentVars, processVars, Parent, OpenFails, Feed, CloseInput,
         Select, SelectFails, TimeOut, Read, ReadEof, GetStatus, Close, Wait, Command,
         WriteOutput, LetGo, ReadInput, Exit, Crash, StartBackground, ShellEnds, Kernel, Dies,
         Killed, Ends, Over
    <3>2. \A p \in Process : state'[p] = "none" => state[p] = "none"
      <4>1. ASSUME NEW q \in Process, NEW f, Ends(q, f), NEW p \in Process
            PROVE  state'[p] = "none" => state[p] = "none"
        BY <4>1 DEF Ends
      <4>2. ASSUME NEW q \in Process, Dies(q), NEW p \in Process
            PROVE  state'[p] = "none" => state[p] = "none"
        BY <4>2 DEF Dies
      <4>3. CASE StartBackground
        BY <4>3 DEF StartBackground, Process
      <4>4. \/ UNCHANGED state \/ StartBackground
            \/ \E q \in Process : Dies(q) \/ \E f : Ends(q, f)
        BY <2>2 DEF Next, vars, parentVars, processVars, Parent, OpenFails, Feed,
           CloseInput, Select, SelectFails, TimeOut, Read, ReadEof, GetStatus, Close, Wait,
           Command, WriteOutput, LetGo, ReadInput, Exit, Crash, ShellEnds, Kernel, Killed, Over,
           Programs, Process
      <4> QED
        BY <4>1, <4>2, <4>3, <4>4
    <3> QED
      BY <3>1, <3>2 DEF GoingInv, Process
  <2> QED
    BY <2>1, <2>2
<1> QED
  BY <1>1, <1>2, <1>3 DEF GoingInv

(* Under the conditions that the timeout relies on, system_with_timeout is *)
(* never stuck: not in fwrite with nobody reading, not in an fread that    *)
(* nothing will end, and not in proc_close behind a process that hangs.    *)
(* Every step leaves less to do, so the call returns.                      *)
THEOREM CallGoesOn == Spec /\ []Benign => []GoesOn
<1>1. Init => GoingInv
  <2> SUFFICES ASSUME Init PROVE GoingInv
    OBVIOUS
  <2>1. call.input \in Nat
    BY CallsAssumption DEF Init, Call
  <2> QED
    BY <2>1 DEF Init, GoingInv, Stream
<1>2. CommandInv /\ Benign /\ GoingInv /\ [Next]_vars => GoingInv'
  BY GoingStep
<1>3. CommandInv /\ Benign /\ GoingInv => GoesOn
  <2> SUFFICES ASSUME CommandInv, Benign, GoingInv PROVE GoesOn
    OBVIOUS
  <2>1. /\ call.input \in Nat /\ pipe["in"] \in Nat /\ unwritten \in Nat
        /\ child \in Process /\ state[child] \in {"none", "running", "ending", "dead"}
    BY CallsAssumption, SizesAssumption DEF CommandInv, TypeOK, Call, Stream, Process
  <2>2. pc = "feed" => unwritten = 0 \/ pipe["in"] < PipeSize
    BY <2>1, SizesAssumption DEF Benign, GoingInv
  <2>3. pc = "wait" => state[child] \in {"ending", "dead"}
    BY <2>1 DEF Benign, GoingInv, CommandInv, AfterEof, Abandoned
  <2> QED
    BY <2>2, <2>3 DEF GoesOn, GoingInv
<1> QED
  BY <1>1, <1>2, <1>3, CommandInductive, PTL DEF Spec
===============================================================================
