------------------------------ MODULE TestProcess ------------------------------
(***************************************************************************)
(* system_with_timeout of run-tests.php: a shell command is started with   *)
(* pipes for some of stdin, stdout and stderr; its input is written, its   *)
(* output is collected until the end of file or until nothing comes for    *)
(* the length of the timeout, and its status is looked up.                 *)
(*                                                                         *)
(* The command is a program, which may leave another process behind in the *)
(* background.  proc_open starts it through the shell, which either waits  *)
(* for the program or replaces itself by it; the process proc_open knows   *)
(* is then the shell or the program.  A process that ends lets go of its   *)
(* pipes first and can be waited for only later.  Data are counted in      *)
(* units: what is written to a pipe is its next unit, and is read in order.*)
(***************************************************************************)
EXTENDS Integers

CONSTANTS
  Calls,      \* the arguments of the calls to consider
  PipeSize,   \* units a pipe holds
  MaxOutput,  \* bound: units written to one stream in a run
  Statuses,   \* the exit statuses of programs
  Signals,    \* the signals that may end a program
  Interrupts  \* whether the select may be interrupted

Stream == {"in", "out", "err"}

(* captured: the streams that get a pipe ($captureStdIn, -Out, -Err);      *)
(* merged: 2>&1 ends the command; input: the length of $stdin (0: null).   *)
Call == [captured : SUBSET Stream, merged : BOOLEAN, input : Nat]

ASSUME CallsAssumption ==
  /\ Calls \subseteq Call
  /\ \A c \in Calls : /\ c.captured \cap {"out", "err"} # {}
                      /\ c.merged => {"out", "err"} \subseteq c.captured

ASSUME SizesAssumption ==
  /\ PipeSize \in Nat \ {0}
  /\ MaxOutput \in Nat
  /\ Statuses \subseteq 0 .. 255
  /\ Signals \subseteq 1 .. 31
  /\ Interrupts \in BOOLEAN

Process == {"shell", "program", "background"}

VARIABLES
  call,        \* the arguments of this call
  pc,          \* where system_with_timeout is
  child,       \* $proc: "shell" or "program"
  unwritten,   \* what of $stdin is not written yet
  pipe,        \* stream -> units in its pipe
  written,     \* stream -> units written to its pipe so far
  data,        \* units in $data
  result,      \* what is returned: "none" yet, "false", "ended", "timeout"
  termsig,     \* the number reported as Termsig (-1: none)
  interrupted, \* the select returned false
  open,        \* whether the parent's ends of the output pipes are open
  state,       \* process -> "none", "running", "ending", "dead"
  holds,       \* process -> the streams it holds its end of the pipe of
  fate,        \* process -> [signal, status] it ended with
  killed       \* the processes sent SIGKILL

parentVars == <<pc, unwritten, data, result, termsig, interrupted, open, killed>>
processVars == <<child, state, holds, fate>>
vars == <<call, parentVars, pipe, written, processVars>>

Pcs == {"open", "feed", "select", "read", "status", "close", "wait", "returned"}

Fate == [signal : 0 .. 31, status : 0 .. 255]

TypeOK ==
  /\ call \in Calls
  /\ pc \in Pcs
  /\ child \in {"shell", "program"}
  /\ unwritten \in 0 .. call.input
  /\ pipe \in [Stream -> 0 .. PipeSize]
  /\ written \in [Stream -> Nat]
  /\ data \in Nat
  /\ result \in {"none", "false", "ended", "timeout"}
  /\ termsig \in {-1} \cup 0 .. 31
  /\ interrupted \in BOOLEAN
  /\ open \in BOOLEAN
  /\ state \in [Process -> {"none", "running", "ending", "dead"}]
  /\ holds \in [Process -> SUBSET Stream]
  /\ fate \in [Process -> Fate]
  /\ killed \subseteq Process

Unended == [signal |-> 0, status |-> 0]

Init ==
  /\ call \in Calls
  /\ pc = "open"
  /\ child = "shell"
  /\ unwritten = call.input
  /\ pipe = [s \in Stream |-> 0]
  /\ written = [s \in Stream |-> 0]
  /\ data = 0
  /\ result = "none"
  /\ termsig = -1
  /\ interrupted = FALSE
  /\ open = TRUE
  /\ state = [p \in Process |-> "none"]
  /\ holds = [p \in Process |-> {}]
  /\ fate = [p \in Process |-> Unended]
  /\ killed = {}

(* Nobody holds the far end of the pipe of s any more.                     *)
Abandoned(s) == \A p \in Process : s \notin holds[p]

(* select finds the pipe of s readable: there is something, or the end.    *)
Readable(s) == pipe[s] > 0 \/ Abandoned(s)

(* The pipe that is read: stderr only if stdout has none.                  *)
main == IF "out" \in call.captured THEN "out" ELSE "err"

-------------------------------------------------------------------------------
(* system_with_timeout.                                                    *)

OpenFails ==
  /\ pc = "open"
  /\ pc' = "returned"
  /\ result' = "false"
  /\ open' = FALSE
  /\ UNCHANGED <<call, unwritten, data, termsig, interrupted, killed, pipe, written,
                 processVars>>

(* With 2>&1 the program has no stderr pipe of its own; a shell that waits *)
(* keeps all of them.                                                      *)
Open ==
  /\ pc = "open"
  /\ pc' = IF "in" \in call.captured THEN "feed" ELSE "select"
  /\ child' \in {"shell", "program"}
  /\ state' = [state EXCEPT !["program"] = "running",
                            !["shell"] = IF child' = "shell" THEN "running" ELSE "none"]
  /\ holds' = [holds EXCEPT
                 !["program"] = IF call.merged THEN call.captured \ {"err"} ELSE call.captured,
                 !["shell"] = IF child' = "shell" THEN call.captured ELSE {}]
  /\ UNCHANGED <<call, unwritten, data, result, termsig, interrupted, open, killed, pipe,
                 written, fate>>

(* fwrite goes on while there is room; it gives up when nobody reads.      *)
Feed ==
  /\ pc = "feed"
  /\ unwritten > 0
  /\ \/ /\ pipe["in"] < PipeSize
        /\ ~Abandoned("in")
        /\ pipe' = [pipe EXCEPT !["in"] = @ + 1]
        /\ unwritten' = unwritten - 1
     \/ /\ Abandoned("in")
        /\ unwritten' = 0
        /\ UNCHANGED pipe
  /\ UNCHANGED <<call, pc, data, result, termsig, interrupted, open, killed, written,
                 processVars>>

CloseInput ==
  /\ pc = "feed"
  /\ unwritten = 0
  /\ pc' = "select"
  /\ UNCHANGED <<call, unwritten, data, result, termsig, interrupted, open, killed, pipe,
                 written, processVars>>

(* Faulty variant of Select: its result is not looked at.                  *)
SelectUnchecked ==
  /\ pc = "select"
  /\ pc' = "read"
  /\ UNCHANGED <<call, unwritten, data, result, termsig, interrupted, open, killed, pipe,
                 written, processVars>>

Select ==
  /\ pc = "select"
  /\ \E s \in call.captured \ {"in"} : Readable(s)
  /\ pc' = "read"
  /\ UNCHANGED <<call, unwritten, data, result, termsig, interrupted, open, killed, pipe,
                 written, processVars>>

(* $n === false                                                            *)
SelectFails ==
  /\ pc = "select"
  /\ Interrupts
  /\ interrupted' = TRUE
  /\ pc' = "status"
  /\ UNCHANGED <<call, unwritten, data, result, termsig, open, killed, pipe, written,
                 processVars>>

(* $n === 0: SIGKILL, and return; $proc goes without being waited for.     *)
TimeOut ==
  /\ pc = "select"
  /\ \A s \in call.captured \ {"in"} : ~Readable(s)
  /\ killed' = {child}
  /\ result' = "timeout"
  /\ open' = FALSE
  /\ pc' = "returned"
  /\ UNCHANGED <<call, unwritten, data, termsig, interrupted, pipe, written, processVars>>

(* fread takes what is there; it waits while there is nothing.             *)
Read ==
  /\ pc = "read"
  /\ pipe[main] > 0
  /\ data' = data + pipe[main]
  /\ pipe' = [pipe EXCEPT ![main] = 0]
  /\ pc' = "select"
  /\ UNCHANGED <<call, unwritten, result, termsig, interrupted, open, killed, written,
                 processVars>>

(* Faulty variant of ReadEof: the end of any stream ends the loop.         *)
ReadAnyEof ==
  /\ pc = "read"
  /\ pipe[main] = 0
  /\ \E s \in call.captured \ {"in"} : Abandoned(s)
  /\ pc' = "status"
  /\ UNCHANGED <<call, unwritten, data, result, termsig, interrupted, open, killed, pipe,
                 written, processVars>>

ReadEof ==
  /\ pc = "read"
  /\ pipe[main] = 0
  /\ Abandoned(main)
  /\ pc' = "status"
  /\ UNCHANGED <<call, unwritten, data, result, termsig, interrupted, open, killed, pipe,
                 written, processVars>>

(* Faulty variant of Reported: without the upper bound on the status.      *)
ReportedUnbounded(f) ==
  IF f.status > 128 THEN f.status - 128 ELSE IF f.signal > 0 THEN 0 ELSE -1

(* Faulty variant of Reported: off by one at the lower bound.              *)
ReportedFrom128(f) ==
  CASE f.status >= 128 /\ f.status < 160 -> f.status - 128
    [] f.signal > 0 -> 0
    [] OTHER -> -1

(* What is printed as Termsig of a child that ended with f: a status of    *)
(* 128 + n is n; a child that was ended by a signal itself has no status,  *)
(* and what is printed is its stopsig, which is 0.                         *)
Reported(f) ==
  CASE f.status > 128 /\ f.status < 160 -> f.status - 128
    [] f.signal > 0 -> 0
    [] OTHER -> -1

(* proc_get_status does not wait: of a child that is not dead yet it only  *)
(* says that it runs.                                                      *)
GetStatus ==
  /\ pc = "status"
  /\ termsig' = IF state[child] = "dead" THEN Reported(fate[child]) ELSE -1
  /\ pc' = "close"
  /\ UNCHANGED <<call, unwritten, data, result, interrupted, open, killed, pipe, written,
                 processVars>>

(* proc_close closes the pipes, and waits for the child.                   *)
Close ==
  /\ pc = "close"
  /\ open' = FALSE
  /\ pc' = "wait"
  /\ UNCHANGED <<call, unwritten, data, result, termsig, interrupted, killed, pipe, written,
                 processVars>>

(* Faulty variant of Wait: the child is not waited for.                    *)
ReturnAtOnce ==
  /\ pc = "wait"
  /\ result' = "ended"
  /\ pc' = "returned"
  /\ UNCHANGED <<call, unwritten, data, termsig, interrupted, open, killed, pipe, written,
                 processVars>>

Wait ==
  /\ pc = "wait"
  /\ state[child] = "dead"
  /\ result' = "ended"
  /\ pc' = "returned"
  /\ UNCHANGED <<call, unwritten, data, termsig, interrupted, open, killed, pipe, written,
                 processVars>>

Parent == OpenFails \/ Open \/ Feed \/ CloseInput \/ Select \/ TimeOut
          \/ Read \/ ReadEof \/ GetStatus \/ Close \/ Wait

-------------------------------------------------------------------------------
(* The processes of the command.                                           *)

Programs == {"program", "background"}

WriteOutput(p, s) ==
  /\ state[p] = "running"
  /\ open
  /\ s \in holds[p] \ {"in"}
  /\ pipe[s] < PipeSize
  /\ written[s] < MaxOutput
  /\ pipe' = [pipe EXCEPT ![s] = @ + 1]
  /\ written' = [written EXCEPT ![s] = @ + 1]
  /\ UNCHANGED <<call, parentVars, processVars>>

ReadInput(p) ==
  /\ state[p] = "running"
  /\ "in" \in holds[p]
  /\ pipe["in"] > 0
  /\ pipe' = [pipe EXCEPT !["in"] = @ - 1]
  /\ UNCHANGED <<call, parentVars, written, processVars>>

(* fclose(STDOUT), for instance.                                           *)
LetGo(p, s) ==
  /\ state[p] = "running"
  /\ s \in holds[p]
  /\ holds' = [holds EXCEPT ![p] = @ \ {s}]
  /\ UNCHANGED <<call, parentVars, pipe, written, child, state, fate>>

(* A process left in the background inherits the pipes.                    *)
StartBackground ==
  /\ state["program"] = "running"
  /\ state["background"] = "none"
  /\ state' = [state EXCEPT !["background"] = "running"]
  /\ holds' = [holds EXCEPT !["background"] = holds["program"]]
  /\ UNCHANGED <<call, parentVars, pipe, written, child, fate>>

(* A running process begins to end, and lets go of its pipes.              *)
Ends(p, f) ==
  /\ state[p] = "running"
  /\ state' = [state EXCEPT ![p] = "ending"]
  /\ holds' = [holds EXCEPT ![p] = {}]
  /\ fate' = [fate EXCEPT ![p] = f]
  /\ UNCHANGED <<call, parentVars, pipe, written, child>>

Exit(p) == \E n \in Statuses : Ends(p, [signal |-> 0, status |-> n])

Crash(p) == \E n \in Signals : Ends(p, [signal |-> n, status |-> 0])

Killed(p) == p \in killed /\ Ends(p, [signal |-> 9, status |-> 0])

(* The shell ends with the status of the program, 128 + n for a signal n.  *)
ShellEnds ==
  /\ state["program"] = "dead"
  /\ LET f == fate["program"]
     IN Ends("shell", [signal |-> 0,
                       status |-> IF f.signal > 0 THEN 128 + f.signal ELSE f.status])

(* From now on the process can be waited for.                              *)
Dies(p) ==
  /\ state[p] = "ending"
  /\ state' = [state EXCEPT ![p] = "dead"]
  /\ UNCHANGED <<call, parentVars, pipe, written, child, holds, fate>>

Command ==
  \/ \E p \in Programs : \/ \E s \in Stream : WriteOutput(p, s) \/ LetGo(p, s)
                         \/ ReadInput(p)
                         \/ Exit(p) \/ Crash(p)
  \/ StartBackground

(* What the kernel and the shell do without being asked.                   *)
Kernel(p) == Dies(p) \/ Killed(p)

Over ==
  /\ pc = "returned"
  /\ \A p \in Process : state[p] \in {"none", "dead"}
  /\ UNCHANGED vars

Next == \/ Parent \/ SelectFails
        \/ Command \/ ShellEnds
        \/ \E p \in Process : Kernel(p)
        \/ Over

Spec == Init /\ [][Next]_vars

(* run-tests.php, the shell and the kernel go on; the program need not.    *)
FairSpec == /\ Spec
            /\ WF_vars(Parent)
            /\ WF_vars(ShellEnds)
            /\ \A p \in Process : WF_vars(Kernel(p))

-------------------------------------------------------------------------------
(* Properties.                                                             *)

(* When the loop ends at the end of file the output is complete, that of   *)
(* processes left in the background included.                              *)
NoOutputLost == result = "ended" /\ ~interrupted => data = written[main]

(* Only a call that timed out leaves its program running behind it.        *)
SurvivesOnlyTimeout ==
  pc = "returned" /\ state["program"] \in {"running", "ending"} => result = "timeout"

(* What a Termsig says of the program, whoever was asked for the status:   *)
(* the signal that ended it, if a shell passed it on as 128 + n; 0, if the *)
(* program took the place of the shell; and n of a program that no signal  *)
(* ended if it exited with 128 + n by itself, 129 .. 159 (1253).  Of no    *)
(* other program is a Termsig reported.                                    *)
TermsigOfProgram ==
  termsig # -1 =>
    LET f == fate["program"]
    IN \/ f.signal > 0 /\ termsig = (IF child = "shell" THEN f.signal ELSE 0)
       \/ f.status \in 129 .. 159 /\ termsig = f.status - 128

(* The invariant from which the first two follow.  What is written to the  *)
(* pipe that is read is in it or in $data; after the end of file it stays  *)
(* empty and without writers; a shell outlives its program unless it is    *)
(* killed, and only the timeout kills.                                     *)
Flow == data + pipe[main] = written[main]

AfterEof ==
  pc \in {"status", "close", "wait"} \/ result = "ended" =>
    interrupted \/ (pipe[main] = 0 /\ Abandoned(main))

Outlives ==
  /\ child = "shell" /\ state["shell"] \in {"ending", "dead"} /\ killed = {} =>
       state["program"] = "dead"
  /\ killed # {} => result = "timeout"
  /\ result = "ended" => state[child] = "dead"
  /\ pc = "open" \/ result = "false" => \A p \in Process : state[p] = "none"
  /\ pc = "returned" <=> result # "none"

CommandInv == TypeOK /\ Flow /\ AfterEof /\ Outlives

(* What the timeout relies on: stdin fits into its pipe; stderr is silent, *)
(* and open as long as stdout; a process that proc_close waits for holds   *)
(* on to the output until it ends; the select is not interrupted.          *)
Benign ==
  /\ call.input <= PipeSize
  /\ main = "out" /\ "err" \in call.captured =>
       pipe["err"] = 0 /\ (Abandoned("err") => Abandoned("out"))
  /\ state[child] = "running" => main \in holds[child]
  /\ ~interrupted

(* Then the call returns, however long its program hangs and whatever it   *)
(* leaves in the background.                                               *)
TimeoutHonoured == []Benign => <>(pc = "returned")
===============================================================================
