------------------------------- MODULE ChildIo ------------------------------
(***************************************************************************)
(* Running a program with its three streams on pipes,                       *)
(* client/common/command.cc: StartProgram, the poll loop of                 *)
(* HandleProgramIoAndCloseHandles, and GetProgramExitCode.  Pipes are       *)
(* small, the program reads and writes when it likes, may close its input   *)
(* early, and may end by a signal.                                          *)
(***************************************************************************)
EXTENDS Integers, FiniteSets

CONSTANTS
  InputSize,   \* bytes the caller has for the program's standard input
  OutputSize,  \* bytes the program writes, to each of its two outputs
  PipeSize     \* bytes a pipe holds

ASSUME ChildConstants == {InputSize, OutputSize} \subseteq Nat /\ PipeSize \in Nat \ {0}

VARIABLES
  parent,  \* the loop: which streams are done, how far, what poll reported
  child,   \* the program: how far it has read and written, and whether it ended
  pipe     \* per stream, the bytes in its pipe

childVars == <<parent, child, pipe>>

Streams == {"in", "out", "err"}
Outputs == {"out", "err"}

-----------------------------------------------------------------------------
(* The loop *)

\* Mutant: the input is written before any output is read.
InputFirst == IF "in" \in parent.done THEN Streams \ parent.done ELSE {"in"}

Watched == Streams \ parent.done

\* What poll reports: room in the input's pipe or its reader gone, output in a
\* pipe or its writer gone.
Ready(s) ==
  IF s = "in" THEN pipe.in < PipeSize \/ "in" \in child.closed
  ELSE pipe[s] > 0 \/ s \in child.closed

Poll ==
  /\ parent.at = "poll" /\ Watched # {}
  /\ \E s \in Watched : Ready(s)
  /\ parent' = [parent EXCEPT !.at = "handle", !.revents = {s \in Watched : Ready(s)}]
  /\ UNCHANGED <<child, pipe>>

\* The handles are looked at in the order in which they were polled.
Turn(s) ==
  /\ parent.at = "handle" /\ s \in parent.revents
  /\ s = "out" => "in" \notin parent.revents
  /\ s = "err" => parent.revents = {"err"}

Handled(s, done, bytes) ==
  parent' = [parent EXCEPT !.revents = @ \ {s},
                           !.at = IF parent.revents = {s} THEN "poll" ELSE @,
                           !.done = IF done THEN @ \cup {s} ELSE @,
                           !.bytes[s] = @ + bytes]

WriteInput(count) ==
  LET done == parent.bytes["in"] + count = InputSize
  IN /\ Turn("in") /\ "in" \notin child.closed
     /\ count \in 1..(PipeSize - pipe.in)
     /\ parent.bytes["in"] + count <= InputSize
     /\ Handled("in", done, count)
     /\ pipe' = [pipe EXCEPT !.in = @ + count]
     /\ UNCHANGED child

\* The program does not want its input.  The code means to go on ("So be
\* it."), and does if SIGPIPE is ignored by whoever started the wrapper.
InputRefused ==
  /\ Turn("in") /\ "in" \in child.closed
  /\ \/ Handled("in", TRUE, 0)
     \/ parent' = [parent EXCEPT !.at = "killed"]
  /\ UNCHANGED <<child, pipe>>

\* Only a read that gives nothing is the end.
EndOfOutput(s) == s \in child.closed /\ pipe[s] = 0

ReadOutput(s, count) ==
  /\ Turn(s)
  /\ IF EndOfOutput(s) THEN count = 0 ELSE count \in 1..pipe[s]
  /\ Handled(s, EndOfOutput(s), count)
  /\ pipe' = [pipe EXCEPT ![s] = @ - count]
  /\ UNCHANGED child

\* GetProgramExitCode: a program that did not exit by itself fails a CHECK.
GetProgramExitCode ==
  /\ parent.at = "poll" /\ Watched = {}
  /\ child.at # "running"
  /\ parent' = [parent EXCEPT !.at = IF child.at = "exited" THEN "done" ELSE "aborted"]
  /\ UNCHANGED <<child, pipe>>

-----------------------------------------------------------------------------
(* External: the program, a filter that writes a byte for each byte it reads *)
(* and the rest at the end of its input, and complains at any time           *)

InputEnded == pipe.in = 0 /\ "in" \in parent.done

ProgramReads ==
  /\ child.at = "running" /\ "in" \notin child.closed
  /\ pipe.in > 0 /\ child.bytes["in"] <= child.bytes["out"]
  /\ child' = [child EXCEPT !.bytes["in"] = @ + 1]
  /\ pipe' = [pipe EXCEPT !.in = @ - 1]
  /\ UNCHANGED parent

ProgramWrites(s) ==
  /\ child.at = "running"
  /\ child.bytes[s] < OutputSize /\ pipe[s] < PipeSize
  /\ s = "out" => \/ InputEnded \/ "in" \in child.closed
                  \/ child.bytes["out"] < child.bytes["in"]
  /\ child' = [child EXCEPT !.bytes[s] = @ + 1]
  /\ pipe' = [pipe EXCEPT ![s] = @ + 1]
  /\ UNCHANGED parent

ProgramClosesInput ==
  /\ child.at = "running" /\ "in" \notin child.closed
  /\ child' = [child EXCEPT !.closed = @ \cup {"in"}]
  /\ UNCHANGED <<parent, pipe>>

ProgramEnds(how) ==
  /\ child.at = "running"
  /\ how = "exited" => /\ InputEnded \/ "in" \in child.closed
                       /\ \A s \in Outputs : child.bytes[s] = OutputSize
  /\ child' = [child EXCEPT !.at = how, !.closed = Streams]
  /\ UNCHANGED <<parent, pipe>>

-----------------------------------------------------------------------------

\* An empty input is closed before the loop.
ChildInit ==
  /\ parent = [at |-> "poll", revents |-> {}, bytes |-> [s \in Streams |-> 0],
               done |-> IF InputSize = 0 THEN {"in"} ELSE {}]
  /\ child = [at |-> "running", closed |-> {}, bytes |-> [s \in Streams |-> 0]]
  /\ pipe = [in |-> 0, out |-> 0, err |-> 0]

LoopStep ==
  \/ Poll
  \/ \E count \in 1..PipeSize : WriteInput(count)
  \/ InputRefused
  \/ \E s \in Outputs, count \in 0..PipeSize : ReadOutput(s, count)
  \/ GetProgramExitCode

ProgramStep ==
  \/ ProgramReads
  \/ \E s \in Outputs : ProgramWrites(s)
  \/ ProgramEnds("exited")

ChildNext ==
  \/ LoopStep \/ ProgramStep
  \/ ProgramClosesInput \/ ProgramEnds("signaled")

ChildSpec == ChildInit /\ [][ChildNext]_childVars

-----------------------------------------------------------------------------
(* Properties *)

ChildTypeOK ==
  /\ parent.at \in {"poll", "handle", "done", "aborted", "killed"}
  /\ parent.done \subseteq Streams /\ parent.revents \subseteq Streams
  /\ parent.bytes["in"] \in 0..InputSize
  /\ child.closed \subseteq Streams
  /\ \A s \in Outputs : child.bytes[s] \in 0..OutputSize
  /\ \A s \in Streams : pipe[s] \in 0..PipeSize

\* The caller gets all the program wrote, though the program ended before the
\* pipes were empty; nothing is taken for more than it is on the way.
OutputComplete ==
  /\ parent.at \in {"done", "aborted"} =>
       \A s \in Outputs : parent.bytes[s] = child.bytes[s]
  /\ \A s \in Outputs : parent.bytes[s] + pipe[s] = child.bytes[s]

\* However small the pipes, the wrapper and the program do not wait for each
\* other: the loop ends.
LoopEnds == <>(parent.at \in {"done", "aborted", "killed"})
=============================================================================
