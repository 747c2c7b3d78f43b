----------------------------- MODULE DaemonCall -----------------------------
(***************************************************************************)
(* The compiler wrapper's HTTP client, client/common/daemon_call.cc: one    *)
(* call over one nonblocking socket to the delegate daemon.  The kernel     *)
(* takes and gives any number of bytes at a time, the daemon may die at any *)
(* moment, and the call has a deadline.                                     *)
(*                                                                         *)
(* A byte is its place in the stream it belongs to.  The answer is a status *)
(* line, a header and a body, and only their lengths matter.                *)
(***************************************************************************)
EXTENDS Integers, Sequences, SequencesExt

CONSTANTS
  Parts,       \* lengths of the buffers to send: the HTTP header, then the bodies
  MaxIovs,     \* buffers one writev takes (128)
  StatusSize, BodySize,  \* lengths of the daemon's answer
  HeaderSizes,           \* lengths its header may have
  MaxHeaderSize          \* kMaxHeaderSize

ASSUME CallConstants ==
  /\ Parts \in Seq(Nat) /\ Len(Parts) > 0
  /\ {MaxIovs, StatusSize} \cup HeaderSizes \subseteq Nat \ {0}
  /\ {BodySize, MaxHeaderSize} \subseteq Nat

VARIABLES
  call,      \* where the wrapper is, the buffers of this round, what it read
  received,  \* the bytes the daemon has got
  answered,  \* how many bytes of the answer the daemon has sent
  alive,     \* the daemon has not closed the connection
  late       \* the deadline has passed

callVars == <<call, received, answered, alive, late>>

\* The bytes before each of the buffers, and before the end.
Before[i \in 1..Len(Parts) + 1] ==
  IF i = 1 THEN 0 ELSE Before[i - 1] + Parts[i - 1]

Stretch(from, size) == [k \in 1..size |-> from + k]

RequestSize == Before[Len(Parts) + 1]
WholeRequest == Stretch(0, RequestSize)
AnswerSize == StatusSize + call.header + BodySize

Return(result) == [call EXCEPT !.at = "returned", !.result = result]

-----------------------------------------------------------------------------
(* Connecting and writing *)

\* DaemonCallGathered: the next round sends as many buffers as one writev
\* takes; after the last one the answer is read.
NextRound(from) ==
  IF from > Len(Parts)
  THEN [call EXCEPT !.at = "status", !.done = 0]
  ELSE LET to == IF from + MaxIovs - 1 < Len(Parts) THEN from + MaxIovs - 1
                 ELSE Len(Parts)
       IN [call EXCEPT !.at = "write", !.iov = [first |-> from, last |-> to],
                       !.next = to + 1, !.bytes_written = 0]

OpenConnectionTo ==
  /\ call.at = "connect"
  /\ call' \in {NextRound(1), Return("failed to connect")}
  /\ UNCHANGED <<received, answered, alive, late>>

\* The round's bytes before buffer i, and its first buffer that is not yet sent
\* in full.
Skipped(iov, i) == Before[i] - Before[iov.first]
FirstUnsent(iov, bytes_written) ==
  CHOOSE i \in iov.first..iov.last :
    /\ Skipped(iov, i + 1) > bytes_written
    /\ \A j \in iov.first..i : Skipped(iov, j) <= bytes_written

\* The buffers from i on, to the end of the round.
Others(iov, i) == Stretch(Before[i], Before[iov.last + 1] - Before[i])

\* Mutant: a buffer that was sent in part is sent again from its beginning.
FromItsStart(iov, bytes_written) == Others(iov, FirstUnsent(iov, bytes_written))

\* TimedWriteV: the buffers sent in full are skipped, of the next one the rest
\* is sent, and all of the others.
Writing(iov, bytes_written) ==
  LET i == FirstUnsent(iov, bytes_written)
      writing_bytes == Skipped(iov, i) + Parts[i] - bytes_written
  IN Stretch(Before[i] + Parts[i] - writing_bytes, writing_bytes)
       \o Others(iov, i + 1)

RoundSize == Skipped(call.iov, call.iov.last + 1)

\* The kernel takes count bytes.
WriteSome(count) ==
  LET writing == Writing(call.iov, call.bytes_written)
  IN /\ call.at = "write" /\ call.bytes_written # RoundSize
     /\ ~late /\ alive
     /\ count \in 1..Len(writing)
     /\ received' = received \o SubSeq(writing, 1, count)
     /\ call' = [call EXCEPT !.bytes_written = @ + count]
     /\ UNCHANGED <<answered, alive, late>>

RoundWritten ==
  /\ call.at = "write" /\ call.bytes_written = RoundSize
  /\ call' = NextRound(call.next)
  /\ UNCHANGED <<received, answered, alive, late>>

\* The daemon is gone (nothing in the wrapper ignores SIGPIPE: unless its
\* parent does, the wrapper dies here), or time is up.
WriteFails ==
  /\ call.at = "write" /\ call.bytes_written # RoundSize
  /\ \/ late /\ call' = Return("failed to write")
     \/ ~late /\ ~alive /\ call' \in {Return("failed to write"), Return("killed")}
  /\ UNCHANGED <<received, answered, alive, late>>

-----------------------------------------------------------------------------
(* Reading *)

Available == answered - call.read
CanRead == Available > 0 \/ ~alive

\* ReadHttpStatus, with TimedRead (PerformIo): exactly StatusSize bytes, tried
\* until the deadline; the end of the stream is read as 0 bytes, over and over.
ReadStatus(count) ==
  /\ call.at = "status" /\ call.done # StatusSize /\ ~late
  /\ CanRead
  /\ count \in 0..Available /\ (count = 0 => Available = 0)
  /\ call.done + count <= StatusSize
  /\ call' = [call EXCEPT !.done = @ + count, !.read = @ + count]
  /\ UNCHANGED <<received, answered, alive, late>>

Expired == late

\* PerformIo's result.
AllRead(done, size) == done = size

StatusRead ==
  /\ call.at = "status"
  /\ call.done = StatusSize \/ Expired
  /\ call' = IF AllRead(call.done, StatusSize)
             THEN [call EXCEPT !.at = "header", !.done = 0]
             ELSE Return("failed to read")
  /\ UNCHANGED <<received, answered, alive, late>>

\* ReadHttpBody's first loop: whatever there is, up to the buffer's size,
\* until the header is complete.  Only poll looks at the clock, and it reports
\* the end of the stream as readable.
ReadHeader(count) ==
  /\ call.at = "header" /\ call.done < call.header
  /\ CanRead
  /\ count \in 0..Available /\ (count = 0 => Available = 0)
  /\ call.done + count <= MaxHeaderSize
  /\ call' = IF call.done + count < call.header /\ call.done + count = MaxHeaderSize
             THEN Return("failed to read")
             ELSE [call EXCEPT !.done = @ + count, !.read = @ + count]
  /\ UNCHANGED <<received, answered, alive, late>>

HeaderTimesOut ==
  /\ call.at = "header" /\ call.done < call.header
  /\ late /\ ~CanRead
  /\ call' = Return("failed to read")
  /\ UNCHANGED <<received, answered, alive, late>>

\* What came with the header is the beginning of the body.
HeaderRead ==
  /\ call.at = "header" /\ call.done >= call.header
  /\ call' = [call EXCEPT !.at = "body", !.done = @ - call.header]
  /\ UNCHANGED <<received, answered, alive, late>>

ReadBody(count) ==
  /\ call.at = "body" /\ call.done # BodySize /\ ~late
  /\ CanRead
  /\ count \in 0..Available /\ (count = 0 => Available = 0)
  /\ call.done + count <= BodySize
  /\ call' = [call EXCEPT !.done = @ + count, !.read = @ + count]
  /\ UNCHANGED <<received, answered, alive, late>>

BodyRead ==
  /\ call.at = "body"
  /\ call.done = BodySize \/ Expired
  /\ call' = Return(IF AllRead(call.done, BodySize) THEN "answered"
                    ELSE "failed to read")
  /\ UNCHANGED <<received, answered, alive, late>>

-----------------------------------------------------------------------------
(* External: the daemon and the clock *)

DaemonAnswers(count) ==
  /\ alive /\ received = WholeRequest
  /\ count \in 1..(AnswerSize - answered)
  /\ answered' = answered + count
  /\ UNCHANGED <<call, received, alive, late>>

DaemonCloses ==
  /\ alive /\ call.at # "connect"
  /\ alive' = FALSE
  /\ UNCHANGED <<call, received, answered, late>>

\* Reckoned from the moment the connection is there.
DeadlinePasses ==
  /\ ~late /\ call.at # "connect"
  /\ late' = TRUE
  /\ UNCHANGED <<call, received, answered, alive>>

-----------------------------------------------------------------------------

CallInit ==
  /\ \E header \in HeaderSizes :
       call = [at |-> "connect", iov |-> [first |-> 1, last |-> 0], next |-> 1,
               bytes_written |-> 0, done |-> 0, read |-> 0, header |-> header,
               result |-> "none"]
  /\ received = <<>> /\ answered = 0
  /\ alive = TRUE /\ late = FALSE

CallStep ==
  \/ \E count \in 1..RequestSize : WriteSome(count)
  \/ OpenConnectionTo \/ RoundWritten \/ WriteFails
  \/ \E count \in 0..answered :
       ReadStatus(count) \/ ReadHeader(count) \/ ReadBody(count)
  \/ StatusRead \/ HeaderTimesOut \/ HeaderRead \/ BodyRead

CallNext ==
  \/ CallStep
  \/ \E count \in 1..AnswerSize : DaemonAnswers(count)
  \/ DaemonCloses \/ DeadlinePasses

-----------------------------------------------------------------------------
(* Properties *)

CallTypeOK ==
  /\ call.at \in {"connect", "write", "status", "header", "body", "returned"}
  /\ call.result \in {"none", "answered", "failed to connect", "failed to write",
                      "failed to read", "killed"}
  /\ (call.at = "returned") <=> (call.result # "none")
  /\ call.bytes_written \in 0..RoundSize /\ call.read \in 0..answered
  /\ answered \in 0..AnswerSize /\ alive \in BOOLEAN /\ late \in BOOLEAN

\* However the kernel cuts the gathered buffers, the daemon gets the bytes of
\* the request in order, none twice and none left out; and no round of writev
\* ends before its buffers are sent.
RequestIntact ==
  /\ IsPrefix(received, WholeRequest)
  /\ call.at \in {"status", "header", "body"} => received = WholeRequest

\* A call that gives its caller a body gives the daemon's whole answer to the
\* whole request, however the reads were cut and whoever died in between.
AnswerWhole ==
  call.result = "answered" => call.read = AnswerSize /\ received = WholeRequest

\* The daemon died in the middle of the header of its answer.
CutInHeader ==
  /\ ~alive /\ call.at = "header" /\ call.done < call.header
  /\ answered < StatusSize + call.header

\* Every call returns, by its deadline if not before, unless the connection
\* ended inside the header of the answer: there the wrapper spins.
CallReturns == <>(call.at = "returned" \/ CutInHeader)
=============================================================================
