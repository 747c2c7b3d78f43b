------------------------------- MODULE Streams -------------------------------
(* What leaves the wrapper in pieces: the preprocessed source, compressed and *)
(* hashed as it comes (client/common/output_stream.{h,cc}), and the command   *)
(* line that a shell of the servant takes apart again                         *)
(* (client/common/rewritten_args.cc, escape.cc).                              *)
EXTENDS Integers, Sequences, SequencesExt

CONSTANT ChunkSize      \* kChunkSize

-----------------------------------------------------------------------------
(* ZSTD_compressStream2, as a delay line: it holds back up to `keep' bytes,   *)
(* writes what the chunk has room for and leaves the input it cannot hold.    *)
Least(a, b) == IF a < b THEN a ELSE b

CompressStream2(held, in, room, keep) ==
    LET all == held \o in
        more == Len(all) - keep
        out == IF more < 0 THEN 0 ELSE Least(more, room)
        rest == SubSeq(all, out + 1, Len(all))
        hold == Least(Len(rest), IF keep > Len(held) THEN keep ELSE Len(held))
    IN  [out |-> SubSeq(all, 1, out), held |-> SubSeq(rest, 1, hold),
         in |-> SubSeq(rest, hold + 1, Len(rest))]

(* One turn of the loops of Write and FlushCompressorBuffer: a new chunk if   *)
(* the last one is full, and whatever the compressor puts there.              *)
CompressTurn(stream, in, keep) ==
    LET chunks == IF Len(Last(stream.chunks)) = ChunkSize
                    THEN Append(stream.chunks, <<>>) ELSE stream.chunks
        step == CompressStream2(stream.held, in,
                                ChunkSize - Len(Last(chunks)), keep)
    IN  [chunks |-> Append(Front(chunks), Last(chunks) \o step.out),
         held |-> step.held, in |-> step.in]

(* Turns until nothing is left of the input or of what is held back.  As many *)
(* as there are bytes are enough.                                             *)
Turns(stream, bytes, keep, left) ==
    FoldLeft(LAMBDA s, i : IF s[left] = <<>> THEN s
                           ELSE CompressTurn(s, s.in, keep),
             [chunks |-> stream.chunks, held |-> stream.held, in |-> bytes],
             [i \in 1 .. Len(stream.held) + Len(bytes) + 1 |-> i])

Write(stream, bytes, keep) == Turns(stream, bytes, keep, "in")

FlushCompressorBuffer(stream) ==
    Turns(CompressTurn(stream, <<>>, 0), <<>>, 0, "held")

FlushAndGet(stream) == FlattenSeq(FlushCompressorBuffer(stream).chunks)

(* ForwardingOutputStream: the compressor and the hasher (or the transparent  *)
(* stream) are written to in turn.                                            *)
Forwarded(writes, keep) ==
    LET streams == FoldLeft(LAMBDA s, bytes :
                              [zstd |-> Write(s.zstd, bytes, keep),
                               plain |-> s.plain \o bytes],
                            [zstd |-> [chunks |-> <<(<<>>)>>, held |-> <<>>,
                                       in |-> <<>>],
                             plain |-> <<>>], writes)
    IN  [compressed |-> FlushAndGet(streams.zstd), hashed |-> streams.plain]

-----------------------------------------------------------------------------
(* Command lines.  Of the control characters there is a tab; the characters   *)
(* that mean something to the shell stand for their kinds.                    *)
Escaped == {" ", "$", "double quote", "backslash"}
Unescaped == {"single quote", "|"}

EscapeCommandArgument(arg) ==
    FlattenSeq([i \in DOMAIN arg |->
      IF arg[i] = "tab" THEN <<"backslash", "t">>
      ELSE IF arg[i] \in Escaped THEN <<"backslash", arg[i]>> ELSE <<arg[i]>>])

(* A space after every argument, and the last space removed.                  *)
ToCommandLine(args) ==
    LET text == FlattenSeq([i \in DOMAIN args |->
                              EscapeCommandArgument(args[i]) \o <<" ">>])
    IN  IF text = <<>> THEN text ELSE Front(text)

(* How sh reads it, as far as it has no quotes: words at spaces, a backslash  *)
(* keeps what follows it as it is.                                            *)
ShellWords(text) ==
    FoldLeft(LAMBDA s, c :
               IF s.quoted THEN [s EXCEPT !.quoted = FALSE, !.in = TRUE,
                                          !.word = Append(@, c)]
               ELSE IF c = "backslash" THEN [s EXCEPT !.quoted = TRUE]
               ELSE IF c = " "
                 THEN [s EXCEPT !.words = IF s.in THEN Append(@, s.word) ELSE @,
                                !.word = <<>>, !.in = FALSE]
               ELSE [s EXCEPT !.word = Append(@, c), !.in = TRUE],
             [words |-> <<>>, word |-> <<>>, in |-> FALSE, quoted |-> FALSE],
             Append(text, " ")).words

-----------------------------------------------------------------------------

(* However the preprocessor's output is cut and whatever the compressor holds *)
(* back, what is sent is all of it, in order, and the digest is of the same   *)
(* bytes: a chunk that is full, or filled by the last flush, loses nothing.   *)
StreamsAgree(writes, sent) ==
    /\ sent.compressed = FlattenSeq(writes)
    /\ sent.hashed = sent.compressed

(* The compiler of the servant gets the arguments the wrapper had, but for    *)
(* empty ones (the wrapper adds one where -fdirectives-only is not wanted),   *)
(* unless one has a character the shell treats in a way of its own.           *)
ArgumentsKept(args, words) ==
    (\A i \in DOMAIN args : ToSet(args[i]) \cap (Unescaped \cup {"tab"}) = {})
      => words = SelectSeq(args, LAMBDA arg : arg # <<>>)
=============================================================================
