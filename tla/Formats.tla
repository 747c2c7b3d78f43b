------------------------------ MODULE Formats -------------------------------
(***************************************************************************)
(* The pure algorithms on the way of a compilation: the command line and    *)
(* what is left of it for the cloud (client/cxx/compiler_args.cc), the      *)
(* multi-chunk messages between wrapper and daemon (client/common and       *)
(* daemon/local multi_chunk.cc), the entries of the cache                   *)
(* (daemon/cache_format.cc), the places in an object file that name the     *)
(* servant's directory and their repair by the wrapper                      *)
(* (cloud/remote_task/cxx_compilation_task.cc, client/cxx/                  *)
(* compilation_saas.cc), and the choice of a disk for a key                 *)
(* (common/consistent_hash); with those of Quantities, Paths and Streams.   *)
(*                                                                         *)
(* Strings are short sequences over small alphabets.  One behaviour takes   *)
(* one sample through its algorithm; the properties compare the result with *)
(* a definition that does not compute it.                                   *)
(***************************************************************************)
EXTENDS Integers, Sequences, FiniteSets, SequencesExt,
        Quantities, Paths, Streams

CONSTANTS
  Samples,      \* the samples: records with the kind of the algorithm
  Prefix,       \* the servant's path prefix
  MaxPath,      \* PATH_MAX
  SizeWidth,    \* bits of a size in the header of a cache entry (32)
  Options,      \* arguments that begin with '-'
  OneValueArguments,  \* options that take the next argument as their value
  IgnoredArgs   \* options that are not sent to the cloud, prefixes included

VARIABLES sample, result

formatVars == <<sample, result>>

Failed == [ok |-> FALSE]
Ok(value) == [ok |-> TRUE, value |-> value]

-----------------------------------------------------------------------------
(* Command lines *)

\* CompilerArgs: an option that takes a value is kept with it, whatever the
\* value looks like; what is no option is a file name.  The samples do not end
\* with an option that lacks its value: the loop would run past argc.
ParseArgs(argv) ==
  FoldLeft(LAMBDA a, arg :
             IF a.wants
             THEN [a EXCEPT !.wants = FALSE,
                            !.args = Append(Front(@), <<Last(@)[1], arg>>)]
             ELSE IF arg \in Options
             THEN [a EXCEPT !.wants = arg \in OneValueArguments,
                            !.args = Append(@, <<arg>>)]
             ELSE [a EXCEPT !.filenames = Append(@, arg)],
           [args |-> <<>>, filenames |-> <<>>, wants |-> FALSE], argv)

DropIgnored(arg) == IF arg[1] \in IgnoredArgs THEN <<>> ELSE arg

\* CompilerArgs::Rewrite as SubmitCompilationTask uses it: options in their
\* order without the ignored ones, then the added ones; no file names.
Rewrite(argv, add) ==
  LET args == ParseArgs(argv).args
  IN FlattenSeq([i \in 1..Len(args) |-> DropIgnored(args[i])]) \o add

-----------------------------------------------------------------------------
(* Multi-chunk messages *)

\* MakeMultiChunk and MakeMultiChunkHeader: the sizes, then the parts.
MakeMultiChunk(parts) ==
  [sizes |-> [i \in 1..Len(parts) |-> Len(parts[i])],
   bytes |-> FlattenSeq(parts)]

Sum(sizes) == FoldLeft(LAMBDA a, b : a + b, 0, sizes)

Cut(bytes, sizes) ==
  [i \in 1..Len(sizes) |->
     LET before == Sum(SubSeq(sizes, 1, i - 1))
         end == before + sizes[i]
     IN SubSeq(bytes, before + 1, IF end < Len(bytes) THEN end ELSE Len(bytes))]

Exactly(sizes, bytes) == Sum(sizes) = Len(bytes)

\* TryParseMultiChunk of either side: every size acceptable, and together the
\* bytes there are.
Split(message, least) ==
  IF /\ \A i \in 1..Len(message.sizes) : message.sizes[i] >= least
     /\ Exactly(message.sizes, message.bytes)
  THEN Ok(Cut(message.bytes, message.sizes)) ELSE Failed

\* The daemon takes any size; the wrapper takes none that is 0.
DaemonParses(message) == Split(message, 0)
WrapperParses(message) == Split(message, 1)

-----------------------------------------------------------------------------
(* Cache entries *)

\* WriteCacheEntry: the sizes of the description and of the files have 32 bits
\* in the header; the description carries a digest of the files.
WriteCacheEntry(entry) ==
  [meta_size |-> Len(entry.meta) % 2^SizeWidth,
   files_size |-> Len(entry.files) % 2^SizeWidth,
   digest |-> entry.files,
   bytes |-> entry.meta \o entry.files]

SameDigest(wire, files) == files = wire.digest

\* TryParseCacheEntry: too few bytes, or files with another digest, are no
\* entry; bytes beyond the files are not looked at.
TryParseCacheEntry(wire) ==
  LET meta == SubSeq(wire.bytes, 1, wire.meta_size)
      files == SubSeq(wire.bytes, wire.meta_size + 1,
                      wire.meta_size + wire.files_size)
  IN IF /\ Len(wire.bytes) >= wire.meta_size + wire.files_size
        /\ SameDigest(wire, files)
     THEN Ok([meta |-> meta, files |-> files]) ELSE Failed

-----------------------------------------------------------------------------
(* Paths in object files *)

Null == 0

\* The first position from start on at which pattern is found, or one past the
\* end (std::search).
Find(file, pattern, start) ==
  LET at == {p \in start..(Len(file) - Len(pattern) + 1) :
               SubSeq(file, p, p + Len(pattern) - 1) = pattern}
  IN IF at = {} THEN Len(file) + 1
     ELSE CHOOSE p \in at : \A q \in at : p <= q

\* One turn of FindAllPathLocation's loop, from start: a match that is not the
\* beginning of a null-terminated string of at most PATH_MAX bytes is skipped.
NextLocation(file, start) ==
  LET pos == Find(file, Prefix, start)
      end == Find(file, <<Null>>, pos)
      found == end <= Len(file) /\ end - pos <= MaxPath
  IN [start |-> end,
      locations |-> IF pos <= Len(file) /\ found
                    THEN <<[position |-> pos, total_size |-> end - pos,
                            suffix_to_keep |-> end - pos - Len(Prefix)]>>
                    ELSE <<>>]

\* The loop ends after at most as many turns as there are bytes.
FindAllPathLocation(file) ==
  FoldLeft(LAMBDA a, i : LET next == NextLocation(file, a.start)
                         IN [start |-> next.start,
                             locations |-> a.locations \o next.locations],
           [start |-> 1, locations |-> <<>>],
           [i \in 1..Len(file) |-> i]).locations

\* Mutant: the rest of the old string is left as it is.
KeepRest(file, loc, path) ==
  [k \in 1..Len(file) |->
     LET n == k - loc.position
     IN IF n \in 0..(Len(path) - 1) THEN path[n + 1]
        ELSE IF n \in Len(path)..(Len(path) + loc.suffix_to_keep - 1)
        THEN file[loc.position + loc.total_size - loc.suffix_to_keep + n - Len(path)]
        ELSE file[k]]

\* memcpy of the path, memmove of the suffix, memset of the rest.
PatchOne(file, loc, path) ==
  [k \in 1..Len(file) |->
     LET n == k - loc.position
     IN IF n \in 0..(Len(path) - 1) THEN path[n + 1]
        ELSE IF n \in Len(path)..(Len(path) + loc.suffix_to_keep - 1)
        THEN file[loc.position + loc.total_size - loc.suffix_to_keep + n - Len(path)]
        ELSE IF n \in (Len(path) + loc.suffix_to_keep)..(loc.total_size - 1)
        THEN Null ELSE file[k]]

\* PatchPathOccurrences.  A path that fits only without the suffix makes the
\* memset's size wrap around; what happens then is undefined.
PatchPathOccurrences(file, locations, path) ==
  IF \E i \in 1..Len(locations) : Len(path) > locations[i].total_size THEN Failed
  ELSE IF \E i \in 1..Len(locations) :
            Len(path) + locations[i].suffix_to_keep > locations[i].total_size
  THEN [ok |-> FALSE, overrun |-> TRUE]
  ELSE Ok(FoldLeft(LAMBDA f, loc : PatchOne(f, loc, path), file, locations))

-----------------------------------------------------------------------------
(* Consistent hashing *)

\* ConsistentHash: the virtual nodes of every shard on a ring.
Ring(hashes) ==
  UNION {{[hash |-> h, shard |-> s] : h \in hashes[s]} : s \in DOMAIN hashes}

\* GetNode: the first node at or after the key's hash, or the very first.
GetNode(ring, hash) ==
  LET after == {n \in ring : n.hash >= hash}
      from == IF after = {} THEN ring ELSE after
  IN CHOOSE n \in from : \A m \in from : n.hash <= m.hash

-----------------------------------------------------------------------------

Computed(s) ==
  CASE s.kind = "args" -> Rewrite(s.argv, s.add)
    [] s.kind = "to_daemon" -> DaemonParses([MakeMultiChunk(s.parts) EXCEPT
                                  !.bytes = SubSeq(@, 1, Len(@) - s.cut)])
    [] s.kind = "to_wrapper" -> WrapperParses([MakeMultiChunk(s.parts) EXCEPT
                                  !.bytes = SubSeq(@, 1, Len(@) - s.cut)])
    [] s.kind = "entry" -> TryParseCacheEntry([WriteCacheEntry(s.entry) EXCEPT
                                  !.bytes = SubSeq(@, 1, Len(@) - s.cut)])
    [] s.kind = "patch" -> PatchPathOccurrences(s.file,
                                  FindAllPathLocation(s.file), s.path)
    [] s.kind = "hash" -> GetNode(Ring(s.hashes), s.hash).shard
    [] s.kind = "size" -> TryParseSize(s.text)
    [] s.kind = "offer" -> GetMaximumTasks(s.machine)
    [] s.kind = "load" -> TryGetProcessorLoad(s.nprocs, IdleTimes(s.idle), s.interval)
    [] s.kind = "age" -> FromIso8601Timestamp(s.x) - FromIso8601Timestamp(s.y)
    [] s.kind = "identity" ->
         [task |-> GetCxxTaskDigest(s.t) = GetCxxTaskDigest(s.u),
          entry |-> GetCxxCacheEntryKey(s.t) = GetCxxCacheEntryKey(s.u),
          mixed |-> GetCxxTaskDigest(s.t) = GetCxxCacheEntryKey(s.u)]
    [] s.kind = "location" ->
         LET self == GetCompilerPathIfNeedsPatch(Gcc(s.root), FALSE)
             elsewhere == GetCompilerPathIfNeedsPatch(Gcc(s.other), FALSE)
         IN [patched |-> self # <<>> /\ elsewhere # <<>>,
             here |-> Printed(s.root \o s.header, self),
             there |-> Printed(s.other \o s.header, elsewhere),
             alien |-> Printed(s.alien, self)]
    [] s.kind = "output" -> GetOutputFile(s.filename)
    [] s.kind = "tree" -> ReadAll(s.tree)
    [] s.kind = "stream" -> Forwarded(s.writes, s.keep)
    [] s.kind = "command" -> ShellWords(ToCommandLine(s.args))

\* result is empty until it is computed.
FormatInit == sample \in Samples /\ result = <<>>

Compute ==
  /\ result = <<>>
  /\ result' = <<Computed(sample)>>
  /\ UNCHANGED sample

-----------------------------------------------------------------------------
(* Properties *)

Is(kind) == result # <<>> /\ sample.kind = kind

\* An argument is the value of the one before it.
IsValue(argv) ==
  LET value[i \in 1..Len(argv)] ==
        i > 1 /\ argv[i - 1] \in OneValueArguments /\ ~value[i - 1]
  IN value

\* The cloud gets every option the wrapper was given, in order and with its
\* value, but for the ignored ones and their values, and no file name: not
\* even a value that looks like an ignored option confuses it.
RewritesExactly ==
  Is("args") =>
    LET argv == sample.argv
        value == IsValue(argv)
        Kept(i) == IF value[i] THEN argv[i - 1] \notin IgnoredArgs
                   ELSE argv[i] \in Options \ IgnoredArgs
        kept == SetToSortSeq({i \in 1..Len(argv) : Kept(i)}, <)
    IN result[1] = [k \in 1..Len(kept) |-> argv[kept[k]]] \o sample.add

\* What one side writes the other reads back part by part, or, when bytes are
\* missing (or, by the wrapper, when a part is empty), not at all: a message is
\* never split in the wrong places.
ChunksExact ==
  /\ (Is("to_daemon") \/ Is("to_wrapper")) /\ result[1].ok
       => result[1].value = sample.parts
  /\ Is("to_daemon") /\ sample.cut = 0 => result[1].ok
  /\ Is("to_wrapper") /\ sample.cut = 0 /\ <<>> \notin ToSet(sample.parts)
       => result[1].ok

\* A cache entry is read back as it was written or not at all, also when its
\* files are too long for the header or some bytes are missing.
EntryGenuine ==
  Is("entry") =>
    /\ result[1].ok => result[1].value = sample.entry
    /\ sample.cut = 0 /\ Len(sample.entry.files) < 2^SizeWidth => result[1].ok

\* The strings to repair, by what they are: the prefix begins them, nothing
\* before the prefix in the same string does, and a null ends them in time.
PathAt(file, p) ==
  LET end == Find(file, <<Null>>, p)
  IN /\ Find(file, Prefix, p) = p /\ p <= Len(file)
     /\ end <= Len(file) /\ end - p <= MaxPath
     /\ \A q \in 1..(p - 1) :
          Find(file, Prefix, q) = q => \E k \in q..(p - 1) : file[k] = Null

\* After the repair each such string is the wrapper's path and what followed
\* the prefix, ended by a null, and no other byte of the file has changed, as
\* long as the wrapper's path is no longer than the servant's.
PathsRepaired ==
  Is("patch") /\ Len(sample.path) <= Len(Prefix) =>
    LET file == sample.file
        End(p) == Find(file, <<Null>>, p)
        at == {p \in 1..Len(file) : PathAt(file, p)}
        new == result[1].value
        Wanted(p) == sample.path \o SubSeq(file, p + Len(Prefix), End(p) - 1)
    IN /\ result[1].ok /\ Len(new) = Len(file)
       /\ \A p \in at : SubSeq(new, p, p + Len(Wanted(p))) = Append(Wanted(p), Null)
       /\ \A k \in 1..Len(file) :
            (\A p \in at : k \notin p..(End(p) - 1)) => new[k] = file[k]

\* Taking a disk away moves no key of another disk.
OnlyItsKeysMove ==
  Is("hash") =>
    \A s \in DOMAIN sample.hashes \ {result[1]} :
      GetNode(Ring([t \in DOMAIN sample.hashes \ {s} |-> sample.hashes[t]]),
              sample.hash).shard = result[1]

\* Numbers: see Quantities.
QuantitiesExact ==
  /\ Is("size") => SizeExact(sample.text, result[1])
  /\ Is("offer") => OfferExplained(sample.machine, result[1])
  /\ Is("load") => LoadExact(sample.idle, sample.nprocs, sample.interval, result[1])
  /\ Is("age") => AgesOrdered(sample.x, sample.y, result[1])

\* Names and paths: see Paths.
PathsExact ==
  /\ Is("identity") => IdentityExact(sample.t, sample.u, result[1])
  /\ Is("location") => LocationHidden(sample, result[1])
  /\ Is("output") => ResultsPlaced(sample.filename, sample.suffixes, result[1])
  /\ Is("tree") => EverythingRead(sample.tree, result[1])

\* What is sent in pieces: see Streams.
StreamsExact ==
  /\ Is("stream") => StreamsAgree(sample.writes, result[1])
  /\ Is("command") => ArgumentsKept(sample.args, result[1])

\* Each of these algorithms does exactly what its callers take it to do.
FormatsExact ==
  /\ RewritesExactly /\ ChunksExact /\ EntryGenuine /\ PathsRepaired
  /\ OnlyItsKeysMove
  /\ QuantitiesExact /\ PathsExact /\ StreamsExact
=============================================================================
