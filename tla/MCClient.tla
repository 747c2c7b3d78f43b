------------------------------ MODULE MCClient ------------------------------
(* The wrapper, one of its layers per behaviour: processes that ask for       *)
(* permission, preprocess, compile in the cloud or here; a call to the        *)
(* daemon; a program on three pipes; one of the algorithms on one sample; the *)
(* compiler and the preloaded library that wrappers of one machine share.     *)
EXTENDS CompilerClient, WrapperIo, Formats, SharedFiles

VARIABLE part

ioVars == <<callVars, childVars, formatVars, sharedVars>>
allVars == <<part, vars, ioVars>>

\* Two wrappers of one build and one of the next.
MCBuild == [w1 |-> 1, w2 |-> 1, w3 |-> 2]
MCPayloadSize == <<2, 3>>
MCMonthDays == <<31, 28, 31, 30>>

MCParts == <<2, 0, 1, 2>>

\* Nulls, the prefix's two bytes, another byte.
MCPrefix == <<1, 2>>
Strings(alphabet, max) == UNION {[1..n -> alphabet] : n \in 0..max}
Files == {f \in Strings({Null, 1, 2}, 6) : Len(f) >= 2}
  \cup {MCPrefix \o f \o <<Null>> : f \in [1..4 -> {Null, 1, 2}]}

MCOptions == {"-o", "-MF", "-Iinc", "-c", "-x"}
MCOneValueArguments == {"-o", "-MF", "-x"}
MCIgnoredArgs == {"-o", "-MF", "-Iinc"}
CommandLines ==
  {argv \in Strings(MCOptions \cup {"a.cc"}, 4) :
     argv # <<>> =>
       LET value[i \in 1..Len(argv)] ==
             i > 1 /\ argv[i - 1] \in MCOneValueArguments /\ ~value[i - 1]
       IN argv[Len(argv)] \in MCOneValueArguments => value[Len(argv)]}

Chunks == Strings(Strings({1, 2}, 2), 2) \cup {<<<<1>>, <<>>, <<2, 1>>>>}
Shards == {"d1", "d2", "d3"}

\* Parts that may end as the next one begins; the last argument is always "-",
\* and a delegate has no digest of a source that is not to be cached.
Dash == 3
Compilations(sources) ==
  {[compiler |-> c, arguments |-> Append(a, Dash), source |-> s] :
     c \in {<<1, 1>>, <<1, 2>>}, a \in Strings({1, Dash}, 2), s \in sources}
SourceDigests == {<<1, 1>>, <<2, 1>>}
Roots == {<<"/", "opt", "/", "gcc">>, <<"/", "opt", "/", "gcc", "8">>,
          <<"/", "opt", "/", "rh", "/", "gcc">>, <<"/", "usr">>}
Headers == {<<"/", "lib", "/", "a.h">>, <<"8", "/", "lib", "/", "a.h">>}
Aliens == {r \o h : r \in Roots, h \in Headers} \cup {<<"a.h">>}
Dates == {d \in [mon : 1..3, day : {1, 2, 27, 28, 29, 30, 31}] :
            d.day <= MCMonthDays[d.mon]}
Machines == [nprocs : {1, 2, 16, 17, 64}, dedicated : BOOLEAN, cgroup : BOOLEAN,
             flag : {-1, 0, 3}]
TreeNames == Strings({"a", "b"}, 3) \ {<<>>}
Shapes == {n \in SUBSET TreeNames :
             Cardinality(n) <= 4 /\ \A x \in n : Len(x) > 1 => Front(x) \in n}
Trees == {t \in UNION {[names -> {DirType, RegularType, LinkType}] : names \in Shapes} :
            \A n \in DOMAIN t : Len(n) > 1 => t[Front(n)] = DirType}
Filenames == {d \o f : d \in {<<>>, <<"/">>, <<"d", "/">>, <<"d", ".", "x", "/">>},
                       f \in {<<"a", ".", "cc">>, <<"a", ".", "b", ".", "cc">>, <<"a">>}}

QuantitySamples ==
       {[kind |-> "size", text |-> t] :
          t \in Strings({"zero", "three", "nine", "B", "K", "M", "x"}, 3) \ {<<>>}}
  \cup {[kind |-> "offer", machine |-> m] : m \in Machines}
  \cup UNION {{[kind |-> "load", nprocs |-> n, idle |-> s, interval |-> i] :
                 s \in Strings(0..n, 5), i \in 1..3} : n \in {1, 2}}
  \cup {[kind |-> "age", x |-> x, y |-> y] : x \in Dates, y \in Dates}

PathSamples ==
       {[kind |-> "identity", t |-> t, u |-> u] :
          t \in Compilations({<<>>} \cup SourceDigests),
          u \in Compilations(SourceDigests)}
  \cup {[kind |-> "location", root |-> r, other |-> o, header |-> h, alien |-> a] :
          r \in Roots, o \in Roots, h \in Headers, a \in Aliens}
  \cup {[kind |-> "output", filename |-> f,
         suffixes |-> {<<".", "o">>, <<".", "gcno">>}] : f \in Filenames}
  \cup {[kind |-> "tree", tree |-> t] : t \in Trees}

StreamSamples ==
       {[kind |-> "stream", writes |-> w, keep |-> k] :
          w \in Strings(Strings({1, 2}, 3), 2) \cup
                {<<a, b, <<1, 2>>>> : a, b \in {<<1>>, <<1, 2>>, <<1, 2, 1, 2, 1>>}},
          k \in 0..3}
  \cup {[kind |-> "command", args |-> a] :
          a \in Strings(Strings({"a", " ", "$", "backslash", "tab"}, 2), 2)}

MCSamples ==
       {[kind |-> "args", argv |-> a, add |-> <<"-fpreprocessed">>] : a \in CommandLines}
  \cup {[kind |-> k, parts |-> p, cut |-> c] :
          k \in {"to_daemon", "to_wrapper"}, p \in Chunks, c \in {0, 1}}
  \cup {[kind |-> "entry", entry |-> [meta |-> m, files |-> f], cut |-> c] :
          m \in Strings({1, 2}, 3), f \in Strings({1, 2}, 5), c \in {0, 1}}
  \cup {[kind |-> "patch", file |-> f, path |-> p] :
          f \in Files, p \in {<<3>>, <<3, 3>>, <<3, 3, 3>>}}
  \cup {[kind |-> "hash", hashes |-> [s \in Shards |-> {k \in 0..4 : n[k] = s}],
         hash |-> h] : n \in {m \in [0..4 -> Shards] : Shards = {m[i] : i \in 0..4}},
                       h \in 0..5}
  \cup QuantitySamples \cup PathSamples \cup StreamSamples

NoFormat == sample = [kind |-> "none"] /\ result = <<>>

WrapperInit ==
  /\ Init /\ CallInit /\ ChildInit /\ DigestInit /\ LibraryInit
  /\ part \in {"processes", "call", "child", "format", "digests", "library"}
  /\ part # "call" => call.header = 2
  /\ part # "digests" => ~link
  /\ IF part = "format" THEN FormatInit ELSE NoFormat

In(p) == part = p /\ UNCHANGED part
Call == In("call") /\ UNCHANGED <<vars, childVars, formatVars, sharedVars>>
Child == In("child") /\ UNCHANGED <<vars, callVars, formatVars, sharedVars>>
Wrapped == UNCHANGED <<vars, callVars, childVars>>

WrapperNext ==
  \/ In("processes") /\ Next /\ UNCHANGED ioVars
  \/ Call /\ CallNext
  \/ Child /\ ChildNext
  \/ In("format") /\ Compute /\ Wrapped /\ UNCHANGED sharedVars
  \/ In("digests") /\ DigestNext /\ Wrapped /\ UNCHANGED <<formatVars, libraryVars>>
  \/ In("library") /\ LibraryNext /\ Wrapped /\ UNCHANGED <<formatVars, digestVars>>

\* The fairness of CompilerClient (in the other parts nothing it names is
\* enabled); the wrapper and the programs it runs go on; time passes.
WrapperSpec ==
  /\ WrapperInit /\ [][WrapperNext]_allVars
  /\ Fairness
  /\ WF_allVars(Call /\ CallStep) /\ WF_allVars(Call /\ DeadlinePasses)
  /\ WF_allVars(Child /\ LoopStep) /\ WF_allVars(Child /\ ProgramStep)

(* A call ends once the daemon answers, closes or is too late (CallReturns),  *)
(* and so does the loop that serves a program's pipes (LoopEnds).             *)
IoTerminates == (part = "call" => CallReturns) /\ (part = "child" => LoopEnds)
=============================================================================
