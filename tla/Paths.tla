-------------------------------- MODULE Paths --------------------------------
(* Names and paths: what a compilation is known by to the cache and to other  *)
(* delegates (daemon/task_digest.cc, daemon/cache_format.cc), where compiler  *)
(* and headers seem to be (client/cxx/rewrite_file.cc, libfakeroot/           *)
(* fakeroot.c), where the results go (client/cxx/compiler_args.cc,            *)
(* yadcc-cxx.cc), and what a servant finds in the directory its compiler      *)
(* wrote to (common/dir.cc, daemon/cloud/temporary_dir.cc).                   *)
(*                                                                            *)
(* A path is a sequence of characters and of whole names: <<"/", "opt", "/",  *)
(* "gcc", "8">> is /opt/gcc8.                                                 *)
EXTENDS Integers, Sequences, FiniteSets, SequencesExt

CONSTANT PathMax    \* PATH_MAX

-----------------------------------------------------------------------------
(* GetCxxTaskDigest and GetCxxCacheEntryKey: Blake3 of all the parts at once, *)
(* that is of what they are when put together.  A digest is a sequence of a   *)
(* fixed length; a source whose caching is disallowed has an empty one.       *)
Joined(compiler, arguments, source) == compiler \o arguments \o source

GetCxxTaskDigest(t) == <<"cxx2">> \o Joined(t.compiler, t.arguments, t.source)

GetCxxCacheEntryKey(t) ==
    <<"using-extra-info">> \o Joined(t.compiler, t.arguments, t.source)

-----------------------------------------------------------------------------
(* Where the compiler seems to be.                                            *)

LastOf(path, c) == SelectLastInSeq(path, LAMBDA x : x = c)

FakeRoot == <<"/", "yadcc", "/", "compiler">>

(* What the wrapper tells the library to replace: nothing if coverage is      *)
(* wanted, for some well-known places, and if the compiler is not in a bin.   *)
GetCompilerPathIfNeedsPatch(compiler, coverage) ==
    LET slash == LastOf(compiler, "/")
        dir == IF slash = 0 THEN compiler ELSE SubSeq(compiler, 1, slash - 1)
    IN  IF \/ coverage
           \/ IsPrefix(<<"/", "usr", "/", "bin", "/">>, dir)
           \/ IsPrefix(<<"/", "opt", "/", "rh", "/">>, dir)
           \/ ~IsSuffix(<<"/", "bin">>, dir)
          THEN <<>> ELSE SubSeq(dir, 1, Len(dir) - 2)

(* fprintf of the library, for the path of a linemarker.                      *)
Printed(path, self) ==
    IF Len(path) >= PathMax \/ self = <<>> \/ ~IsPrefix(self, path) THEN path
    ELSE FakeRoot \o SubSeq(path, Len(self) + 1, Len(path))

-----------------------------------------------------------------------------
(* Where the results go.                                                      *)

UpToDot(name) ==
    IF LastOf(name, ".") = 0 THEN name ELSE SubSeq(name, 1, LastOf(name, ".") - 1)

(* CompilerArgs::GetOutputFile without -o.  A slash found at the very         *)
(* beginning (position 0) is taken for none.                                  *)
GetOutputFile(filename) ==
    LET path == UpToDot(filename)
        slash == LastOf(path, "/")
    IN  (IF slash = 1 THEN path ELSE SubSeq(path, slash + 1, Len(path)))
          \o <<".", "o">>

(* WriteCompilationResults: the name under which a file is written.           *)
WrittenAs(destination, suffix) ==
    IF suffix = <<".", "o">> THEN destination
    ELSE (IF IsSuffix(<<".", "o">>, destination)
            THEN SubSeq(destination, 1, Len(destination) - 2) ELSE destination)
         \o suffix

-----------------------------------------------------------------------------
(* What is in a directory.  A tree maps the (relative) name of everything in  *)
(* it to its d_type.                                                          *)
DirType == 4
RegularType == 8
LinkType == 10

(* type & bit.                                                                *)
Has(type, bit) == (type \div bit) % 2 = 1

DirEntry(tree, name) == [name |-> name, is_dir |-> Has(tree[name], 4),
                         is_regular |-> Has(tree[name], 8)]

EnumerateDir(tree, dir) ==
    LET names == {n \in DOMAIN tree : Len(n) = Len(dir) + 1 /\ IsPrefix(dir, n)}
    IN  [i \in 1 .. Cardinality(names) |-> DirEntry(tree, SetToSeq(names)[i])]

(* The queue of EnumerateDirRecursively: at most one turn for every entry.    *)
EnumerateDirRecursively(tree) ==
    LET Visit(s) ==
          LET entries == EnumerateDir(tree, Head(s.queue))
              dirs == SelectSeq(entries, LAMBDA e : e.is_dir)
          IN  [queue |-> Tail(s.queue) \o [i \in DOMAIN dirs |-> dirs[i].name],
               result |-> s.result \o entries]
    IN  FoldLeft(LAMBDA s, i : IF s.queue = <<>> THEN s ELSE Visit(s),
                 [queue |-> <<(<<>>)>>, result |-> <<>>],
                 [i \in 1 .. Cardinality(DOMAIN tree) + 1 |-> i]).result

(* TemporaryDir::ReadAll.                                                     *)
ReadAll(tree) ==
    LET files == SelectSeq(EnumerateDirRecursively(tree), LAMBDA e : e.is_regular)
    IN  [i \in DOMAIN files |-> files[i].name]

-----------------------------------------------------------------------------

(* A compilation of a delegate is taken for one that the cache or a servant   *)
(* has (which always know the source's digest) only if they are the same,     *)
(* although the parts are put together without separators and the delegate's  *)
(* source may have no digest; a task is never taken for an entry.             *)
IdentityExact(t, u, same) ==
    /\ same.task => t = u
    /\ same.entry => t = u
    /\ ~same.mixed

(* "This helps you to make content of preprocessed source code irrelevant to  *)
(* the location of the compiler": wherever it is installed (but in the places *)
(* left alone), its headers seem to be in one place, and no two headers in    *)
(* the same.                                                                  *)
Gcc(root) == root \o <<"/", "bin", "/", "g++">>

LocationHidden(s, seems) ==
    /\ seems.patched => seems.here = seems.there
    /\ s.alien # s.root \o s.header /\ ~IsPrefix(FakeRoot, s.alien)
         => seems.alien # seems.here

(* Without -o the object file is where the compiler itself would put it, in   *)
(* the current directory under the name of the source, for a source with an   *)
(* extension that is not in the root directory; and the files beside it have  *)
(* names of their own.                                                        *)
Base(filename) == SubSeq(filename, LastOf(filename, "/") + 1, Len(filename))

ResultsPlaced(filename, suffixes, destination) ==
    /\ LastOf(Base(filename), ".") > 1 /\ LastOf(filename, "/") # 1
         => destination = UpToDot(Base(filename)) \o <<".", "o">>
    /\ \A s, t \in suffixes : s # t =>
         WrittenAs(destination, s) # WrittenAs(destination, t)

(* Every file the compiler left, at whatever depth, is read once, and nothing *)
(* that is not a file (but a link counts as one).                             *)
EverythingRead(tree, names) ==
    /\ IsInjective(names)
    /\ ToSet(names) = {n \in DOMAIN tree : tree[n] # DirType}
=============================================================================
