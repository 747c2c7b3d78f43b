--------------------------- MODULE FakeRootLibrary ---------------------------
(* The library that is preloaded into the preprocessor, and how wrappers      *)
(* extract it to the user's home directory: src/yadcc/client/cxx/             *)
(* libfakeroot.cc.                                                            *)
(*                                                                            *)
(* Any number of wrappers start at a time, of one build or of two, and are    *)
(* killed at any point.  A file is known by the build that wrote it and by    *)
(* the bytes that are there.                                                  *)
EXTENDS Integers

CONSTANTS
    Wrappers,
    Build,          \* the build each wrapper is of
    PayloadSize     \* the size of the library of each build

VARIABLES
    library,    \* ~/.yadcc/lib/libfakeroot.so
    writing,    \* libfakeroot.so.writing
    lock,       \* who has the flock, or nobody
    wrapper     \* where each wrapper is

libraryVars == <<library, writing, lock, wrapper>>

NoFile == [build |-> 0, bytes |-> 0]
Nobody == "nobody"

ASSUME WrappersAssumption == Nobody \notin Wrappers

Payload(w) == PayloadSize[Build[w]]

LibraryInit ==
    /\ library = NoFile /\ writing = NoFile
    /\ lock = Nobody
    /\ wrapper = [w \in Wrappers |-> "start"]

At(w, place, next) ==
    /\ wrapper[w] = place
    /\ wrapper' = [wrapper EXCEPT ![w] = next]

(* GetLibFakeRootPath: a library of the right size will do.                   *)
RightSize(w) == library # NoFile /\ library.bytes = Payload(w)

GetLibFakeRootPath(w) ==
    /\ At(w, "start", IF RightSize(w) THEN "ready" ELSE "lock")
    /\ UNCHANGED <<library, writing, lock>>

(* Mutant: the lock file is opened and not locked.                            *)
OpenOnly(w) == UNCHANGED lock

Flock(w) == lock = Nobody /\ lock' = w

LockForExtraction(w) ==
    /\ At(w, "lock", "open")
    /\ Flock(w)
    /\ UNCHANGED <<library, writing>>

(* WriteAll: what an earlier wrapper may have left is truncated.              *)
OpenTemporary(w) ==
    /\ At(w, "open", "write")
    /\ writing' = [build |-> Build[w], bytes |-> 0]
    /\ UNCHANGED <<library, lock>>

WriteAll(w) ==
    /\ writing.bytes < Payload(w)
    /\ At(w, "write", IF writing.bytes + 1 = Payload(w) THEN "rename" ELSE "write")
    /\ writing' = [writing EXCEPT !.bytes = @ + 1]
    /\ UNCHANGED <<library, lock>>

Rename(w) ==
    /\ At(w, "rename", "unlock")
    /\ library' = writing
    /\ writing' = NoFile
    /\ UNCHANGED lock

UnlockForExtraction(w) ==
    /\ At(w, "unlock", "check")
    /\ lock' = IF lock = w THEN Nobody ELSE lock
    /\ UNCHANGED <<library, writing>>

(* The size is checked after the lock is gone; a failure ends the process.    *)
CheckExtracted(w) ==
    /\ At(w, "check", IF RightSize(w) THEN "ready" ELSE "crashed")
    /\ UNCHANGED <<library, writing, lock>>

ExtractLibFakeRootTo(w) ==
    \/ LockForExtraction(w) \/ OpenTemporary(w) \/ WriteAll(w) \/ Rename(w)
    \/ UnlockForExtraction(w) \/ CheckExtracted(w)

(* The lock goes with its owner.                                              *)
KillWrapper(w) ==
    /\ wrapper[w] \notin {"killed", "crashed"}
    /\ wrapper' = [wrapper EXCEPT ![w] = "killed"]
    /\ lock' = IF lock = w THEN Nobody ELSE lock
    /\ UNCHANGED <<library, writing>>

LibraryNext ==
    \E w \in Wrappers :
      GetLibFakeRootPath(w) \/ ExtractLibFakeRootTo(w) \/ KillWrapper(w)

LibrarySpec == LibraryInit /\ [][LibraryNext]_libraryVars

(* Nobody can load a torn library ("he/she should either see the old one, or  *)
(* the new one, but not a corrupted one"), and once a wrapper is ready there  *)
(* is one, even if the wrapper that was writing it is killed.  A wrapper's    *)
(* own check fails only if wrappers of another build are about.               *)
LibraryWhole ==
    /\ library # NoFile => library.bytes = PayloadSize[library.build]
    /\ (\E w \in Wrappers : wrapper[w] = "ready") => library # NoFile
    /\ \A w \in Wrappers : wrapper[w] = "crashed" =>
         \E v \in Wrappers : Payload(v) # Payload(w)
=============================================================================
