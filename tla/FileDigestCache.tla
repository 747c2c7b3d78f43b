--------------------------- MODULE FileDigestCache ---------------------------
(* The digests of compilers that wrappers report to their daemon:             *)
(* src/yadcc/daemon/local/file_digest_cache.{h,cc}, Prepare of                *)
(* distributed_task/cxx_compilation_task.cc and SubmitCompilationTask of      *)
(* client/cxx/compilation_saas.cc.                                            *)
(*                                                                            *)
(* A wrapper looks at its compiler, submits, and if the daemon does not know  *)
(* that compiler, hashes it, reports the digest and submits again, while the  *)
(* compiler may be upgraded under it, other wrappers do the same and the      *)
(* daemon restarts.  There is one compiler; its content is the number of its  *)
(* version, and every file or link put at its path has a size and mtime of    *)
(* its own (mtime in seconds).                                                *)
EXTENDS Integers

CONSTANTS
    Submitters,     \* the wrappers
    MaxVersions     \* bound: versions of the compiler

VARIABLES
    link,       \* the compiler is reached through a symbolic link
    compiler,   \* its version
    desc,       \* what lstat gives: size and mtime of what is at the path, as
                \* the version that was current when that was put there
    digests,    \* digests_ of the daemon: nothing, or desc and hash
    submitter   \* the wrappers

digestVars == <<link, compiler, desc, digests, submitter>>

Unknown == [desc |-> 0, hash |-> 0]

DigestInit ==
    /\ link \in BOOLEAN
    /\ compiler = 1 /\ desc = 1
    /\ digests = Unknown
    /\ submitter = [w \in Submitters |->
                      [at |-> "start", desc |-> 0, hash |-> 0]]

GetMtimeAndSize(w) ==
    /\ submitter[w].at = "start"
    /\ submitter' = [submitter EXCEPT ![w].at = "submit", ![w].desc = desc]
    /\ UNCHANGED <<link, compiler, desc, digests>>

(* Mutant: whatever is known of the path.                                     *)
AnyDigest(d) == IF digests = Unknown THEN {} ELSE {digests.hash}

TryGet(d) == IF digests # Unknown /\ digests.desc = d THEN {digests.hash} ELSE {}

(* Prepare: a task is accepted with the digest found.                         *)
Prepare(w) ==
    /\ submitter[w].at \in {"submit", "resubmit"}
    /\ \E hash \in TryGet(submitter[w].desc) :
         submitter' = [submitter EXCEPT ![w].at = "accepted", ![w].hash = hash]
    /\ UNCHANGED <<link, compiler, desc, digests>>

(* 400: the first time the compiler is hashed, the second time that is it.    *)
Rejected(w) ==
    /\ submitter[w].at \in {"submit", "resubmit"}
    /\ TryGet(submitter[w].desc) = {}
    /\ submitter' = [submitter EXCEPT ![w].at =
                       IF @ = "submit" THEN "hash" ELSE "failed"]
    /\ UNCHANGED <<link, compiler, desc, digests>>

Blake3Digest(w) ==
    /\ submitter[w].at = "hash"
    /\ submitter' = [submitter EXCEPT ![w].at = "report", ![w].hash = compiler]
    /\ UNCHANGED <<link, compiler, desc, digests>>

(* Set, with what lstat gave before the hash was taken.  A wrapper whose call *)
(* failed, with or without effect, gives up.                                  *)
Set(w) ==
    /\ submitter[w].at = "report"
    /\ digests' = [desc |-> submitter[w].desc, hash |-> submitter[w].hash]
    /\ \E next \in {"resubmit", "failed"} :
         submitter' = [submitter EXCEPT ![w].at = next]
    /\ UNCHANGED <<link, compiler, desc>>

ReportLost(w) ==
    /\ submitter[w].at = "report"
    /\ submitter' = [submitter EXCEPT ![w].at = "failed"]
    /\ UNCHANGED <<link, compiler, desc, digests>>

(* Another file is put at the path.  A link may be made to point to it, or is *)
(* left as it is when what it points to is upgraded.                          *)
Upgrade ==
    /\ compiler < MaxVersions
    /\ compiler' = compiler + 1
    /\ desc' \in {compiler + 1} \union (IF link THEN {desc} ELSE {})
    /\ UNCHANGED <<link, digests, submitter>>

DaemonRestarts ==
    /\ digests # Unknown
    /\ digests' = Unknown
    /\ UNCHANGED <<link, compiler, desc, submitter>>

DigestNext ==
    \/ \E w \in Submitters : \/ GetMtimeAndSize(w) \/ Prepare(w) \/ Rejected(w)
                             \/ Blake3Digest(w) \/ Set(w) \/ ReportLost(w)
    \/ Upgrade \/ DaemonRestarts

DigestSpec == DigestInit /\ [][DigestNext]_digestVars

(* A task is sent out with a digest that its compiler has had since what its  *)
(* wrapper saw at the path was put there, whoever reported that digest and    *)
(* whatever was upgraded meanwhile; never with one of before that.  (lstat    *)
(* stops at a link: what is upgraded behind it goes unnoticed until the link  *)
(* itself is replaced.)                                                       *)
DigestFresh ==
    \A w \in Submitters :
      submitter[w].at = "accepted"
        => submitter[w].hash \in submitter[w].desc .. compiler
=============================================================================
