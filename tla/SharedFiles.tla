----------------------------- MODULE SharedFiles -----------------------------
(* What the wrappers of one machine share, side by side: the digests of the   *)
(* compiler they report to the daemon, and the library they preload into it.  *)
EXTENDS FileDigestCache, FakeRootLibrary

sharedVars == <<digestVars, libraryVars>>

(* What the wrappers of a machine share is what they take it for: the digest  *)
(* of the compiler (DigestFresh) and the preloaded library (LibraryWhole).    *)
SharedSound == DigestFresh /\ LibraryWhole
=============================================================================
