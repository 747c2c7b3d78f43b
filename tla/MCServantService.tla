-------------------------- MODULE MCServantService --------------------------
(* Two places for a compiler, searched in this order, and two scopes: one in *)
(* which tokens rotate, one in which compilers change and tasks run.         *)
EXTENDS ServantService

CONSTANTS gcc8, gcc9

MCDigests == {gcc8, gcc9}
MCScanOrder == <<"/usr/bin/gcc", "/opt/bin/gcc">>

\* A source that may be cached, one that says when it was compiled, one that
\* has the macros that say so overridden, and one whose user wants no caching.
MCSources ==
  {[allow |-> TRUE, macros |-> FALSE, overridden |-> FALSE],
   [allow |-> TRUE, macros |-> TRUE, overridden |-> FALSE],
   [allow |-> TRUE, macros |-> TRUE, overridden |-> TRUE],
   [allow |-> FALSE, macros |-> FALSE, overridden |-> FALSE]}

MCScopes ==
  {[digests |-> {}, interval |-> 2, rollouts |-> 2, changes |-> 0,
    references |-> 0, inflight |-> 2, lost |-> 1],
   [digests |-> MCDigests, interval |-> 0, rollouts |-> 0, changes |-> 1,
    references |-> 0, inflight |-> 2, lost |-> 1],
   [digests |-> MCDigests, interval |-> 0, rollouts |-> 0, changes |-> 1,
    references |-> 2, inflight |-> 1, lost |-> 0]}
=============================================================================
