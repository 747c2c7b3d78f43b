-------------------------- MODULE MCExecutionEngine -------------------------
(* Instances of ExecutionEngine for TLC.                                      *)
EXTENDS ExecutionEngine, TLC

(* Clients, grants and pids are interchangeable.                              *)
Symmetry == Permutations(Clients) \union Permutations(Grants)
              \union Permutations(Pids)
=============================================================================
