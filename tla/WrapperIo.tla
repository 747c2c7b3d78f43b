------------------------------ MODULE WrapperIo ------------------------------
(* The bytes a wrapper moves: to and from the daemon (DaemonCall), to and     *)
(* from the programs it runs (ChildIo).  A wrapper does one after the other   *)
(* and neither touches the other's descriptors.                               *)
EXTENDS DaemonCall, ChildIo

IoSpec ==
  /\ CallInit /\ ChildInit
  /\ [][\/ CallNext /\ UNCHANGED childVars
        \/ ChildNext /\ UNCHANGED callVars]_<<callVars, childVars>>

(* What the wrapper writes to the daemon and reads from it, and to and from a *)
(* program: RequestIntact and AnswerWhole of DaemonCall, OutputComplete of    *)
(* ChildIo, with the types of both loops.                                     *)
IoIntact ==
  CallTypeOK /\ ChildTypeOK /\ RequestIntact /\ AnswerWhole /\ OutputComplete
=============================================================================
