----------------------------- MODULE MCDiskCache ------------------------------
(* Two keys in one subdirectory of two shards; one of them moves when the     *)
(* sizes of the shards are changed.                                           *)
EXTENDS DiskCache

OneSub == [k \in Keys |-> 0]
TwoHomes == {[k \in Keys |-> 1],
             [k \in Keys |-> IF k = CHOOSE q \in Keys : TRUE THEN 2 ELSE 1]}
=============================================================================
