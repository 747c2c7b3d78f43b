---------------------------- MODULE AbstractCache ----------------------------
(* What a cache of src/yadcc promises its callers (CacheEngine, InMemoryCache *)
(* and DiskCache): what is found under a key has been put there, whole, by a  *)
(* call that named this key, and has not been forgotten since.  A cache may   *)
(* forget at any time, even what it is just being given, and may leave the    *)
(* older of two values in place; it never makes up a value, never moves one   *)
(* to another key and never brings one back.                                  *)
CONSTANTS Keys, Values

VARIABLES
    cached,     \* what a caller would find, by key
    putting     \* the calls of Put that the cache may be serving

Only(keep, f) == [k \in keep |-> f[k]]

Bound(k, v) ==
    [i \in DOMAIN cached \union {k} |-> IF i = k THEN v ELSE cached[i]]

Init == cached = [k \in {} |-> 0] /\ putting = {}

Forget == \E keep \in SUBSET DOMAIN cached : cached' = Only(keep, cached)

Take(k, v) == \E keep \in SUBSET (DOMAIN cached \union {k}) :
                 cached' = Only(keep, Bound(k, v))

Next == /\ putting' \subseteq Keys \X Values
        /\ Forget \/ \E p \in putting \union putting' : Take(p[1], p[2])

Spec == Init /\ [][Next]_<<cached, putting>>
=============================================================================
