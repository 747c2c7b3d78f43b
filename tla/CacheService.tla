---------------------------- MODULE CacheService -----------------------------
(* The compilation cache as a whole.  Servants fill it                        *)
(* (src/yadcc/daemon/cloud/distributed_cache_writer.cc), the server keeps it  *)
(* at two levels and summarises its keys in a Bloom filter                    *)
(* (src/yadcc/cache/cache_service_impl.cc, bloom_filter_generator.cc), and a  *)
(* delegate reads it through a copy of that filter which it updates by RPC    *)
(* (src/yadcc/daemon/local/distributed_cache_reader.cc).                      *)
(*                                                                            *)
(* A level is the set of its keys: InMemoryCache and DiskCache are modelled   *)
(* apart.  The filters are sets too: that a Bloom filter also answers yes for *)
(* keys never added costs an RPC and nothing else.  What a handler does under *)
(* one lock is one action, so the handlers, the timers, the purge of either   *)
(* level and the reader's RPC interleave.                                     *)
(*                                                                            *)
(* Time is kept as ages, in units of kNetworkDelayCompensation.               *)
EXTENDS Integers

CONSTANTS
    Keys,
    Compensation,   \* kNetworkDelayCompensation
    GatherTime,     \* bound: how long GetKeys takes at most
    GatherCompensation, \* what Rebuild is told to compensate for
    MaxDelay,       \* the timeout of FetchBloomFilter
    FullBase,       \* kBaseDelay
    FullMax,        \* kBaseDelay and the per-client and random delays
    History         \* kNewlyPopulatedKeyHistory

ASSUME CacheServiceAssumption ==
    /\ {Compensation, GatherTime, GatherCompensation, MaxDelay, FullBase,
        FullMax, History} \subseteq Nat
    /\ FullBase <= FullMax /\ FullMax < History
    /\ MaxDelay <= FullMax /\ GatherCompensation <= History

Never == -1

(* The reader's last full update did not bring such a filter, or an update    *)
(* since then was asked for too late; also: too long ago.                     *)
Unsure == FullMax + 1

VARIABLES
    l1, l2,     \* the keys of in_memory_cache_ and cache_
    filter,     \* current_bf_
    newly,      \* newly_populated_keys_: age of each key's last Add, or Never
    put,        \* where the PutEntry handler of each key is
    gather,     \* OnRebuildTimer: where it is, what it found, since when,
                \* history: and whether that was all there is
    bf,         \* cache_bf_ of the reader
    update,     \* age of last_bf_update_
    full,       \* age of last_bf_full_update_
    call,       \* the FetchBloomFilter RPC: where it is, its ages, its answer
    rebuilt,    \* history: the last rebuild had a whole listing, in time
    served      \* history: age of the server's last answer, or Unsure

levelVars == <<l1, l2>>
genVars == <<filter, newly, rebuilt>>
readerVars == <<bf, update, full, call, served>>

vars == <<l1, l2, filter, newly, put, gather, bf, update, full, call, rebuilt,
          served>>

Idle == [at |-> "idle", keys |-> {}, age |-> 0, whole |-> TRUE]

NoCall == [at |-> "idle", since |-> 0, full |-> 0, age |-> 0,
           incremental |-> TRUE, keys |-> {}, served |-> 0]

Step(h, k, place) == [h EXCEPT ![k] = place]

-----------------------------------------------------------------------------
(* PutEntry, for a compilation that succeeded (AsyncWrite): the second level, *)
(* the first, the filter.  A call that does not get here changes nothing.     *)

AsyncWrite(k, exit_code) ==
    /\ exit_code = 0
    /\ put[k] = "none"
    /\ l2' = l2 \union {k}
    /\ put' = Step(put, k, "l1")
    /\ UNCHANGED <<l1, genVars, gather, readerVars>>

(* An entry too large for the first level is not kept there.                  *)
PutFirstLevel(k) ==
    /\ put[k] = "l1"
    /\ l1' \in {l1, l1 \union {k}}
    /\ put' = Step(put, k, "add")
    /\ UNCHANGED <<l2, genVars, gather, readerVars>>

(* BloomFilterGenerator::Add.                                                 *)
Add(k) ==
    /\ put[k] = "add"
    /\ filter' = filter \union {k}
    /\ newly' = [newly EXCEPT ![k] = 0]
    /\ put' = Step(put, k, "none")
    /\ UNCHANGED <<levelVars, gather, rebuilt, readerVars>>

-----------------------------------------------------------------------------
(* TryGetEntry, which a reader calls only if its filter is old or has the     *)
(* key.  What is found at either level is put at the first.  The two lookups  *)
(* and the fill are one action: if the second level loses the entry between   *)
(* them, or just after, the outcome is the same.                              *)

Ask(k) == update >= FullBase \/ k \in bf

TryRead(k) ==
    /\ Ask(k)
    /\ k \in l1 \union l2
    /\ l1' \in {l1, l1 \union {k}}
    /\ UNCHANGED <<l2, genVars, put, gather, readerVars>>

(* Eviction from the first level, and cache_->Purge().                        *)
Evict(k) ==
    /\ \/ l1' = l1 \ {k} /\ UNCHANGED l2
       \/ l2' = l2 \ {k} /\ UNCHANGED l1
    /\ UNCHANGED <<genVars, put, gather, readerVars>>

-----------------------------------------------------------------------------
(* OnRebuildTimer: GetKeys asks one level after the other, without a lock.    *)

GatherFirstLevel ==
    /\ gather.at = "idle"
    /\ gather' = [Idle EXCEPT !.at = "l1", !.keys = l1]
    /\ UNCHANGED <<levelVars, genVars, put, readerVars>>

(* A level that fails to list some of its keys returns the others (the engine *)
(* in an object store does, CosCacheEngine).                                  *)
GatherSecondLevel ==
    /\ gather.at = "l1"
    /\ \E listed \in SUBSET l2 :
          gather' = [gather EXCEPT !.at = "l2", !.keys = @ \union listed,
                                   !.whole = (listed = l2)]
    /\ UNCHANGED <<levelVars, genVars, put, readerVars>>

(* UnsafeGetNewlyPopulatedKeys.                                               *)
NewlyPopulated(recent) == {k \in Keys : newly[k] \in 0 .. recent}

(* Mutant: keys that came while the keys were gathered are not looked at.     *)
GatheredOnly == gather.keys

Compensated == gather.keys \union NewlyPopulated(GatherCompensation)

Rebuild ==
    /\ gather.at = "l2"
    /\ filter' = Compensated
    /\ rebuilt' = (gather.whole /\ gather.age <= GatherCompensation)
    /\ gather' = Idle
    /\ UNCHANGED <<levelVars, newly, put, readerVars>>

(* A restart: the second level survives, and Start rebuilds the filter from   *)
(* it before anybody is served.                                               *)
Restart ==
    /\ l1' = {}
    /\ filter' \in SUBSET l2
    /\ rebuilt' = (filter' = l2)
    /\ newly' = [k \in Keys |-> Never]
    /\ put' = [k \in Keys |-> "none"]
    /\ gather' = Idle
    /\ call' = NoCall
    /\ UNCHANGED <<l2, bf, update, full, served>>

-----------------------------------------------------------------------------
(* LoadCacheBloomFilter, every two seconds, and FetchBloomFilter.             *)

LoadCacheBloomFilter ==
    /\ call.at = "idle"
    /\ call' = [NoCall EXCEPT !.at = "sent", !.since = update, !.full = full]
    /\ UNCHANGED <<levelVars, genVars, put, gather, bf, update, full, served>>

Window(since) == since + Compensation

(* Mutant: whoever has fetched the filter once only hears of new keys.        *)
NewKeysOnly(last_full, interval) == TRUE

Incremental(last_full, interval) == last_full < interval

FetchBloomFilter(interval) ==
    LET incremental == Incremental(call.full, interval)
    IN  /\ call.at = "sent"
        /\ call' = [call EXCEPT
              !.at = "answered", !.incremental = incremental,
              !.keys = IF incremental THEN NewlyPopulated(Window(call.since))
                       ELSE filter,
              !.served = IF \/ incremental /\ call.age <= Compensation
                            \/ ~incremental /\ rebuilt
                         THEN 0 ELSE Unsure]
        /\ UNCHANGED <<levelVars, genVars, put, gather, bf, update, full,
                       served>>

(* `now' was read before the call.                                            *)
Now(c) == c.age

IncrementalUpdate ==
    /\ call.at = "answered"
    /\ call.incremental
    /\ bf' = bf \union call.keys
    /\ update' = Now(call)
    /\ served' = IF served = Unsure THEN Unsure ELSE call.served
    /\ call' = NoCall
    /\ UNCHANGED <<levelVars, genVars, put, gather, full>>

(* The times are recorded before the filter is looked at; a filter that       *)
(* cannot be decoded leaves the old one in place.                             *)
FullUpdate(decoded) ==
    /\ call.at = "answered"
    /\ ~call.incremental
    /\ update' = Now(call) /\ full' = Now(call)
    /\ bf' = IF decoded THEN call.keys ELSE bf
    /\ served' = IF decoded THEN call.served ELSE Unsure
    /\ call' = NoCall
    /\ UNCHANGED <<levelVars, genVars, put, gather>>

FetchFails ==
    /\ call.at \in {"sent", "answered"}
    /\ call' = NoCall
    /\ UNCHANGED <<levelVars, genVars, put, gather, bf, update, full, served>>

-----------------------------------------------------------------------------

(* Keys older than kNewlyPopulatedKeyHistory are dropped.                     *)
Older(age) == IF age = Never \/ age = History + 1 THEN Never ELSE age + 1

UpTo(age) == IF age = Unsure THEN age ELSE age + 1

(* A call is over within its time; what takes longer has failed.              *)
Tick ==
    /\ call.at # "idle" => call.age < MaxDelay
    /\ gather.at # "idle" => gather.age < GatherTime
    /\ newly' = [k \in Keys |-> Older(newly[k])]
    /\ update' = UpTo(update) /\ full' = UpTo(full) /\ served' = UpTo(served)
    /\ call' = IF call.at = "idle" THEN call
               ELSE [call EXCEPT !.age = @ + 1,
                       !.served = IF call.at = "sent" THEN 0 ELSE UpTo(@)]
    /\ gather' = IF gather.at = "idle" THEN gather
                 ELSE [gather EXCEPT !.age = @ + 1]
    /\ UNCHANGED <<levelVars, filter, put, bf, rebuilt>>

(* The reader starts; its first load may fail, and both times are set all the *)
(* same.                                                                      *)
Init ==
    /\ l1 = {}
    /\ l2 \in SUBSET Keys
    /\ filter \in SUBSET l2
    /\ rebuilt = (filter = l2)
    /\ newly = [k \in Keys |-> Never]
    /\ put = [k \in Keys |-> "none"]
    /\ gather = Idle
    /\ \E loaded \in BOOLEAN : /\ bf = IF loaded THEN filter ELSE {}
                               /\ served = IF loaded /\ rebuilt THEN 0
                                           ELSE Unsure
    /\ update = 0 /\ full = 0
    /\ call = NoCall

PutEntry(k) == PutFirstLevel(k) \/ Add(k)

OnRebuildTimer == GatherFirstLevel \/ GatherSecondLevel \/ Rebuild

Fetch == \E i \in FullBase .. FullMax : FetchBloomFilter(i)

Apply == IncrementalUpdate \/ FullUpdate(TRUE)

Next ==
    \/ \E k \in Keys : \/ \E e \in {0, 1} : AsyncWrite(k, e)
                       \/ PutEntry(k) \/ TryRead(k) \/ Evict(k)
    \/ OnRebuildTimer \/ Restart
    \/ LoadCacheBloomFilter \/ Fetch \/ Apply \/ FullUpdate(FALSE)
    \/ FetchFails \/ Tick

Spec == Init /\ [][Next]_vars

-----------------------------------------------------------------------------
TypeOK ==
    /\ l1 \subseteq Keys /\ l2 \subseteq Keys /\ filter \subseteq Keys
    /\ bf \subseteq Keys
    /\ newly \in [Keys -> Never .. History + 1]
    /\ update \in 0 .. FullMax + 1 /\ full \in 0 .. FullMax + 1
    /\ call.age \in 0 .. MaxDelay

(* A key is in the server's filter from the end of its PutEntry for as long   *)
(* as the second level has it, whatever rebuild of the filter was under way,  *)
(* unless the last rebuild was given an incomplete listing or one that took   *)
(* longer than it compensates for: what came before that does not matter.     *)
StoredIsInFilter ==
    rebuilt => \A k \in l2 : put[k] = "none" => k \in filter

(* What was populated before the server answered the update the reader last   *)
(* applied, the reader knows of, unless the entry is gone: no key falls       *)
(* between two incremental updates, if since the last full one every call got *)
(* to the server within kNetworkDelayCompensation.                            *)
ReaderUpToDate ==
    \A k \in l2 :
      put[k] = "none" /\ served # Unsure /\ newly[k] > served
        => k \in bf

(* Neither the server's filter nor an up-to-date reader's misses an entry.    *)
FilterSound == TypeOK /\ StoredIsInFilter /\ ReaderUpToDate

(* Once listings are whole and in time again, a reader hears of every entry   *)
(* that stays, even when its first load failed, its calls were late, a        *)
(* rebuild raced or the server restarted.                                     *)
ReaderLearns ==
    \A k \in Keys : (k \in l2) ~> (k \in bf \/ k \notin l2 \/ ~rebuilt)
=============================================================================
