-------------------------- MODULE CacheServiceProofs -------------------------
(* Proofs about the cache server's Bloom filter and the copy a delegate keeps *)
(* of it (CacheService), for every set of keys and every timing, whichever    *)
(* listings fail half-way; about the second level in an object store          *)
(* (CosCacheEngine), for every set of objects, sizes, directories and batches *)
(* and every number of listers, writes and failures; and about the first      *)
(* level in memory (InMemoryCache), for every set of keys and sizes and every *)
(* capacity: its lists, maps and counters agree, it takes no more than it     *)
(* may, and it does what AbstractCache promises.                              *)
EXTENDS CacheService, CosCacheEngine, InMemoryCache, FiniteSetTheorems,
        SequenceTheorems, WellFoundedInduction, TLAPS

USE CacheServiceAssumption

Stored(k) == k \in l2 /\ put[k] = "none"

TimesTyped ==
    /\ served \in 0 .. FullMax + 1 /\ update <= full
    /\ served # Unsure => served <= update
    /\ rebuilt \in BOOLEAN
    /\ put \in [Keys -> {"none", "l1", "add"}]

GatherTyped ==
    /\ gather \in [at : {"idle", "l1", "l2"}, keys : SUBSET Keys, age : 0 .. GatherTime,
          whole : BOOLEAN]

CallTyped ==
    /\ call \in [at : {"idle", "sent", "answered"}, since : 0 .. FullMax + 1,
                 full : 0 .. FullMax + 1, age : 0 .. MaxDelay,
                 incremental : BOOLEAN, keys : SUBSET Keys, served : 0 .. FullMax + 1]
    /\ call.since <= call.full
    /\ call.served # Unsure => call.served <= call.age
    /\ call.at = "sent" => call.served = 0
    /\ call.at # "idle" => call.age <= full

(* What the second level did not show to GetKeys was added after it looked,   *)
(* if it showed all it had.                                                   *)
GatherMissesNew ==
    gather.at = "l2" /\ gather.whole /\ gather.age <= GatherCompensation =>
      \A k \in Keys : Stored(k) => k \in gather.keys \/ newly[k] \in 0 .. gather.age

(* A key the reader does not know is too young for the window that the call   *)
(* will be answered for to leave it out ...                                   *)
CallWillTell ==
    call.at = "sent" /\ served # Unsure /\ call.since <= FullMax =>
      \A k \in Keys : Stored(k) => k \in bf \/ newly[k] <= call.since + call.age

(* ... and is in the answer, if it was added before.                          *)
AnswerTells ==
    call.at = "answered" /\ call.served # Unsure =>
      \A k \in Keys : Stored(k) /\ newly[k] > call.served =>
        IF call.incremental THEN served # Unsure => k \in bf \union call.keys
        ELSE k \in call.keys

CacheInv ==
    /\ FilterSound
    /\ TimesTyped /\ GatherTyped /\ CallTyped
    /\ GatherMissesNew /\ CallWillTell /\ AnswerTells

Typed == TypeOK /\ TimesTyped /\ GatherTyped /\ CallTyped

(* The server starts with its filter built, and the reader with no call.      *)
LEMMA CacheInit == Init => CacheInv
<1> SUFFICES ASSUME Init PROVE CacheInv
    OBVIOUS
<1>1. Typed
  <2>1. TypeOK /\ TimesTyped
      BY DEF Init, TypeOK, TimesTyped, NoCall, Never, Unsure
  <2>2. GatherTyped
      BY DEF Init, GatherTyped, Idle
  <2>3. CallTyped
      BY DEF Init, CallTyped, NoCall, Unsure
  <2> QED  BY <2>1, <2>2, <2>3 DEF Typed
<1>2. StoredIsInFilter /\ ReaderUpToDate
    BY DEF Init, StoredIsInFilter, ReaderUpToDate, Never
<1>3. GatherMissesNew /\ CallWillTell /\ AnswerTells
    BY DEF Init, GatherMissesNew, CallWillTell, AnswerTells, Idle, NoCall
<1> QED  BY <1>1, <1>2, <1>3 DEF Typed, CacheInv, FilterSound

-----------------------------------------------------------------------------
(* Types, and the order of the reader's times.                                *)

LEMMA TypedStep ==
    ASSUME Typed, [Next]_vars
    PROVE  Typed'
<1> USE DEF Typed, TypeOK, TimesTyped, Never, Unsure
<1>c. ASSUME UNCHANGED <<call, full>> PROVE CallTyped'
    BY <1>c DEF CallTyped
<1>i. ASSUME call' = NoCall PROVE CallTyped' /\ call'.age \in 0 .. MaxDelay
    BY <1>i DEF CallTyped, NoCall
<1>g. ASSUME UNCHANGED gather PROVE GatherTyped'
    BY <1>g DEF GatherTyped
<1>1. ASSUME NEW k \in Keys, NEW e \in {0, 1}, AsyncWrite(k, e) PROVE Typed'
    BY <1>1, <1>c, <1>g DEF AsyncWrite, Step, genVars, readerVars
<1>2. ASSUME NEW k \in Keys, PutFirstLevel(k) PROVE Typed'
    BY <1>2, <1>c, <1>g DEF PutFirstLevel, Step, genVars, readerVars
<1>3. ASSUME NEW k \in Keys, Add(k) PROVE Typed'
    BY <1>3, <1>c, <1>g DEF Add, Step, levelVars, readerVars
<1>4. ASSUME NEW k \in Keys, TryRead(k) \/ Evict(k) PROVE Typed'
    BY <1>4, <1>c, <1>g DEF TryRead, Evict, genVars, readerVars
<1>5. CASE GatherFirstLevel
  <2>1. gather' \in [at : {"idle", "l1", "l2"}, keys : SUBSET Keys, age : 0 .. GatherTime,
          whole : BOOLEAN]
    <3>1. gather' = [at |-> "l1", keys |-> l1, age |-> 0, whole |-> TRUE]
        BY <1>5 DEF GatherFirstLevel, Idle
    <3> QED  BY <3>1
  <2> QED  BY <1>5, <1>c, <2>1
           DEF GatherFirstLevel, GatherTyped, levelVars, genVars, readerVars
<1>6. CASE GatherSecondLevel
  <2>1. gather' \in [at : {"idle", "l1", "l2"}, keys : SUBSET Keys, age : 0 .. GatherTime,
          whole : BOOLEAN]
    <3>1. PICK at \in {"idle", "l1", "l2"}, keys \in SUBSET Keys, w \in BOOLEAN :
            gather' = [gather EXCEPT !.at = at, !.keys = keys, !.whole = w]
      <4>1. PICK listed \in SUBSET l2 :
              gather' = [gather EXCEPT !.at = "l2", !.keys = gather.keys \union listed,
                                       !.whole = (listed = l2)]
          BY <1>6 DEF GatherSecondLevel
      <4>2. gather.keys \union listed \in SUBSET Keys /\ (listed = l2) \in BOOLEAN
          BY DEF GatherTyped
      <4> QED  BY <4>1, <4>2, Zenon
    <3>2. PICK g \in [at : {"idle", "l1", "l2"}, keys : SUBSET Keys,
                      age : 0 .. GatherTime, whole : BOOLEAN] : g = gather
        BY DEF GatherTyped
    <3> QED  BY <3>1, <3>2
  <2> QED  BY <1>6, <1>c, <2>1
           DEF GatherSecondLevel, GatherTyped, levelVars, genVars, readerVars
<1>7. CASE Rebuild
  <2>1. filter' \subseteq Keys
      BY <1>7 DEF Rebuild, Compensated, NewlyPopulated, GatherTyped
  <2>2. GatherTyped'
      BY <1>7 DEF Rebuild, GatherTyped, Idle
  <2> QED  BY <1>7, <1>c, <2>1, <2>2 DEF Rebuild, levelVars, readerVars
<1>8. CASE Restart
  <2>1. GatherTyped'
      BY <1>8 DEF Restart, GatherTyped, Idle
  <2> QED  BY <1>8, <1>i, <2>1 DEF Restart
<1>9. CASE LoadCacheBloomFilter
  <2>1. CallTyped'
    <3>1. call' = [at |-> "sent", since |-> update, full |-> full, age |-> 0,
                   incremental |-> TRUE, keys |-> {}, served |-> 0]
        BY <1>9 DEF LoadCacheBloomFilter, NoCall
    <3>2. 0 \in 0 .. MaxDelay
        OBVIOUS
    <3>3. call' \in [at : {"idle", "sent", "answered"}, since : 0 .. FullMax + 1,
                     full : 0 .. FullMax + 1, age : 0 .. MaxDelay,
                     incremental : BOOLEAN, keys : SUBSET Keys, served : 0 .. FullMax + 1]
        BY <3>1, <3>2
    <3>4. full' = full
        BY <1>9 DEF LoadCacheBloomFilter
    <3> QED  BY <3>1, <3>3, <3>4 DEF CallTyped
  <2>2. call'.age \in 0 .. MaxDelay
      BY <2>1 DEF CallTyped
  <2> QED  BY <1>9, <1>g, <2>1, <2>2 DEF LoadCacheBloomFilter, levelVars, genVars
<1>10. CASE Fetch
  <2>1. PICK i \in FullBase .. FullMax : FetchBloomFilter(i)
      BY <1>10 DEF Fetch
  <2>2. PICK keys \in SUBSET Keys, b \in BOOLEAN, v \in {0, FullMax + 1} :
          call' = [call EXCEPT !.at = "answered", !.incremental = b, !.keys = keys,
                               !.served = v]
    <3>1. NewlyPopulated(Window(call.since)) \subseteq Keys
        BY DEF NewlyPopulated
    <3>2. Incremental(call.full, i) \in BOOLEAN
        BY DEF Incremental
    <3>3. /\ (IF Incremental(call.full, i) THEN NewlyPopulated(Window(call.since))
               ELSE filter) \in SUBSET Keys
          /\ (IF \/ Incremental(call.full, i) /\ call.age <= Compensation
                 \/ ~Incremental(call.full, i) /\ rebuilt
               THEN 0 ELSE Unsure) \in {0, FullMax + 1}
        BY <3>1
    <3> QED  BY <2>1, <3>2, <3>3, Zenon DEF FetchBloomFilter
  <2>3. call' \in [at : {"idle", "sent", "answered"}, since : 0 .. FullMax + 1,
                   full : 0 .. FullMax + 1, age : 0 .. MaxDelay,
                   incremental : BOOLEAN, keys : SUBSET Keys, served : 0 .. FullMax + 1]
    <3>1. PICK u \in 0 .. FullMax + 1 : u = v
        OBVIOUS
    <3>2. PICK at \in {"idle", "sent", "answered"} : at = "answered"
        OBVIOUS
    <3>3. call' = [call EXCEPT !.at = at, !.incremental = b, !.keys = keys, !.served = u]
        BY <2>2, <3>1, <3>2
    <3> QED  BY <3>3 DEF CallTyped
  <2>4. CallTyped' /\ call'.age \in 0 .. MaxDelay
    <3>1. /\ call'.since = call.since /\ call'.full = call.full
          /\ call'.age = call.age /\ call'.at = "answered"
          /\ call.at = "sent" /\ UNCHANGED full
        BY <2>1, <2>2 DEF FetchBloomFilter, CallTyped
    <3>2. call'.served \in {0, FullMax + 1}
        BY <2>2 DEF CallTyped
    <3> QED  BY <2>3, <3>1, <3>2 DEF CallTyped
  <2> QED  BY <2>1, <1>g, <2>4 DEF FetchBloomFilter, levelVars, genVars
<1>11. CASE IncrementalUpdate
  <2>1. /\ call.age \in 0 .. FullMax + 1 /\ call.served \in 0 .. FullMax + 1
        /\ call.served # Unsure => call.served <= call.age
        /\ call.age <= full /\ call.keys \subseteq Keys
      BY <1>11 DEF IncrementalUpdate, CallTyped
  <2> QED  BY <1>11, <1>i, <1>g, <2>1 DEF IncrementalUpdate, Now, levelVars, genVars
<1>12. ASSUME NEW b \in BOOLEAN, FullUpdate(b) PROVE Typed'
  <2>1. /\ call.age \in 0 .. FullMax + 1 /\ call.served \in 0 .. FullMax + 1
        /\ call.served # Unsure => call.served <= call.age
        /\ call.keys \subseteq Keys
      BY <1>12 DEF FullUpdate, CallTyped
  <2> QED  BY <1>12, <1>i, <1>g, <2>1 DEF FullUpdate, Now, levelVars, genVars
<1>13. CASE FetchFails
    BY <1>13, <1>i, <1>g DEF FetchFails, levelVars, genVars
<1>14. CASE Tick
  <2>1. newly' \in [Keys -> Never .. History + 1]
      BY <1>14 DEF Tick, Older
  <2>2. /\ update' \in 0 .. FullMax + 1 /\ full' \in 0 .. FullMax + 1
        /\ served' \in 0 .. FullMax + 1 /\ update' <= full'
        /\ served' # Unsure => served' <= update'
      BY <1>14 DEF Tick, UpTo
  <2>3. GatherTyped'
    <3>1. CASE gather.at = "idle"
        BY <1>14, <3>1, <1>g DEF Tick
    <3>2. CASE gather.at # "idle"
      <4>1. gather' = [gather EXCEPT !.age = gather.age + 1]
            /\ gather.age + 1 \in 0 .. GatherTime
          BY <1>14, <3>2 DEF Tick, GatherTyped
      <4> QED  BY <4>1 DEF GatherTyped
    <3> QED  BY <3>1, <3>2
  <2>4. CallTyped'
    <3>1. CASE call.at = "idle"
        BY <1>14, <3>1 DEF Tick, CallTyped
    <3>2. CASE call.at # "idle"
      <4>1. PICK age \in 0 .. MaxDelay, s \in 0 .. FullMax + 1 :
              /\ age = call.age + 1
              /\ s = IF call.at = "sent" THEN 0 ELSE UpTo(call.served)
              /\ s # Unsure => s <= age
          BY <1>14, <3>2 DEF Tick, CallTyped, UpTo
      <4>2. call' = [call EXCEPT !.age = age, !.served = s]
          BY <1>14, <3>2, <4>1 DEF Tick
      <4>3. call' \in [at : {"idle", "sent", "answered"}, since : 0 .. FullMax + 1,
                       full : 0 .. FullMax + 1, age : 0 .. MaxDelay,
                       incremental : BOOLEAN, keys : SUBSET Keys, served : 0 .. FullMax + 1]
          BY <4>2 DEF CallTyped
      <4>4. age <= full'
          BY <1>14, <3>2, <4>1 DEF Tick, CallTyped, UpTo
      <4>5. /\ call'.since <= call'.full
            /\ call'.served # Unsure => call'.served <= call'.age
            /\ call'.at = "sent" => call'.served = 0
            /\ call'.at # "idle" => call'.age <= full'
          BY <4>1, <4>2, <4>4 DEF CallTyped
      <4> QED  BY <4>3, <4>5 DEF CallTyped
    <3> QED  BY <3>1, <3>2
  <2>5. call'.age \in 0 .. MaxDelay
      BY <2>4 DEF CallTyped
  <2> QED  BY <1>14, <2>1, <2>2, <2>3, <2>4, <2>5 DEF Tick, levelVars
<1>15. CASE UNCHANGED vars
    BY <1>15, <1>c, <1>g DEF vars
<1> QED  BY <1>1, <1>2, <1>3, <1>4, <1>5, <1>6, <1>7, <1>8, <1>9, <1>10, <1>11,
            <1>12, <1>13, <1>14, <1>15 DEF Next, PutEntry, OnRebuildTimer, Apply
-----------------------------------------------------------------------------
(* The server's filter.                                                       *)

(* No step makes a key stored without adding it, or ages one by halves.       *)
LEMMA FilterStep ==
    ASSUME Typed, StoredIsInFilter, GatherMissesNew, [Next]_vars
    PROVE  StoredIsInFilter' /\ GatherMissesNew'
<1> USE DEF Typed, TypeOK, TimesTyped, StoredIsInFilter, GatherMissesNew, Stored, Never
<1>1. ASSUME NEW k \in Keys, NEW e \in {0, 1}, AsyncWrite(k, e)
      PROVE  StoredIsInFilter' /\ GatherMissesNew'
    BY <1>1 DEF AsyncWrite, Step, genVars
<1>2. ASSUME NEW k \in Keys, PutFirstLevel(k) PROVE StoredIsInFilter' /\ GatherMissesNew'
    BY <1>2 DEF PutFirstLevel, Step, genVars
<1>3. ASSUME NEW k \in Keys, Add(k) PROVE StoredIsInFilter' /\ GatherMissesNew'
    BY <1>3 DEF Add, Step, levelVars, GatherTyped
<1>4. ASSUME NEW k \in Keys, TryRead(k) \/ Evict(k)
      PROVE  StoredIsInFilter' /\ GatherMissesNew'
    BY <1>4 DEF TryRead, Evict, genVars
<1>5. CASE GatherFirstLevel
    BY <1>5 DEF GatherFirstLevel, Idle, levelVars, genVars
<1>6. CASE GatherSecondLevel
  <2>1. PICK listed \in SUBSET l2, w \in BOOLEAN :
          /\ gather' = [gather EXCEPT !.at = "l2", !.keys = gather.keys \union listed,
                                     !.whole = w]
          /\ w = (listed = l2)
      BY <1>6 DEF GatherSecondLevel
  <2>2. gather'.whole = w /\ gather'.keys = gather.keys \union listed
      BY <2>1 DEF GatherTyped
  <2> QED  BY <1>6, <2>1, <2>2 DEF GatherSecondLevel, levelVars, genVars
<1>7. CASE Rebuild
  <2>1. ASSUME rebuilt' PROVE gather.whole /\ gather.age <= GatherCompensation
      BY <1>7, <2>1, Zenon DEF Rebuild
  <2>2. ASSUME rebuilt' PROVE \A k \in Keys : Stored(k) => k \in Compensated
      BY <1>7, <2>1, <2>2 DEF Rebuild, Compensated, NewlyPopulated, GatherTyped
  <2> QED  BY <1>7, <2>2 DEF Rebuild, levelVars, Idle
<1>8. CASE Restart
    BY <1>8 DEF Restart, Idle
<1>9. CASE LoadCacheBloomFilter \/ FetchFails \/ IncrementalUpdate
    BY <1>9 DEF LoadCacheBloomFilter, FetchFails, IncrementalUpdate, levelVars, genVars
<1>10. ASSUME NEW i, FetchBloomFilter(i) PROVE StoredIsInFilter' /\ GatherMissesNew'
    BY <1>10 DEF FetchBloomFilter, levelVars, genVars
<1>11. ASSUME NEW b, FullUpdate(b) PROVE StoredIsInFilter' /\ GatherMissesNew'
    BY <1>11 DEF FullUpdate, levelVars, genVars
<1>12. CASE Tick
    BY <1>12 DEF Tick, levelVars, Older, GatherTyped
<1>13. CASE UNCHANGED vars
    BY <1>13 DEF vars
<1> QED  BY <1>1, <1>2, <1>3, <1>4, <1>5, <1>6, <1>7, <1>8, <1>9, <1>10, <1>11,
            <1>12, <1>13 DEF Next, PutEntry, OnRebuildTimer, Apply, Fetch

-----------------------------------------------------------------------------
(* The reader's copy.                                                         *)

LEMMA ReaderStep ==
    ASSUME Typed, Typed', StoredIsInFilter, ReaderUpToDate,
           CallWillTell, AnswerTells, [Next]_vars
    PROVE  ReaderUpToDate' /\ CallWillTell' /\ AnswerTells'
<1> DEFINE Goal == ReaderUpToDate' /\ CallWillTell' /\ AnswerTells'
<1> USE DEF Typed, TypeOK, TimesTyped, ReaderUpToDate, CallWillTell, AnswerTells,
            Stored, Never, Unsure
<1>1. ASSUME NEW k \in Keys, NEW e \in {0, 1}, AsyncWrite(k, e) PROVE Goal
    BY <1>1 DEF AsyncWrite, Step, genVars, readerVars
<1>2. ASSUME NEW k \in Keys, PutFirstLevel(k) PROVE Goal
    BY <1>2 DEF PutFirstLevel, Step, genVars, readerVars
<1>3. ASSUME NEW k \in Keys, Add(k) PROVE Goal
  <2>1. /\ newly' = [newly EXCEPT ![k] = 0] /\ put' = [put EXCEPT ![k] = "none"]
        /\ UNCHANGED <<l2, bf, call, served>>
      BY <1>3 DEF Add, Step, levelVars, readerVars
  <2>2. call.since + call.age >= 0 /\ call.served \in Nat
      BY DEF CallTyped
  <2>3. \A q \in Keys : q # k => newly'[q] = newly[q] /\ put'[q] = put[q]
      BY <2>1
  <2>4. newly'[k] = 0
      BY <2>1
  <2>5. ReaderUpToDate'
      BY <2>1, <2>3, <2>4
  <2>6. CallWillTell'
      BY <2>1, <2>2, <2>3, <2>4
  <2>7. AnswerTells'
    <3>1. ~(newly'[k] > call'.served)
        BY <2>1, <2>2, <2>4
    <3> QED  BY <2>1, <2>3, <3>1
  <2> QED  BY <2>5, <2>6, <2>7
<1>4. ASSUME NEW k \in Keys, TryRead(k) \/ Evict(k) PROVE Goal
    BY <1>4 DEF TryRead, Evict, genVars, readerVars
<1>5. CASE OnRebuildTimer
    BY <1>5 DEF OnRebuildTimer, GatherFirstLevel, GatherSecondLevel, Rebuild,
                levelVars, genVars, readerVars
<1>6. CASE Restart
    BY <1>6 DEF Restart, NoCall
<1>7. CASE LoadCacheBloomFilter
  <2>1. /\ call' = [NoCall EXCEPT !.at = "sent", !.since = update, !.full = full]
        /\ UNCHANGED <<l2, put, newly, bf, served>>
      BY <1>7 DEF LoadCacheBloomFilter, levelVars, genVars
  <2>2. call'.at = "sent" /\ call'.since = update /\ call'.age = 0
      BY <2>1 DEF NoCall
  <2>3. ReaderUpToDate' /\ AnswerTells'
      BY <2>1, <2>2
  <2>4. served # Unsure /\ update <= FullMax =>
          \A k \in Keys : Stored(k) => k \in bf \/ newly[k] <= update
      BY DEF TypeOK
  <2>5. CallWillTell'
      BY <2>1, <2>2, <2>4
  <2> QED  BY <2>3, <2>5
<1>8. ASSUME NEW i \in FullBase .. FullMax, FetchBloomFilter(i) PROVE Goal
  <2>1. /\ call.at = "sent" /\ call'.at = "answered"
        /\ call'.served = IF \/ /\ Incremental(call.full, i)
                                /\ call.age <= Compensation
                             \/ ~Incremental(call.full, i) /\ rebuilt
                          THEN 0 ELSE Unsure
        /\ call'.incremental = Incremental(call.full, i)
        /\ call'.keys = IF Incremental(call.full, i)
                          THEN NewlyPopulated(Window(call.since)) ELSE filter
        /\ UNCHANGED <<l2, put, newly, bf, served>>
      BY <1>8 DEF FetchBloomFilter, CallTyped, levelVars, genVars
  <2>2. CASE Incremental(call.full, i)
    <3>1. /\ call.since <= FullMax /\ call.since \in Nat
          /\ call.age \in 0 .. MaxDelay
        BY <2>2 DEF Incremental, CallTyped
    <3>2. \A k \in Keys : call.age <= Compensation /\ served # Unsure /\ Stored(k) /\ newly[k] > 0
            => k \in bf \/ newly[k] <= call.since + Compensation
        BY <2>1, <3>1
    <3>3. \A k \in Keys : call.age <= Compensation /\ served # Unsure /\ Stored(k) /\ newly[k] > 0
            => k \in bf \union NewlyPopulated(Window(call.since))
        BY <3>1, <3>2 DEF NewlyPopulated, Window
    <3> QED  BY <2>1, <2>2, <3>3
  <2>3. CASE ~Incremental(call.full, i)
      BY <2>1, <2>3 DEF StoredIsInFilter
  <2> QED  BY <2>2, <2>3
<1>9. CASE IncrementalUpdate
    BY <1>9 DEF IncrementalUpdate, levelVars, genVars, NoCall
<1>10. ASSUME NEW b \in BOOLEAN, FullUpdate(b) PROVE Goal
    BY <1>10 DEF FullUpdate, levelVars, genVars, NoCall
<1>11. CASE FetchFails
    BY <1>11 DEF FetchFails, levelVars, genVars, NoCall
<1>12. CASE Tick
  <2>1. /\ UNCHANGED <<l2, put, bf>>
        /\ \A k \in Keys : newly'[k] = Older(newly[k])
        /\ served' = UpTo(served)
      BY <1>12 DEF Tick, levelVars
  <2>2. ReaderUpToDate'
      BY <2>1 DEF Older, UpTo
  <2>3. call.at # "idle" =>
          /\ call'.at = call.at /\ call'.since = call.since /\ call'.keys = call.keys
          /\ call'.incremental = call.incremental /\ call'.age = call.age + 1
          /\ call.at = "answered" => call'.served = UpTo(call.served)
      BY <1>12 DEF Tick, CallTyped
  <2>4. call.at = "idle" => call' = call
      BY <1>12 DEF Tick
  <2>5. CallWillTell'
      BY <2>1, <2>3, <2>4 DEF Older, UpTo, CallTyped
  <2>6. AnswerTells'
      BY <2>1, <2>3, <2>4 DEF Older, UpTo, CallTyped
  <2> QED  BY <2>2, <2>5, <2>6
<1>13. CASE UNCHANGED vars
    BY <1>13 DEF vars
<1> QED  BY <1>1, <1>2, <1>3, <1>4, <1>5, <1>6, <1>7, <1>8, <1>9, <1>10, <1>11,
            <1>12, <1>13 DEF Next, PutEntry, Apply, Fetch

-----------------------------------------------------------------------------
(* No PutEntry that races a rebuild of the filter, an eviction, a restart or  *)
(* a fetch under way leaves an entry out: the server's filter has every entry *)
(* of the second level, unless the last rebuild was given part of them or     *)
(* took longer than it compensates for, and a reader's copy has all that the  *)
(* server had when it last answered, unless the last full update or a call    *)
(* since then left a gap.  No bound is put on how long a listing or a call    *)
(* takes, nor on which of them fail.                                          *)
THEOREM FilterCorrect == Spec => []FilterSound
<1>1. ASSUME CacheInv, [Next]_vars PROVE CacheInv'
  <2>1. Typed
      BY <1>1 DEF CacheInv, FilterSound, Typed
  <2>2. Typed'
      BY <1>1, <2>1, TypedStep
  <2>3. StoredIsInFilter' /\ GatherMissesNew'
      BY <1>1, <2>1, FilterStep DEF CacheInv, FilterSound
  <2>4. ReaderUpToDate' /\ CallWillTell' /\ AnswerTells'
      BY <1>1, <2>1, <2>2, ReaderStep DEF CacheInv, FilterSound
  <2> QED  BY <2>2, <2>3, <2>4 DEF CacheInv, FilterSound, Typed
<1>2. CacheInv => FilterSound
    BY DEF CacheInv
<1> QED  BY <1>1, <1>2, CacheInit, PTL DEF Spec

-----------------------------------------------------------------------------
(* The engine that keeps the second level in an object store.                 *)

Markers == Nat \union {Done}

CosTyped ==
    /\ CosTypeOK
    /\ puts \in 0 .. MaxPuts
    /\ written \in [Objects -> 0 .. puts]
    /\ listing \in [Listers -> [at : {"idle", "listing"},
                                marker : [Dirs -> Markers],
                                entries : SUBSET Entries]]

(* No key occurs twice in the store, nor in a listing, however often the key  *)
(* is written meanwhile: a directory is listed in the order of its keys.      *)
OneEach(entries) == \A e, f \in entries : e.key = f.key => e = f

ListedInOrder ==
    \A l \in Listers :
      /\ OneEach(listing[l].entries)
      /\ \A e \in listing[l].entries :
           LET marker == listing[l].marker[MakeObjectKey(e.key)]
           IN  marker = Done \/ e.key <= marker

(* A time stamp that was listed is no later than the last write.              *)
SeenAfterWritten ==
    /\ \A e \in objects : e.timestamp <= written[e.key]
    /\ \A l \in Listers : \A e \in listing[l].entries :
         e.timestamp <= written[e.key]

MarkedBeyond ==
    \A e \in pending \union purging : Capacity <= Bytes(Newer(e))

CosInv == CosTyped /\ OneEach(objects) /\ ListedInOrder /\ SeenAfterWritten
            /\ MarkedBeyond

(* Least and greatest of a set of numbers.                                    *)
Precedes == {pair \in Nat \X Nat : pair[1] < pair[2]}

LEMMA LeastNatural ==
    ASSUME NEW T \in SUBSET Nat, T # {}
    PROVE  \E m \in T : \A n \in T : m <= n
<1>1. IsWellFoundedOn(Precedes, Nat)
  BY NatLessThanWellFounded DEF OpToRel, Precedes
<1>2. PICK m \in T : \A n \in T : ~(<<n, m>> \in Precedes)
  BY <1>1, WFMin
<1>3. ASSUME NEW n \in T PROVE m <= n
  <2>1. ~(<<n, m>> \in Precedes) /\ m \in Nat /\ n \in Nat
    BY <1>2
  <2> QED
    BY <2>1 DEF Precedes
<1> QED
  BY <1>3

LEMMA GreatestNatural ==
    ASSUME NEW S \in SUBSET Nat, S # {}, IsFiniteSet(S)
    PROVE  Max(S) \in S /\ \A n \in S : n <= Max(S)
<1> DEFINE Endless(T) == ~ \E m \in T : \A n \in T : m >= n
           Bad == {c \in Nat : \E T \in SUBSET S :
                     T # {} /\ Cardinality(T) = c /\ Endless(T)}
<1>1. ASSUME Bad # {} PROVE FALSE
  <2>1. PICK c \in Bad : \A d \in Bad : c <= d
    BY <1>1, LeastNatural
  <2>2. PICK T \in SUBSET S : T # {} /\ Cardinality(T) = c /\ Endless(T)
    BY <2>1
  <2>3. PICK x : x \in T
    BY <2>2
  <2>4. IsFiniteSet(T) /\ IsFiniteSet(T \ {x})
    BY FS_Subset
  <2>5. /\ Cardinality(T \ {x}) = Cardinality(T) - 1
        /\ Cardinality(T) \in Nat /\ Cardinality(T \ {x}) \in Nat
    BY <2>3, <2>4, FS_RemoveElement, FS_CardinalityType
  <2>6. Cardinality(T \ {x}) \notin Bad
    <3>1. ~(c <= Cardinality(T \ {x}))
      BY <2>2, <2>5
    <3> QED
      BY <2>1, <3>1
  <2>7. CASE T \ {x} = {}
    BY <2>2, <2>3, <2>7
  <2>8. CASE T \ {x} # {}
    <3>1. PICK m \in T \ {x} : \A n \in T \ {x} : m >= n
      BY <2>5, <2>6, <2>8
    <3>2. m \in Nat /\ x \in Nat /\ \A n \in T : n \in Nat
      BY <2>3
    <3>3. m >= x \/ x >= m
      BY <3>2
    <3>4. x >= m => \A n \in T \ {x} : x >= n
      BY <3>1, <3>2
    <3> QED
      BY <2>2, <2>3, <3>1, <3>2, <3>3, <3>4
  <2> QED
    BY <2>7, <2>8
<1>2. Cardinality(S) \notin Bad /\ Cardinality(S) \in Nat
  BY <1>1, FS_CardinalityType
<1>3. PICK m \in S : \A n \in S : m >= n
  BY <1>2
<1>4. Max(S) \in S /\ \A n \in S : Max(S) >= n
  BY <1>3 DEF Max
<1> QED
  BY <1>4

-----------------------------------------------------------------------------
(* What entries take.                                                         *)

BytesOf(entries) == UNION {{e} \X (1 .. Size[e.key]) : e \in entries}

LEMMA StoreConstants ==
    /\ Objects \in SUBSET (Nat \ {0}) /\ IsFiniteSet(Objects)
    /\ MaxPuts \in Nat
    /\ Capacity \in Nat \ {0} /\ ListBatch \in Nat \ {0}
    /\ SubDirs \in Nat \ {0}
    /\ \A k \in Objects : Size[k] \in Nat
<1>1. Objects \in SUBSET (Nat \ {0}) /\ IsFiniteSet(Objects) /\ MaxPuts \in Nat
  BY CosAssumption, Zenon
<1>2. {SubDirs, Capacity, ListBatch, DeleteBatch} \subseteq Nat \ {0}
  BY CosAssumption, Zenon
<1>3. Size \in [Objects -> Nat \ {0}]
  BY CosAssumption, Zenon
<1> QED
  BY <1>1, <1>2, <1>3

LEMMA EntriesFinite == IsFiniteSet(Entries)
<1> DEFINE pair == [e \in Entries |-> <<e.key, e.timestamp>>]
<1>1. IsFiniteSet(Objects) /\ IsFiniteSet(1 .. MaxPuts)
  BY StoreConstants, FS_Interval
<1>3. IsFiniteSet(Objects \X (1 .. MaxPuts))
  BY <1>1, FS_Product
<1>2. pair \in Injection(Entries, Objects \X (1 .. MaxPuts))
  BY DEF Entries, Injection, IsInjective
<1> QED
  BY <1>2, <1>3, FS_Injection

LEMMA BytesFinite ==
    ASSUME NEW A \in SUBSET Entries
    PROVE  IsFiniteSet(BytesOf(A)) /\ Bytes(A) = Cardinality(BytesOf(A))
           /\ Bytes(A) \in Nat
<1> DEFINE Columns == [a \in A |-> {a} \X (1 .. Size[a.key])]
           Column == {{a} \X (1 .. Size[a.key]) : a \in A}
<1>1. IsFiniteSet(A)
  BY EntriesFinite, FS_Subset
<1>2. IsFiniteSet(Column)
  <2>1. Columns \in Surjection(A, Column)
    BY DEF Surjection
  <2> QED
    BY <1>1, <2>1, FS_Surjection
<1>3. ASSUME NEW C \in Column PROVE IsFiniteSet(C)
  <2>1. PICK a \in A : C = {a} \X (1 .. Size[a.key])
    OBVIOUS
  <2>2. PICK size \in Int : size = Size[a.key]
    <3>1. a.key \in Objects
      BY DEF Entries
    <3>2. Size[a.key] \in Nat
      BY <3>1, StoreConstants
    <3> QED
      BY <3>2
  <2>3. IsFiniteSet({a})
    BY FS_Singleton
  <2>4. IsFiniteSet(1 .. size)
    BY FS_Interval
  <2> QED
    BY <2>1, <2>2, <2>3, <2>4, FS_Product
<1>4. IsFiniteSet(BytesOf(A))
  BY <1>2, <1>3, FS_UNION DEF BytesOf
<1> QED
  BY <1>4, FS_CardinalityType DEF Bytes, BytesOf

(* Entries of different keys take no more than entries that have those keys.  *)
LEMMA BytesByKeys ==
    ASSUME NEW A \in SUBSET Entries, OneEach(A), NEW B \in SUBSET Entries,
           \A a \in A : \E b \in B : b.key = a.key
    PROVE  Bytes(A) <= Bytes(B)
<1> DEFINE mate(a) == CHOOSE b \in B : b.key = a.key
           moved == [x \in BytesOf(A) |-> <<mate(x[1]), x[2]>>]
<1>1. \A a \in A : mate(a) \in B /\ mate(a).key = a.key
  OBVIOUS
<1>2. \A x \in BytesOf(A) : x[1] \in A /\ x = <<x[1], x[2]>>
                            /\ x[2] \in 1 .. Size[x[1].key]
  BY DEF BytesOf
<1> HIDE DEF mate
<1>3. \A x \in BytesOf(A) : moved[x] \in BytesOf(B)
  <2> SUFFICES ASSUME NEW x \in BytesOf(A) PROVE <<mate(x[1]), x[2]>> \in BytesOf(B)
    OBVIOUS
  <2>1. mate(x[1]) \in B /\ x[2] \in 1 .. Size[mate(x[1]).key]
    BY <1>1, <1>2
  <2> QED
    BY <2>1 DEF BytesOf
<1>4. ASSUME NEW x \in BytesOf(A), NEW y \in BytesOf(A), moved[x] = moved[y]
      PROVE  x = y
  <2>1. mate(x[1]) = mate(y[1]) /\ x[2] = y[2]
    BY <1>4
  <2>2. x[1] \in A /\ y[1] \in A /\ x[1].key = y[1].key
    BY <1>1, <1>2, <2>1
  <2>3. x[1] = y[1]
    BY <2>2 DEF OneEach
  <2> QED
    BY <1>2, <2>1, <2>3
<1>5. moved \in Injection(BytesOf(A), BytesOf(B))
  BY <1>3, <1>4 DEF Injection, IsInjective
<1>6. Cardinality(BytesOf(A)) <= Cardinality(BytesOf(B))
  BY <1>5, BytesFinite, FS_Injection
<1> QED
  BY <1>6, BytesFinite

-----------------------------------------------------------------------------
(* The operations on the store.                                               *)

LEMMA CosStart == CosInit => CosInv
<1> SUFFICES ASSUME CosInit PROVE CosInv
  OBVIOUS
<1>1. CosTyped
  BY StoreConstants DEF CosInit, CosTyped, CosTypeOK, NotListing, Markers
<1> QED
  BY <1>1 DEF CosInit, CosInv, OneEach, ListedInOrder, SeenAfterWritten,
              MarkedBeyond, NotListing

(* Latest is the last write there was.                                        *)
LEMMA LatestBounds ==
    ASSUME CosTyped, NEW key \in Objects
    PROVE  Latest \in 0 .. puts /\ \A k \in Objects : written[k] <= Latest
<1> DEFINE times == {written[k] : k \in Objects}
<1>1. puts \in Nat /\ \A k \in Objects : written[k] \in 0 .. puts
  BY StoreConstants DEF CosTyped
<1>2. times \subseteq 0 .. puts /\ times # {}
  BY <1>1
<1>3. IsFiniteSet(0 .. puts)
  BY <1>1, FS_Interval
<1>4. times \in SUBSET Nat /\ IsFiniteSet(times)
  BY <1>1, <1>2, <1>3, FS_Subset
<1>5. Max(times) \in times /\ \A n \in times : n <= Max(times)
  BY <1>2, <1>4, GreatestNatural
<1> QED
  BY <1>2, <1>5 DEF Latest

(* What is newer than a marked object only grows.                             *)
LEMMA NewerTyped ==
    ASSUME CosTyped, NEW e \in Entries
    PROVE  Newer(e) \in SUBSET Entries /\ OneEach(Newer(e))
<1> SUFFICES ASSUME NEW k \in Objects, written[k] >= e.timestamp
             PROVE  [key |-> k, timestamp |-> written[k]] \in Entries
  BY DEF Newer, OneEach
<1>1. written[k] \in 0 .. puts /\ puts \in 0 .. MaxPuts /\ e.timestamp \in 1 .. MaxPuts
  BY DEF CosTyped, Entries
<1>2. written[k] \in 1 .. MaxPuts
  BY <1>1, StoreConstants
<1> QED
  BY <1>2 DEF Entries

LEMMA NewerGrows ==
    ASSUME CosTyped, CosTyped', \A k \in Objects : written[k] <= written'[k],
           NEW e \in Entries
    PROVE  Bytes(Newer(e)) <= Bytes(Newer(e)')
<1>1. /\ Newer(e) \in SUBSET Entries /\ OneEach(Newer(e))
      /\ Newer(e)' \in SUBSET Entries
  <2>1. Newer(e) \in SUBSET Entries /\ OneEach(Newer(e))
    BY NewerTyped
  <2>2. \A k \in Objects : written'[k] >= e.timestamp =>
          [key |-> k, timestamp |-> written'[k]] \in Entries
    <3>1. \A k \in Objects : written'[k] \in 0 .. puts'
      BY DEF CosTyped
    <3>2. puts' \in 0 .. MaxPuts /\ e.timestamp \in 1 .. MaxPuts
      BY DEF CosTyped, Entries
    <3>3. \A k \in Objects : written'[k] >= e.timestamp
                               => written'[k] \in 1 .. MaxPuts
      BY <3>1, <3>2, StoreConstants
    <3> QED
      BY <3>3 DEF Entries
  <2> QED
    BY <2>1, <2>2 DEF Newer
<1>2. \A a \in Newer(e) : \E b \in Newer(e)' : b.key = a.key
  <2> SUFFICES ASSUME NEW k \in Objects \ {e.key}, written[k] >= e.timestamp
               PROVE  \E b \in Newer(e)' : b.key = k
    BY DEF Newer
  <2>1. written[k] \in Int /\ written'[k] \in Int /\ e.timestamp \in Int
    BY DEF CosTyped, Entries
  <2>2. written'[k] >= e.timestamp
    BY <2>1
  <2>3. [key |-> k, timestamp |-> written'[k]] \in Newer(e)'
    BY <2>2 DEF Newer
  <2> QED
    BY <2>3
<1>3. PICK A \in SUBSET Entries, B \in SUBSET Entries :
         A = Newer(e) /\ B = Newer(e)'
  BY <1>1
<1>4. Bytes(A) <= Bytes(B)
  BY <1>1, <1>2, <1>3, BytesByKeys
<1> QED
  BY <1>3, <1>4

LEMMA MarkedStaysBeyond ==
    ASSUME CosTyped, CosTyped', \A k \in Objects : written[k] <= written'[k],
           MarkedBeyond, NEW e \in pending \union purging
    PROVE  Capacity <= Bytes(Newer(e)')
<1>1. e \in Entries /\ Capacity <= Bytes(Newer(e))
  BY DEF CosTyped, CosTypeOK, MarkedBeyond
<1>2. Bytes(Newer(e)) <= Bytes(Newer(e)')
  BY <1>1, NewerGrows
<1>3. Newer(e) \in SUBSET Entries
  BY <1>1, NewerTyped
<1>4. Newer(e)' \in SUBSET Entries
  <2> SUFFICES ASSUME NEW k \in Objects, written'[k] >= e.timestamp
               PROVE  [key |-> k, timestamp |-> written'[k]] \in Entries
    BY DEF Newer
  <2>1. /\ written'[k] \in 0 .. puts' /\ puts' \in 0 .. MaxPuts
        /\ e.timestamp \in 1 .. MaxPuts
    BY <1>1 DEF CosTyped, Entries
  <2>2. written'[k] \in 1 .. MaxPuts
    BY <2>1, StoreConstants
  <2> QED
    BY <2>2 DEF Entries
<1>5. PICK m, n : m = Bytes(Newer(e)) /\ n = Bytes(Newer(e)')
  OBVIOUS
<1>6. m \in Nat /\ n \in Nat /\ Capacity \in Nat
  BY <1>3, <1>4, <1>5, BytesFinite, StoreConstants
<1> QED
  BY <1>1, <1>2, <1>5, <1>6

LEMMA PutStep ==
    ASSUME CosInv, NEW key \in Objects, Put(key)
    PROVE  CosInv'
<1>1. PICK now \in {Latest, Latest + 1} \ {0} :
        /\ objects' = {e \in objects : e.key # key}
                        \union {[key |-> key, timestamp |-> now]}
        /\ written' = [written EXCEPT ![key] = now]
  BY DEF Put
<1>2. /\ puts < MaxPuts /\ puts' = puts + 1
      /\ UNCHANGED <<listing, pending, purging>>
  BY DEF Put
<1>3. CosTyped /\ OneEach(objects) /\ ListedInOrder /\ SeenAfterWritten
        /\ MarkedBeyond
  BY DEF CosInv
<1>4. puts \in 0 .. MaxPuts /\ written \in [Objects -> 0 .. puts] /\ MaxPuts \in Nat
  BY <1>3, StoreConstants DEF CosTyped
<1>5. Latest \in 0 .. puts /\ \A k \in Objects : written[k] <= Latest
  BY <1>3, LatestBounds
<1>6. now \in 1 .. puts' /\ now \in 1 .. MaxPuts /\ now \in Nat /\ written[key] <= now
  BY <1>2, <1>4, <1>5
<1>7. written' \in [Objects -> 0 .. puts'] /\ puts' \in 0 .. MaxPuts
  <2>1. \A k \in Objects : written[k] \in 0 .. puts' /\ now \in 0 .. puts'
    BY <1>2, <1>4, <1>6
  <2> QED
    BY <1>1, <1>2, <1>4, <2>1
<1>8. \A k \in Objects : written[k] <= written'[k]
  BY <1>1, <1>4, <1>6
<1>9. CosTyped'
  <2>1. [key |-> key, timestamp |-> now] \in Entries
    BY <1>6 DEF Entries
  <2>2. objects' \subseteq Entries
    BY <1>1, <1>3, <2>1 DEF CosTyped, CosTypeOK
  <2> QED
    BY <1>2, <1>3, <1>7, <2>2 DEF CosTyped, CosTypeOK
<1>10. OneEach(objects)'
  BY <1>1, <1>3 DEF OneEach
<1>11. ListedInOrder'
  BY <1>2, <1>3 DEF ListedInOrder, OneEach
<1>12. SeenAfterWritten'
  <2>1. ASSUME NEW e \in Entries, e.timestamp <= written[e.key]
        PROVE  e.timestamp <= written'[e.key]
    <3>1. e.key \in Objects /\ e.timestamp \in Int
      BY DEF Entries
    <3>2. written[e.key] \in Int /\ written'[e.key] \in Int
      BY <1>4, <1>7, <3>1
    <3> QED
      BY <1>8, <2>1, <3>1, <3>2
  <2>2. \A e \in objects' : e.timestamp <= written'[e.key]
    <3>1. written'[key] = now
      BY <1>1, <1>4
    <3>2. \A e \in objects : e \in Entries /\ e.timestamp <= written[e.key]
      BY <1>3 DEF CosTyped, CosTypeOK, SeenAfterWritten
    <3> QED
      BY <1>1, <1>6, <2>1, <3>1, <3>2
  <2>3. \A l \in Listers : \A e \in listing[l].entries :
          e \in Entries /\ e.timestamp <= written[e.key]
    BY <1>3 DEF CosTyped, CosTypeOK, SeenAfterWritten
  <2> QED
    BY <1>2, <2>1, <2>2, <2>3 DEF SeenAfterWritten
<1>13. MarkedBeyond'
  <2>1. \A e \in pending \union purging : Capacity <= Bytes(Newer(e)')
    BY <1>3, <1>8, <1>9, MarkedStaysBeyond
  <2> QED
    BY <1>2, <2>1 DEF MarkedBeyond, Bytes, Newer
<1> QED
  BY <1>9, <1>10, <1>11, <1>12, <1>13 DEF CosInv

(* A batch is what follows the marker, and not empty if there is more.        *)
LEMMA BatchFollows ==
    ASSUME CosTyped, OneEach(objects), NEW d \in Dirs, NEW marker \in Nat
    PROVE  /\ Batch(d, marker) \in SUBSET objects
           /\ OneEach(Batch(d, marker))
           /\ \A e \in Batch(d, marker) : MakeObjectKey(e.key) = d /\ e.key > marker
           /\ Truncated(d, marker) =>
                LET last == Max({e.key : e \in Batch(d, marker)})
                IN  last \in Nat /\ last > marker
                    /\ \A e \in Batch(d, marker) : e.key <= last
<1> DEFINE all == Beyond(d, marker)
           batch == Batch(d, marker)
           keys == {e.key : e \in batch}
<1>1. batch \subseteq all /\ all \subseteq objects
  BY DEF Batch, Beyond
<1>2. \A e \in all : MakeObjectKey(e.key) = d /\ e.key > marker /\ e.key \in Nat
                     /\ e.key \in Objects
  BY StoreConstants DEF Beyond, CosTyped, CosTypeOK, Entries
<1>3. OneEach(batch)
  BY <1>1 DEF OneEach
<1>4. ASSUME Truncated(d, marker) PROVE batch # {}
  <2>1. all # {}
    BY <1>1, <1>4 DEF Truncated
  <2>2. PICK e \in all : \A f \in all : e.key <= f.key
    <3> DEFINE numbers == {f.key : f \in all}
    <3>1. numbers \in SUBSET Nat /\ numbers # {}
      BY <1>2, <2>1
    <3>2. PICK m \in numbers : \A n \in numbers : m <= n
      BY <3>1, LeastNatural
    <3> QED
      BY <3>2
  <2>3. {f \in all : f.key < e.key} = {}
    BY <1>2, <2>2
  <2>4. Cardinality({f \in all : f.key < e.key}) < ListBatch
    BY <2>3, FS_EmptySet, StoreConstants
  <2> QED
    BY <2>4 DEF Batch
<1>5. keys \in SUBSET Nat /\ IsFiniteSet(keys)
  <2>1. keys \subseteq Objects
    BY <1>1, <1>2
  <2>2. IsFiniteSet(keys)
    BY <2>1, StoreConstants, FS_Subset
  <2> QED
    BY <1>1, <1>2, <2>2
<1> HIDE DEF batch, all
<1>6. ASSUME Truncated(d, marker)
      PROVE  /\ Max(keys) \in Nat /\ Max(keys) > marker
             /\ \A e \in batch : e.key <= Max(keys)
  <2>1. Max(keys) \in keys /\ \A n \in keys : n <= Max(keys)
    BY <1>4, <1>5, <1>6, GreatestNatural
  <2> QED
    BY <1>1, <1>2, <2>1
<1> QED
  BY <1>1, <1>2, <1>3, <1>6 DEF batch

LEMMA ListingStep ==
    ASSUME CosInv, NEW l \in Listers, NEW d \in Dirs,
           BeginListing(l) \/ GetEntriesIn(l, d) \/ ListingFails(l, d)
    PROVE  CosInv'
<1> DEFINE Listings == [at : {"idle", "listing"}, marker : [Dirs -> Markers],
                        entries : SUBSET Entries]
<1>1. UNCHANGED <<storeVars, pending, purging, puts>>
  BY DEF BeginListing, GetEntriesIn, ListingFails
<1>2. CosTyped /\ OneEach(objects) /\ ListedInOrder /\ SeenAfterWritten
        /\ MarkedBeyond
  BY DEF CosInv
<1>3. PICK q \in Listings : q = listing[l]
  BY <1>2 DEF CosTyped
<1>4. /\ OneEach(q.entries)
      /\ \A e \in q.entries :
           \/ q.marker[MakeObjectKey(e.key)] = Done
           \/ e.key <= q.marker[MakeObjectKey(e.key)]
      /\ \A e \in q.entries : e.timestamp <= written[e.key]
  BY <1>2, <1>3 DEF ListedInOrder, SeenAfterWritten
<1>5. \A e \in Entries : MakeObjectKey(e.key) \in Dirs /\ e.key \in Nat
  <2> SUFFICES ASSUME NEW e \in Entries
               PROVE  MakeObjectKey(e.key) \in Dirs /\ e.key \in Nat
    OBVIOUS
  <2>1. e.key \in Nat /\ SubDirs \in Nat \ {0}
    BY StoreConstants DEF Entries
  <2> QED
    BY <2>1 DEF MakeObjectKey, Dirs
<1>6. ASSUME NEW r \in Listings, listing' = [listing EXCEPT ![l] = r],
             OneEach(r.entries),
             \A e \in r.entries : \/ r.marker[MakeObjectKey(e.key)] = Done
                                  \/ e.key <= r.marker[MakeObjectKey(e.key)],
             \A e \in r.entries : e.timestamp <= written[e.key]
      PROVE  CosInv'
  <2>1. listing \in [Listers -> Listings]
    BY <1>2 DEF CosTyped
  <2>2. listing'[l] = r /\ \A k \in Listers : k # l => listing'[k] = listing[k]
    BY <1>6, <2>1
  <2>3. listing' \in [Listers -> Listings]
    BY <1>6, <2>1
  <2>4. CosTyped'
    BY <1>1, <1>2, <2>3 DEF CosTyped, CosTypeOK, storeVars
  <2>5. ListedInOrder'
    <3> SUFFICES ASSUME NEW k \in Listers
                 PROVE  /\ OneEach(listing'[k].entries)
                        /\ \A e \in listing'[k].entries :
                             LET marker == listing'[k].marker[MakeObjectKey(e.key)]
                             IN  marker = Done \/ e.key <= marker
      BY DEF ListedInOrder, OneEach, MakeObjectKey
    <3>1. CASE k = l
      BY <1>6, <2>2, <3>1
    <3>2. CASE k # l
      BY <1>2, <2>2, <3>2 DEF ListedInOrder
    <3> QED
      BY <3>1, <3>2
  <2>6. SeenAfterWritten'
    BY <1>1, <1>2, <1>6, <2>2 DEF SeenAfterWritten, storeVars
  <2>7. OneEach(objects)' /\ MarkedBeyond'
    BY <1>1, <1>2 DEF OneEach, MarkedBeyond, Bytes, Newer, storeVars
  <2> QED
    BY <2>4, <2>5, <2>6, <2>7 DEF CosInv
<1>7. CASE BeginListing(l)
  <2>1. PICK r \in Listings : r = [q EXCEPT !.at = "listing"]
    OBVIOUS
  <2>2. listing' = [listing EXCEPT ![l] = r]
    BY <1>3, <1>7, <2>1 DEF BeginListing
  <2>3. r.entries = q.entries /\ r.marker = q.marker
    BY <2>1
  <2> QED
    BY <1>4, <1>6, <2>2, <2>3
<1>8. CASE ListingFails(l, d)
  <2>1. PICK r \in Listings : r = [q EXCEPT !.marker = [q.marker EXCEPT ![d] = Done]]
    BY DEF Markers
  <2>2. listing' = [listing EXCEPT ![l] = r]
    BY <1>3, <1>8, <2>1 DEF ListingFails
  <2>3. r.entries = q.entries /\ r.marker = [q.marker EXCEPT ![d] = Done]
    BY <2>1
  <2>4. \A e \in r.entries : \/ r.marker[MakeObjectKey(e.key)] = Done
                             \/ e.key <= r.marker[MakeObjectKey(e.key)]
    <3>1. \A e \in r.entries : MakeObjectKey(e.key) \in Dirs
      BY <1>5, <2>3
    <3> QED
      BY <1>4, <2>3, <3>1
  <2> QED
    BY <1>4, <1>6, <2>2, <2>3, <2>4
<1>9. CASE GetEntriesIn(l, d)
  <2> DEFINE marker == q.marker[d]
             batch == Batch(d, marker)
  <2>1. marker \in Nat
    BY <1>3, <1>9 DEF GetEntriesIn, Markers
  <2>2. PICK new \in Markers :
          /\ listing' = [listing EXCEPT ![l].entries = q.entries \union batch,
                                        ![l].marker[d] = new]
          /\ \/ new = Done
             \/ /\ Truncated(d, marker)
                /\ new = Max({e.key : e \in batch})
    <3>1. Truncated(d, marker) => Max({e.key : e \in batch}) \in Nat
      BY <1>2, <2>1, BatchFollows
    <3> QED
      BY <1>3, <1>9, <3>1 DEF GetEntriesIn, Markers
  <2>3. /\ batch \in SUBSET objects /\ OneEach(batch)
        /\ \A e \in batch : MakeObjectKey(e.key) = d /\ e.key > marker
        /\ new # Done => /\ new \in Nat /\ new > marker
                         /\ \A e \in batch : e.key <= new
    <3>1. /\ batch \in SUBSET objects /\ OneEach(batch)
          /\ \A e \in batch : MakeObjectKey(e.key) = d /\ e.key > marker
      BY <1>2, <2>1, BatchFollows
    <3>2. ASSUME new # Done
          PROVE  new \in Nat /\ new > marker /\ \A e \in batch : e.key <= new
      <4>1. Truncated(d, marker) /\ new = Max({e.key : e \in batch})
        BY <2>2, <3>2
      <4> QED
        BY <1>2, <2>1, <4>1, BatchFollows
    <3> QED
      BY <3>1, <3>2
  <2>4. objects \subseteq Entries
    BY <1>2 DEF CosTyped, CosTypeOK
  <2> HIDE DEF batch
  <2>5. PICK r \in Listings : r = [q EXCEPT !.entries = q.entries \union batch,
                                         !.marker = [q.marker EXCEPT ![d] = new]]
    BY <2>3, <2>4
  <2>6. listing' = [listing EXCEPT ![l] = r]
    BY <1>3, <2>2, <2>5
  <2>7. /\ r.entries = q.entries \union batch
        /\ r.marker = [q.marker EXCEPT ![d] = new]
    BY <2>5
  <2>8. OneEach(r.entries)
    <3>1. ASSUME NEW e \in q.entries, NEW f \in batch PROVE e.key # f.key
      <4>1. e.key \in Nat /\ f.key \in Nat
        BY <1>5, <2>3, <2>4
      <4>2. MakeObjectKey(f.key) = d /\ f.key > marker
        BY <2>3
      <4>3. MakeObjectKey(e.key) = d => e.key <= marker
        BY <1>4, <2>1 DEF Done
      <4> QED
        BY <2>1, <4>1, <4>2, <4>3
    <3> QED
      BY <1>4, <2>3, <2>7, <3>1 DEF OneEach
  <2>9. ASSUME NEW e \in r.entries
        PROVE  \/ r.marker[MakeObjectKey(e.key)] = Done
               \/ e.key <= r.marker[MakeObjectKey(e.key)]
    <3>1. MakeObjectKey(e.key) \in Dirs /\ e.key \in Nat
      BY <1>5
    <3>2. CASE MakeObjectKey(e.key) # d
      BY <1>4, <2>3, <2>7, <3>1, <3>2
    <3>3. CASE MakeObjectKey(e.key) = d /\ new # Done
      <4>1. r.marker[d] = new
        BY <2>7
      <4>2. e \in batch => e.key <= new
        BY <2>3, <3>3
      <4>3. e \in q.entries => e.key <= marker
        BY <1>4, <2>1, <3>3 DEF Done
      <4> QED
        BY <2>1, <2>3, <2>7, <3>1, <3>3, <4>1, <4>2, <4>3
    <3>4. CASE MakeObjectKey(e.key) = d /\ new = Done
      BY <2>7, <3>4
    <3> QED
      BY <3>2, <3>3, <3>4
  <2>10. \A e \in r.entries : e.timestamp <= written[e.key]
    BY <1>2, <1>4, <2>3, <2>7 DEF SeenAfterWritten
  <2> QED
    BY <1>6, <2>6, <2>8, <2>9, <2>10
<1> QED
  BY <1>7, <1>8, <1>9

(* The listing is complete: what it marks lies behind a capacity's worth of   *)
(* other keys, which may have been written again but not earlier.             *)
LEMMA MarkStep ==
    ASSUME CosInv, NEW l \in Listers, GetEntries(l)
    PROVE  CosInv'
<1> DEFINE Listings == [at : {"idle", "listing"}, marker : [Dirs -> Markers],
                        entries : SUBSET Entries]
           entries == listing[l].entries
<1>1. CosTyped /\ OneEach(objects) /\ ListedInOrder /\ SeenAfterWritten
        /\ MarkedBeyond
  BY DEF CosInv
<1>2. PICK kept \in Keeps(entries) : pending' = pending \union (entries \ kept)
  BY DEF GetEntries
<1>3. /\ listing' = [listing EXCEPT ![l] = NotListing]
      /\ UNCHANGED <<storeVars, purging, puts>>
  BY DEF GetEntries
<1>4. listing \in [Listers -> Listings] /\ NotListing \in Listings
  BY <1>1 DEF CosTyped, NotListing, Markers
<1>5. /\ listing' \in [Listers -> Listings] /\ listing'[l] = NotListing
      /\ \A k \in Listers : k # l => listing'[k] = listing[k]
  BY <1>3, <1>4
<1>6. entries \in SUBSET Entries /\ OneEach(entries)
      /\ \A e \in entries : e.timestamp <= written[e.key]
  BY <1>1, <1>4 DEF ListedInOrder, SeenAfterWritten
<1>7. CosTyped'
  <2>1. pending' \subseteq Entries
    BY <1>1, <1>2, <1>6 DEF CosTyped, CosTypeOK
  <2>2. \A k \in Listers : listing'[k].entries \subseteq Entries
    BY <1>5
  <2> QED
    BY <1>1, <1>3, <1>5, <2>1, <2>2 DEF CosTyped, CosTypeOK, storeVars
<1>8. OneEach(objects)' /\ SeenAfterWritten'
  <2>1. \A k \in Listers : listing'[k].entries = listing[k].entries
                            \/ listing'[k].entries = {}
    BY <1>5 DEF NotListing
  <2> QED
    BY <1>1, <1>3, <2>1 DEF OneEach, SeenAfterWritten, storeVars
<1>9. ListedInOrder'
  <2> SUFFICES ASSUME NEW k \in Listers
               PROVE  /\ OneEach(listing'[k].entries)
                      /\ \A e \in listing'[k].entries :
                           LET marker == listing'[k].marker[MakeObjectKey(e.key)]
                           IN  marker = Done \/ e.key <= marker
    BY DEF ListedInOrder, OneEach, MakeObjectKey
  <2>1. CASE k = l
    BY <1>5, <2>1 DEF NotListing, OneEach
  <2>2. CASE k # l
    BY <1>1, <1>5, <2>2 DEF ListedInOrder
  <2> QED
    BY <2>1, <2>2
<1>10. ASSUME NEW e \in entries \ kept
       PROVE  Capacity <= Bytes(Newer(e))
  <2>1. /\ kept \in SUBSET entries /\ Bytes(kept) >= Capacity
        /\ \A f \in kept : f.timestamp >= e.timestamp
    BY <1>2 DEF Keeps, NewestFirst
  <2>2. e \in Entries /\ kept \in SUBSET Entries /\ OneEach(kept)
    BY <1>6, <2>1 DEF OneEach
  <2>3. Newer(e) \in SUBSET Entries
    BY <1>1, <2>2, NewerTyped
  <2>4. ASSUME NEW f \in kept PROVE \E g \in Newer(e) : g.key = f.key
    <3>1. f \in Entries /\ f \in entries /\ f.key # e.key
      BY <1>6, <2>1, <2>2 DEF OneEach
    <3>2. f.key \in Objects \ {e.key} /\ f.timestamp \in Int /\ e.timestamp \in Int
      BY <2>2, <3>1 DEF Entries
    <3>3. written[f.key] \in Int
      BY <1>1, <3>2 DEF CosTyped
    <3>4. written[f.key] >= e.timestamp
      BY <1>6, <2>1, <3>1, <3>2, <3>3
    <3>5. [key |-> f.key, timestamp |-> written[f.key]] \in Newer(e)
      BY <3>2, <3>4 DEF Newer
    <3> QED
      BY <3>5
  <2>5. Bytes(kept) <= Bytes(Newer(e))
    BY <2>2, <2>3, <2>4, BytesByKeys
  <2>6. PICK m, n : m = Bytes(kept) /\ n = Bytes(Newer(e))
    OBVIOUS
  <2>7. m \in Nat /\ n \in Nat /\ Capacity \in Nat
    BY <2>2, <2>3, <2>6, BytesFinite, StoreConstants
  <2> QED
    BY <2>1, <2>5, <2>6, <2>7
<1>11. MarkedBeyond'
  <2>1. \A e \in pending' \union purging : Capacity <= Bytes(Newer(e))
    BY <1>1, <1>2, <1>10 DEF MarkedBeyond
  <2> QED
    BY <1>3, <2>1 DEF MarkedBeyond, Bytes, Newer, storeVars
<1> QED
  BY <1>7, <1>8, <1>9, <1>11 DEF CosInv

(* Deleting, and calls that fail, mark nothing and write nothing.             *)
LEMMA PurgeStep ==
    ASSUME CosInv, OnPurgeTimer \/ PurgeFails \/ PutFails
    PROVE  CosInv'
<1>1. CosTyped /\ OneEach(objects) /\ ListedInOrder /\ SeenAfterWritten
        /\ MarkedBeyond
  BY DEF CosInv
<1>2. /\ objects' \subseteq objects /\ UNCHANGED <<written, listing>>
      /\ pending' \subseteq pending \union purging
      /\ purging' \subseteq pending \union purging
      /\ puts' = puts \/ (puts < MaxPuts /\ puts' = puts + 1)
  <2>1. CASE BeginPurge
    BY <2>1 DEF BeginPurge, storeVars
  <2>2. CASE Purge
    BY <2>2 DEF Purge
  <2>3. CASE PurgeFails
    BY <2>3 DEF PurgeFails, storeVars
  <2>4. CASE PutFails
    BY <2>4 DEF PutFails, storeVars
  <2> QED
    BY <2>1, <2>2, <2>3, <2>4 DEF OnPurgeTimer
<1>3. puts' \in 0 .. MaxPuts /\ written' \in [Objects -> 0 .. puts']
  <2>1. puts \in 0 .. MaxPuts /\ MaxPuts \in Nat /\ written \in [Objects -> 0 .. puts]
    BY <1>1, StoreConstants DEF CosTyped
  <2>2. puts' \in 0 .. MaxPuts /\ 0 .. puts \subseteq 0 .. puts'
    BY <1>2, <2>1
  <2> QED
    BY <1>2, <2>1, <2>2
<1>4. CosTyped'
  BY <1>1, <1>2, <1>3 DEF CosTyped, CosTypeOK
<1>5. OneEach(objects)' /\ ListedInOrder' /\ SeenAfterWritten'
  BY <1>1, <1>2 DEF OneEach, ListedInOrder, SeenAfterWritten
<1>6. MarkedBeyond'
  BY <1>1, <1>2 DEF MarkedBeyond, Bytes, Newer
<1> QED
  BY <1>4, <1>5, <1>6 DEF CosInv

(* A purge, however its listing raced with writers, with the purge before and *)
(* with the other lister, deletes only what was beyond the capacity:          *)
(* CosCacheEngine::GetEntries and its purge timer.                            *)
THEOREM PurgesOldestCorrect == CosSpec => []PurgesOldest
<1>1. ASSUME CosInv, [CosNext]_cosVars
      PROVE  CosInv'
  <2>1. ASSUME NEW key \in Objects, Put(key) PROVE CosInv'
    BY <1>1, <2>1, PutStep
  <2>2. ASSUME NEW l \in Listers, BeginListing(l) PROVE CosInv'
    <3>1. 0 \in Dirs
      BY StoreConstants DEF Dirs
    <3> QED
      BY <1>1, <2>2, <3>1, ListingStep
  <2>3. ASSUME NEW l \in Listers, NEW d \in Dirs,
               GetEntriesIn(l, d) \/ ListingFails(l, d)
        PROVE  CosInv'
    BY <1>1, <2>3, ListingStep
  <2>4. ASSUME NEW l \in Listers, GetEntries(l) PROVE CosInv'
    BY <1>1, <2>4, MarkStep
  <2>5. ASSUME OnPurgeTimer \/ PurgeFails \/ PutFails PROVE CosInv'
    BY <1>1, <2>5, PurgeStep
  <2>6. CASE UNCHANGED cosVars
    <3>1. /\ objects' = objects /\ written' = written /\ listing' = listing
          /\ pending' = pending /\ purging' = purging /\ puts' = puts
          /\ faults' = faults
      BY <2>6 DEF cosVars
    <3>2. CosTyped'
      <4>1. CosTypeOK'
        BY <1>1, <3>1 DEF CosInv, CosTyped, CosTypeOK
      <4>2. puts' \in 0 .. MaxPuts /\ written' \in [Objects -> 0 .. puts']
        BY <1>1, <3>1 DEF CosInv, CosTyped
      <4>3. listing' \in [Listers -> [at : {"idle", "listing"},
                                     marker : [Dirs -> Markers],
                                     entries : SUBSET Entries]]
        BY <1>1, <3>1 DEF CosInv, CosTyped
      <4> QED
        BY <4>1, <4>2, <4>3 DEF CosTyped
    <3>3. OneEach(objects')
      BY <1>1, <3>1 DEF CosInv, OneEach
    <3>5. ListedInOrder'
      BY <1>1, <3>1 DEF CosInv, ListedInOrder
    <3>6. SeenAfterWritten'
      BY <1>1, <3>1 DEF CosInv, SeenAfterWritten
    <3>4. MarkedBeyond'
      <4>1. \A e : Newer(e)' = Newer(e)
        BY <3>1 DEF Newer
      <4>2. \A e : Bytes(Newer(e)') = Bytes(Newer(e))
        BY <4>1
      <4> QED
        BY <1>1, <3>1, <4>2 DEF CosInv, MarkedBeyond
    <3> QED
      BY <3>2, <3>3, <3>4, <3>5, <3>6 DEF CosInv, OneEach
  <2> QED
    BY <1>1, <2>1, <2>2, <2>3, <2>4, <2>5, <2>6 DEF CosNext, GetKeys
<1>2. CosInv => PurgesOldest
  BY DEF CosInv, CosTyped, MarkedBeyond, PurgesOldest
<1> QED
  BY <1>1, <1>2, CosStart, PTL DEF CosSpec

-----------------------------------------------------------------------------
HIDE CacheServiceAssumption

(* Loops.  A function on states says what a round does; it is iterated.       *)

IsRun(run, round, start, States, bound) ==
    /\ run = [i \in 0 .. bound |-> run[i]]
    /\ \A i \in 0 .. bound : run[i] \in States
    /\ run[0] = start
    /\ \A i \in 1 .. bound : run[i] = round[run[i - 1]]

(* The recursion is well defined.                                             *)
LEMMA RunExists ==
    ASSUME NEW States, NEW round, \A x \in States : round[x] \in States,
           NEW start \in States, NEW bound \in Nat
    PROVE  \E run : IsRun(run, round, start, States, bound)
<1> DEFINE Runs(n, run) == /\ run[0] = start
                           /\ \A i \in 1 .. n : run[i] = round[run[i - 1]]
           Bad == {n \in Nat : ~ \E run \in [0 .. n -> States] : Runs(n, run)}
<1>1. ASSUME Bad # {} PROVE FALSE
  <2>1. PICK n \in Bad : \A i \in Bad : n <= i
    BY <1>1, LeastNatural
  <2>2. CASE n = 0
    <3>1. [i \in 0 .. 0 |-> start] \in [0 .. 0 -> States]
          /\ Runs(0, [i \in 0 .. 0 |-> start])
      OBVIOUS
    <3> QED
      BY <2>2, <3>1
  <2>3. CASE n # 0
    <3>1. n \in Nat /\ n - 1 \in Nat /\ ~(n <= n - 1)
      BY <2>1, <2>3
    <3>7. n - 1 \notin Bad
      BY <2>1, <3>1
    <3>2. PICK run \in [0 .. n - 1 -> States] : Runs(n - 1, run)
      BY <3>1, <3>7
    <3> DEFINE longer == [i \in 0 .. n |->
                            IF i = n THEN round[run[n - 1]] ELSE run[i]]
    <3>3. longer \in [0 .. n -> States]
      BY <2>3
    <3>4. longer[0] = start
      BY <2>3, <3>2
    <3>5. ASSUME NEW i \in 1 .. n PROVE longer[i] = round[longer[i - 1]]
      <4>1. i - 1 \in 0 .. n - 1
        OBVIOUS
      <4>2. longer[i - 1] = run[i - 1]
        BY <4>1
      <4>3. i # n => i \in 1 .. n - 1 /\ longer[i] = run[i]
        OBVIOUS
      <4> QED
        BY <3>2, <4>2, <4>3
    <3> QED
      BY <2>1, <3>3, <3>4, <3>5
  <2> QED
    BY <2>2, <2>3
<1>2. PICK run \in [0 .. bound -> States] : Runs(bound, run)
  BY <1>1
<1>3. run = [i \in 0 .. bound |-> run[i]] /\ \A i \in 0 .. bound : run[i] \in States
  OBVIOUS
<1> QED
  BY <1>2, <1>3 DEF IsRun

(* With a measure that every round lowers, the bound is never what stops it.  *)
LEMMA RunEnds ==
    ASSUME NEW States, NEW Going \in SUBSET States,
           NEW round, \A x \in States : round[x] \in States,
           NEW measure, \A x \in States : measure[x] \in Nat,
           NEW bound \in Nat, NEW run,
           run[0] \in States, measure[run[0]] <= bound,
           \A n \in 1 .. bound :
             run[n - 1] \in States => run[n] = round[run[n - 1]],
           \A x \in Going : measure[round[x]] < measure[x],
           \A x \in States \ Going : round[x] = x
    PROVE  run[bound] \in States \ Going
<1> DEFINE Kept(n) == /\ run[n] \in States
                      /\ run[n] \in Going => measure[run[n]] + n <= bound
           Bad == {n \in 0 .. bound : ~ Kept(n)}
<1>1. ASSUME Bad # {} PROVE FALSE
  <2>9. Bad \in SUBSET Nat
    OBVIOUS
  <2>1. PICK n \in Bad : \A i \in Bad : n <= i
    BY <1>1, <2>9, LeastNatural
  <2>2. n # 0
    BY <2>1
  <2>3. n - 1 \in 0 .. bound /\ n \in 1 .. bound /\ n - 1 \notin Bad
    BY <2>1, <2>2
  <2>4. Kept(n - 1)
    BY <2>3
  <2>5. run[n] = round[run[n - 1]] /\ run[n] \in States
    BY <2>3, <2>4
  <2>6. measure[run[n - 1]] \in Nat /\ measure[run[n]] \in Nat
    BY <2>4, <2>5
  <2>7. CASE run[n - 1] \in Going
    <3>1. measure[run[n - 1]] + (n - 1) <= bound
          /\ measure[run[n]] < measure[run[n - 1]]
      BY <2>4, <2>5, <2>7
    <3>2. measure[run[n]] + n <= bound
      BY <2>3, <2>6, <3>1
    <3> QED
      BY <2>1, <2>5, <3>2
  <2>8. CASE run[n - 1] \notin Going
    BY <2>1, <2>4, <2>5, <2>8
  <2> QED
    BY <2>7, <2>8
<1>2. Kept(bound)
  BY <1>1
<1>3. ASSUME run[bound] \in Going PROVE FALSE
  <2>1. measure[run[bound]] \in Nat /\ measure[run[bound]] + bound <= bound
    BY <1>2, <1>3
  <2>2. measure[run[bound]] = 0
    BY <2>1
  <2>3. measure[round[run[bound]]] \in Nat /\ measure[round[run[bound]]] < 0
    BY <1>3, <2>2
  <2> QED
    BY <2>3
<1> QED
  BY <1>2, <1>3

-----------------------------------------------------------------------------
(* What a set of entries takes.                                               *)

EntryTypes == [key : EntryKeys, size : Nat]

CacheLists == [size : Nat, list : Seq(EntryTypes)]

BytesIn(entries) == UNION {{e} \X (1 .. e.size) : e \in entries}

LEMMA TotalFinite ==
    ASSUME NEW E \in SUBSET EntryTypes, IsFiniteSet(E)
    PROVE  /\ IsFiniteSet(BytesIn(E)) /\ Total(E) = Cardinality(BytesIn(E))
           /\ Total(E) \in Nat
<1> DEFINE Columns == [e \in E |-> {e} \X (1 .. e.size)]
           Column == {{e} \X (1 .. e.size) : e \in E}
<1>1. IsFiniteSet(Column)
  <2>1. Columns \in Surjection(E, Column)
    BY DEF Surjection
  <2> QED
    BY <2>1, FS_Surjection
<1>2. ASSUME NEW C \in Column PROVE IsFiniteSet(C)
  <2>1. PICK e \in E : C = {e} \X (1 .. e.size)
    OBVIOUS
  <2>2. PICK size \in Int : size = e.size
    BY DEF EntryTypes
  <2>3. IsFiniteSet({e})
    BY FS_Singleton
  <2>4. IsFiniteSet(1 .. size)
    BY FS_Interval
  <2> QED
    BY <2>1, <2>2, <2>3, <2>4, FS_Product
<1>3. IsFiniteSet(BytesIn(E))
  BY <1>1, <1>2, FS_UNION DEF BytesIn
<1> QED
  BY <1>3, FS_CardinalityType DEF Total, BytesIn

LEMMA TotalOfNone == Total({}) = 0
<1>1. UNION {{e} \X (1 .. e.size) : e \in {}} = {}
  OBVIOUS
<1> QED
  BY <1>1, FS_EmptySet DEF Total

LEMMA TotalWith ==
    ASSUME NEW E \in SUBSET EntryTypes, IsFiniteSet(E),
           NEW x \in EntryTypes, x \notin E
    PROVE  Total(E \union {x}) = Total(E) + x.size
<1> DEFINE more == {x} \X (1 .. x.size)
<1>1. PICK size \in Nat : size = x.size
  BY DEF EntryTypes
<1>2. IsFiniteSet(more) /\ Cardinality(more) = size
  <2>1. IsFiniteSet({x}) /\ Cardinality({x}) = 1
    BY FS_Singleton
  <2>2. size \in Int /\ 1 \in Int
    OBVIOUS
  <2>3. IsFiniteSet(1 .. size)
        /\ Cardinality(1 .. size) = IF 1 > size THEN 0 ELSE size - 1 + 1
    BY <2>2, FS_Interval
  <2>4. Cardinality(1 .. size) = size
    BY <2>3
  <2>5. IsFiniteSet(more) /\ Cardinality(more) = Cardinality({x}) * Cardinality(1 .. size)
    BY <1>1, <2>1, <2>3, FS_Product
  <2> QED
    BY <2>1, <2>4, <2>5
<1>3. BytesIn(E \union {x}) = BytesIn(E) \union more
  BY DEF BytesIn
<1>4. BytesIn(E) \cap more = {}
  <2> SUFFICES ASSUME NEW b \in BytesIn(E), b \in more PROVE FALSE
    OBVIOUS
  <2>1. PICK e \in E : b \in {e} \X (1 .. e.size)
    BY DEF BytesIn
  <2>2. b[1] = e /\ b[1] = x
    BY <2>1
  <2> QED
    BY <2>2
<1>5. IsFiniteSet(BytesIn(E)) /\ Total(E) = Cardinality(BytesIn(E)) /\ Total(E) \in Nat
  BY TotalFinite
<1>7. Cardinality({}) = 0
  BY FS_EmptySet
<1>6. Cardinality(BytesIn(E) \union more) = Cardinality(BytesIn(E)) + Cardinality(more)
  <2> HIDE DEF more
  <2>1. Cardinality(BytesIn(E) \union more)
          = Cardinality(BytesIn(E)) + Cardinality(more) - Cardinality(BytesIn(E) \cap more)
    BY <1>2, <1>5, FS_Union
  <2>2. Cardinality(BytesIn(E) \cap more) = 0
    BY <1>4, <1>7
  <2>3. Cardinality(BytesIn(E)) \in Nat /\ Cardinality(more) \in Nat
    BY <1>1, <1>2, <1>5
  <2> QED
    BY <2>1, <2>2, <2>3
<1>8. Total(E \union {x}) = Cardinality(BytesIn(E \union {x}))
  BY DEF Total, BytesIn
<1> HIDE DEF more
<1>9. Cardinality(BytesIn(E \union {x})) = Total(E) + size
  BY <1>2, <1>3, <1>5, <1>6
<1> QED
  BY <1>1, <1>8, <1>9

-----------------------------------------------------------------------------
(* A list whose counter is right and that holds no key twice.                 *)

ListExact(l) ==
    /\ l \in CacheLists
    /\ \A i, j \in DOMAIN l.list : l.list[i].key = l.list[j].key => i = j
    /\ l.size = Total(Listed(l))

LEMMA ListedTyped ==
    ASSUME NEW l \in CacheLists
    PROVE  /\ Listed(l) \in SUBSET EntryTypes /\ IsFiniteSet(Listed(l))
           /\ DOMAIN l.list = 1 .. Len(l.list) /\ Len(l.list) \in Nat
           /\ Listed(l) = {l.list[i] : i \in 1 .. Len(l.list)}
<1>1. l.list \in Seq(EntryTypes)
  BY DEF CacheLists
<1>2. DOMAIN l.list = 1 .. Len(l.list) /\ Len(l.list) \in Nat
  BY <1>1
<1>3. Listed(l) = {l.list[i] : i \in 1 .. Len(l.list)}
  BY <1>2 DEF Listed, SeqOps!ToSet
<1>4. Listed(l) \in SUBSET EntryTypes
  BY <1>1, <1>3
<1>5. IsFiniteSet(Listed(l))
  <2>1. [i \in 1 .. Len(l.list) |-> l.list[i]]
          \in Surjection(1 .. Len(l.list), Listed(l))
    BY <1>3 DEF Surjection
  <2>2. IsFiniteSet(1 .. Len(l.list))
    <3>1. PICK n \in Int : n = Len(l.list)
      BY <1>2
    <3>2. IsFiniteSet(1 .. n)
      BY FS_Interval
    <3> QED
      BY <3>1, <3>2
  <2> QED
    BY <2>1, <2>2, FS_Surjection
<1> QED
  BY <1>2, <1>3, <1>4, <1>5

(* Only empty entries are in a list of size zero.                             *)
LEMMA SizedNotEmpty ==
    ASSUME NEW l, ListExact(l), l.size > 0
    PROVE  Len(l.list) > 0
<1>1. l \in CacheLists /\ l.size = Total(Listed(l))
  BY DEF ListExact
<1>2. ASSUME Len(l.list) = 0 PROVE FALSE
  <2>1. 1 .. Len(l.list) = {}
    BY <1>2
  <2>2. Listed(l) = {}
    BY <1>1, <2>1, ListedTyped
  <2> QED
    BY <1>1, <2>2, TotalOfNone
<1> QED
  BY <1>1, <1>2, ListedTyped

LEMMA PushedExact ==
    ASSUME NEW l, ListExact(l), NEW key \in EntryKeys, NEW size \in Nat,
           key \notin KeysIn(l)
    PROVE  /\ ListExact(PushFront(l, key, size))
           /\ Listed(PushFront(l, key, size)) = Listed(l) \union {Entry(key, size)}
           /\ Len(PushFront(l, key, size).list) = Len(l.list) + 1
           /\ PushFront(l, key, size).size = l.size + size
<1> DEFINE x == Entry(key, size)
           s == <<x>> \o l.list
           p == PushFront(l, key, size)
<1>1. /\ l \in CacheLists /\ l.size = Total(Listed(l))
      /\ \A i, j \in DOMAIN l.list : l.list[i].key = l.list[j].key => i = j
  BY DEF ListExact
<1>2. l.list \in Seq(EntryTypes) /\ x \in EntryTypes /\ x.key = key /\ x.size = size
      /\ l.size \in Nat
  BY <1>1 DEF CacheLists, EntryTypes, Entry
<1>3. /\ DOMAIN l.list = 1 .. Len(l.list) /\ Len(l.list) \in Nat
      /\ Listed(l) = {l.list[i] : i \in 1 .. Len(l.list)}
      /\ Listed(l) \in SUBSET EntryTypes /\ IsFiniteSet(Listed(l))
  BY <1>1, ListedTyped
<1>4. p.list = s /\ p.size = l.size + size
  BY DEF PushFront
<1> HIDE DEF x
<1>5. <<x>> \in Seq(EntryTypes) /\ Len(<<x>>) = 1 /\ <<x>>[1] = x
  BY <1>2
<1>6. /\ s \in Seq(EntryTypes) /\ Len(s) = 1 + Len(l.list)
      /\ \A i \in 1 .. 1 + Len(l.list) : s[i] = IF i <= 1 THEN <<x>>[i] ELSE l.list[i - 1]
  BY <1>2, <1>5, ConcatProperties
<1>7. s[1] = x /\ \A i \in 1 .. Len(l.list) : s[i + 1] = l.list[i]
  BY <1>3, <1>5, <1>6
<1>8. p \in CacheLists
  BY <1>2, <1>6 DEF PushFront, CacheLists, x
<1> HIDE DEF s
<1>9. \A i \in 1 .. Len(s) : i = 1 \/ (i - 1 \in 1 .. Len(l.list) /\ s[i] = l.list[i - 1])
  BY <1>3, <1>6
<1>10. Listed(p) = Listed(l) \union {x}
  <2>1. Listed(p) = {s[i] : i \in 1 .. Len(s)}
    BY <1>4, <1>8, ListedTyped
  <2>2. ASSUME NEW i \in 1 .. Len(l.list) PROVE l.list[i] \in Listed(p)
    <3>1. i + 1 \in 1 .. Len(s)
      BY <1>3, <1>6
    <3> QED
      BY <1>7, <2>1, <3>1
  <2>3. x \in Listed(p)
    BY <1>3, <1>6, <1>7, <2>1
  <2>4. Listed(p) \subseteq Listed(l) \union {x}
    BY <1>3, <1>7, <1>9, <2>1
  <2> QED
    BY <1>3, <2>2, <2>3, <2>4
<1>11. \A i \in 1 .. Len(l.list) : l.list[i].key # key
  BY <1>3 DEF KeysIn
<1>12. ASSUME NEW i \in 1 .. Len(s), NEW j \in 1 .. Len(s), s[i].key = s[j].key
       PROVE  i = j
  <2>1. CASE i = 1
    BY <1>2, <1>7, <1>9, <1>11, <1>12, <2>1
  <2>2. CASE j = 1
    BY <1>2, <1>7, <1>9, <1>11, <1>12, <2>2
  <2>3. CASE i # 1 /\ j # 1
    <3>1. /\ i - 1 \in 1 .. Len(l.list) /\ s[i] = l.list[i - 1]
          /\ j - 1 \in 1 .. Len(l.list) /\ s[j] = l.list[j - 1]
      BY <1>9, <2>3
    <3>2. i - 1 = j - 1
      BY <1>1, <1>3, <1>12, <3>1
    <3> QED
      BY <1>6, <3>2
  <2> QED
    BY <2>1, <2>2, <2>3
<1>13. x \notin Listed(l)
  BY <1>2 DEF KeysIn
<1>14. Total(Listed(p)) = Total(Listed(l)) + size
  BY <1>2, <1>3, <1>10, <1>13, TotalWith
<1>15. DOMAIN p.list = 1 .. Len(s)
  BY <1>4, <1>6
<1> HIDE DEF p
<1>16. ListExact(p)
  BY <1>1, <1>4, <1>8, <1>12, <1>14, <1>15 DEF ListExact
<1>17. Len(p.list) = Len(l.list) + 1
  BY <1>3, <1>4, <1>6
<1> QED
  BY <1>4, <1>10, <1>16, <1>17 DEF p, x

(* list.erase: the entry of a key goes, the others stay.                      *)
LEMMA LeftExact ==
    ASSUME NEW l, ListExact(l), NEW key, NEW x \in Listed(l), x.key = key, NEW size
    PROVE  /\ ListExact(Leave(l, key, size))
           /\ Listed(Leave(l, key, size)) = Listed(l) \ {x}
           /\ Len(Leave(l, key, size).list) = Len(l.list) - 1
           /\ Leave(l, key, size).size = l.size - x.size
           /\ Position(l, key) \in 1 .. Len(l.list)
           /\ l.list[Position(l, key)] = x
<1> DEFINE at == Position(l, key)
           s == SeqOps!RemoveAt(l.list, at)
           p == Leave(l, key, size)
           low == SubSeq(l.list, 1, at - 1)
           high == SubSeq(l.list, at + 1, Len(l.list))
<1>1. /\ l \in CacheLists /\ l.size = Total(Listed(l))
      /\ \A i, j \in DOMAIN l.list : l.list[i].key = l.list[j].key => i = j
  BY DEF ListExact
<1>2. l.list \in Seq(EntryTypes) /\ l.size \in Nat
  BY <1>1 DEF CacheLists
<1>3. /\ DOMAIN l.list = 1 .. Len(l.list) /\ Len(l.list) \in Nat
      /\ Listed(l) = {l.list[i] : i \in 1 .. Len(l.list)}
      /\ Listed(l) \in SUBSET EntryTypes /\ IsFiniteSet(Listed(l))
  BY <1>1, ListedTyped
<1>4. at \in 1 .. Len(l.list) /\ l.list[at].key = key
  <2>1. \E i \in DOMAIN l.list : l.list[i].key = key
    BY <1>3
  <2>2. at \in DOMAIN l.list /\ l.list[at].key = key
    BY <2>1 DEF Position
  <2> QED
    BY <1>3, <2>2
<1>5. l.list[at] = x
  BY <1>1, <1>3, <1>4
<1> HIDE DEF at
<1>6. at \in Int /\ Len(l.list) \in Int /\ \A i \in 1 .. Len(l.list) : l.list[i] \in EntryTypes
  BY <1>2, <1>3, <1>4
<1>7. /\ low \in Seq(EntryTypes) /\ Len(low) = at - 1
      /\ \A i \in 1 .. at - 1 : low[i] = l.list[i]
  <2>1. /\ low \in Seq(EntryTypes)
        /\ Len(low) = IF 1 <= at - 1 THEN at - 1 - 1 + 1 ELSE 0
        /\ \A i \in 1 .. at - 1 - 1 + 1 : low[i] = l.list[1 + i - 1]
    <3>1. 1 \in Int /\ at - 1 \in Int /\ \A i \in 1 .. at - 1 : l.list[i] \in EntryTypes
      BY <1>4, <1>6
    <3> QED
      BY <3>1, SubSeqProperties
  <2> QED
    BY <1>4, <2>1
<1>8. /\ high \in Seq(EntryTypes) /\ Len(high) = Len(l.list) - at
      /\ \A i \in 1 .. Len(l.list) - at : high[i] = l.list[at + i]
  <2>1. /\ high \in Seq(EntryTypes)
        /\ Len(high) = IF at + 1 <= Len(l.list) THEN Len(l.list) - (at + 1) + 1 ELSE 0
        /\ \A i \in 1 .. Len(l.list) - (at + 1) + 1 : high[i] = l.list[at + 1 + i - 1]
    <3>1. at + 1 \in Int /\ \A i \in at + 1 .. Len(l.list) : l.list[i] \in EntryTypes
      BY <1>4, <1>6
    <3> QED
      BY <1>6, <3>1, SubSeqProperties
  <2> QED
    BY <1>3, <1>4, <2>1
<1>9. s = low \o high
  BY DEF SeqOps!RemoveAt
<1> HIDE DEF low, high, s
<1>10. /\ s \in Seq(EntryTypes) /\ Len(s) = Len(l.list) - 1
       /\ \A i \in 1 .. Len(l.list) - 1 : s[i] = IF i < at THEN l.list[i] ELSE l.list[i + 1]
  <2>1. /\ s \in Seq(EntryTypes) /\ Len(s) = Len(low) + Len(high)
        /\ \A i \in 1 .. Len(low) + Len(high) : s[i] =
             IF i <= Len(low) THEN low[i] ELSE high[i - Len(low)]
    BY <1>7, <1>8, <1>9, ConcatProperties
  <2>2. Len(low) + Len(high) = Len(l.list) - 1
    BY <1>3, <1>4, <1>7, <1>8
  <2>3. ASSUME NEW i \in 1 .. Len(l.list) - 1
        PROVE  s[i] = IF i < at THEN l.list[i] ELSE l.list[i + 1]
    <3>1. CASE i < at
      <4>1. i <= Len(low) /\ i \in 1 .. at - 1
        BY <1>4, <1>7, <3>1
      <4> QED
        BY <1>7, <2>1, <2>2, <3>1, <4>1
    <3>2. CASE ~(i < at)
      <4>1. ~(i <= Len(low)) /\ i - Len(low) = i - at + 1
            /\ i - at + 1 \in 1 .. Len(l.list) - at
        BY <1>3, <1>4, <1>7, <3>2
      <4>2. PICK n \in 1 .. Len(l.list) - at : n = i - at + 1
        BY <4>1
      <4>3. high[n] = l.list[at + n] /\ at + n = i + 1
        BY <1>4, <1>6, <1>8, <4>2
      <4> QED
        BY <2>1, <2>2, <3>2, <4>1, <4>2, <4>3
    <3> QED
      BY <3>1, <3>2
  <2> QED
    BY <2>1, <2>2, <2>3
<1>11. p.list = s /\ p.size = l.size - x.size /\ p = [size |-> l.size - x.size, list |-> s]
  BY <1>5 DEF Leave, s, at
<1>12. \A i \in 1 .. Len(s) : \E j \in 1 .. Len(l.list) : j # at /\ s[i] = l.list[j]
         /\ j = IF i < at THEN i ELSE i + 1
  <2> SUFFICES ASSUME NEW i \in 1 .. Len(s)
               PROVE  \E j \in 1 .. Len(l.list) : j # at /\ s[i] = l.list[j]
                        /\ j = IF i < at THEN i ELSE i + 1
    OBVIOUS
  <2>1. i \in 1 .. Len(l.list) - 1
    BY <1>10
  <2>2. CASE i < at
    BY <1>3, <1>4, <1>10, <2>1, <2>2
  <2>3. CASE ~(i < at)
    BY <1>3, <1>4, <1>10, <2>1, <2>3
  <2> QED
    BY <2>2, <2>3
<1>13. \A j \in 1 .. Len(l.list) : j # at => \E i \in 1 .. Len(s) : s[i] = l.list[j]
  <2> SUFFICES ASSUME NEW j \in 1 .. Len(l.list), j # at
               PROVE  \E i \in 1 .. Len(s) : s[i] = l.list[j]
    OBVIOUS
  <2>1. CASE j < at
    <3>1. j \in 1 .. Len(l.list) - 1
      BY <1>3, <1>4, <2>1
    <3> QED
      BY <1>10, <2>1, <3>1
  <2>2. CASE ~(j < at)
    <3>1. j - 1 \in 1 .. Len(l.list) - 1 /\ ~(j - 1 < at) /\ j - 1 + 1 = j
      BY <1>3, <1>4, <2>2
    <3> QED
      BY <1>10, <3>1
  <2> QED
    BY <2>1, <2>2
<1>14. Listed(p) = Listed(l) \ {x}
  <2>1. p \in CacheLists
    <3>1. l.size - x.size \in Nat
      <4>1. x \in EntryTypes /\ x.size \in Nat
        BY <1>3 DEF EntryTypes
      <4>2. Listed(l) \ {x} \in SUBSET EntryTypes /\ IsFiniteSet(Listed(l) \ {x})
            /\ (Listed(l) \ {x}) \union {x} = Listed(l)
        BY <1>3, FS_Subset
      <4>3. Total(Listed(l)) = Total(Listed(l) \ {x}) + x.size
            /\ Total(Listed(l) \ {x}) \in Nat
        BY <4>1, <4>2, TotalWith, TotalFinite
      <4> QED
        BY <1>1, <4>1, <4>3
    <3> QED
      BY <1>10, <1>11, <3>1 DEF CacheLists
  <2>2. Listed(p) = {s[i] : i \in 1 .. Len(s)}
    BY <1>11, <2>1, ListedTyped
  <2>3. ASSUME NEW e \in Listed(p) PROVE e \in Listed(l) /\ e # x
    <3>1. PICK i \in 1 .. Len(s) : e = s[i]
      BY <2>2
    <3>2. PICK j \in 1 .. Len(l.list) : j # at /\ s[i] = l.list[j]
      BY <1>12
    <3>3. l.list[j] # l.list[at]
      BY <1>1, <1>3, <1>4, <3>2
    <3> QED
      BY <1>3, <1>5, <3>1, <3>2, <3>3 DEF at
  <2>4. ASSUME NEW e \in Listed(l), e # x PROVE e \in Listed(p)
    <3>1. PICK j \in 1 .. Len(l.list) : e = l.list[j]
      BY <1>3
    <3>2. j # at
      BY <1>5, <2>4, <3>1 DEF at
    <3> QED
      BY <1>13, <2>2, <3>1, <3>2
  <2> QED
    BY <2>3, <2>4
<1>15. l.size - x.size = Total(Listed(p)) /\ l.size - x.size \in Nat
  <2>1. x \in EntryTypes /\ x.size \in Nat
    BY <1>3 DEF EntryTypes
  <2>2. Listed(l) \ {x} \in SUBSET EntryTypes /\ IsFiniteSet(Listed(l) \ {x})
        /\ (Listed(l) \ {x}) \union {x} = Listed(l)
    BY <1>3, FS_Subset
  <2>3. Total(Listed(l)) = Total(Listed(l) \ {x}) + x.size
        /\ Total(Listed(l) \ {x}) \in Nat
    BY <2>1, <2>2, TotalWith, TotalFinite
  <2> QED
    BY <1>1, <1>14, <2>1, <2>3
<1>16. ASSUME NEW i \in 1 .. Len(s), NEW j \in 1 .. Len(s), s[i].key = s[j].key
       PROVE  i = j
  <2>1. PICK m \in 1 .. Len(l.list) : s[i] = l.list[m]
          /\ m = IF i < at THEN i ELSE i + 1
    BY <1>12
  <2>2. PICK n \in 1 .. Len(l.list) : s[j] = l.list[n]
          /\ n = IF j < at THEN j ELSE j + 1
    BY <1>12
  <2>3. m = n
    BY <1>1, <1>3, <1>16, <2>1, <2>2
  <2> QED
    BY <1>4, <1>10, <2>1, <2>2, <2>3
<1> HIDE DEF p
<1>17. p \in CacheLists
  BY <1>10, <1>11, <1>15 DEF CacheLists
<1>18. DOMAIN p.list = 1 .. Len(s)
  BY <1>10, <1>11
<1>19. ListExact(p)
  BY <1>11, <1>15, <1>16, <1>17, <1>18 DEF ListExact
<1> QED
  BY <1>4, <1>5, <1>10, <1>11, <1>14, <1>19 DEF p, at

LEMMA LeftListed ==
    ASSUME NEW l, ListExact(l), NEW key, NEW x \in Listed(l), x.key = key, NEW size
    PROVE  Listed(Leave(l, key, size)) = Listed(l) \ {x}
  BY LeftExact

(* pop_back, with the counter lowered.                                        *)
LEMMA PoppedExact ==
    ASSUME NEW l, ListExact(l), Len(l.list) > 0
    PROVE  LET x == SeqOps!Last(l.list)
               p == Popped(Lowered(l, x.size))
           IN  /\ x \in Listed(l) /\ ListExact(p) /\ Listed(p) = Listed(l) \ {x}
               /\ Len(p.list) = Len(l.list) - 1 /\ p.size = l.size - x.size
               /\ p.list = SeqOps!Front(l.list)
<1> DEFINE x == SeqOps!Last(l.list)
           s == SeqOps!Front(l.list)
           p == Popped(Lowered(l, x.size))
<1>1. l \in CacheLists
  BY DEF ListExact
<1>2. l.list \in Seq(EntryTypes) /\ Len(l.list) \in Nat
      /\ Listed(l) = {l.list[i] : i \in 1 .. Len(l.list)}
      /\ DOMAIN l.list = 1 .. Len(l.list)
      /\ Listed(l) \in SUBSET EntryTypes
  BY <1>1, ListedTyped DEF CacheLists
<1>3. x = l.list[Len(l.list)] /\ x \in Listed(l)
  BY <1>2 DEF SeqOps!Last
<1>0. PICK any : any = x
  OBVIOUS
<1>4. /\ Leave(l, x.key, any).size = l.size - x.size
      /\ Position(l, x.key) \in 1 .. Len(l.list) /\ l.list[Position(l, x.key)] = x
      /\ ListExact(Leave(l, x.key, any)) /\ Listed(Leave(l, x.key, any)) = Listed(l) \ {x}
      /\ Len(Leave(l, x.key, any).list) = Len(l.list) - 1
  <2> HIDE DEF x
  <2>0. PICK key : key = x.key
    OBVIOUS
  <2>1. PICK e \in Listed(l) : e = x /\ e.key = key
    BY <1>3, <2>0
  <2>2. e.key = key
    BY <2>1
  <2>3. ListExact(Leave(l, key, any))
    BY <2>2, LeftExact
  <2>4. Listed(Leave(l, key, any)) = Listed(l) \ {e}
    BY <2>2, LeftListed
  <2>5. Len(Leave(l, key, any).list) = Len(l.list) - 1
    BY <2>2, LeftExact
  <2>6. Leave(l, key, any).size = l.size - e.size
    BY <2>2, LeftExact
  <2>7. Position(l, key) \in 1 .. Len(l.list) /\ l.list[Position(l, key)] = e
    BY <2>2, LeftExact
  <2> QED
    BY <2>1, <2>3, <2>4, <2>5, <2>6, <2>7
<1>5. Position(l, x.key) = Len(l.list)
  BY <1>2, <1>3, <1>4 DEF ListExact
<1>6. Leave(l, x.key, any).list = s
  <2>1. Leave(l, x.key, any).list
          = SubSeq(l.list, 1, Len(l.list) - 1)
              \o SubSeq(l.list, Len(l.list) + 1, Len(l.list))
    BY <1>5 DEF Leave, SeqOps!RemoveAt
  <2>2. SubSeq(l.list, Len(l.list) + 1, Len(l.list)) = <<>>
    BY <1>2, SubSeqEmpty
  <2>3. s \in Seq(EntryTypes)
    <3>1. 1 \in Int /\ Len(l.list) - 1 \in Int
          /\ \A i \in 1 .. Len(l.list) - 1 : l.list[i] \in EntryTypes
      BY <1>2
    <3> QED
      BY <3>1, SubSeqProperties DEF SeqOps!Front
  <2>4. s \o <<>> = s
    BY <2>3, ConcatEmptySeq
  <2> QED
    BY <2>1, <2>2, <2>4 DEF SeqOps!Front
<1>7. p = [size |-> l.size - x.size, list |-> s]
  BY DEF Popped, Lowered
<1>8. p = Leave(l, x.key, any)
  <2>1. Leave(l, x.key, any) \in CacheLists
    BY <1>4 DEF ListExact
  <2> HIDE DEF x, s, p
  <2>2. PICK q \in CacheLists : q = Leave(l, x.key, any)
    BY <2>1
  <2>3. q = [size |-> q.size, list |-> q.list]
    BY DEF CacheLists
  <2> QED
    BY <1>4, <1>6, <1>7, <2>2, <2>3
<1> QED
  BY <1>3, <1>4, <1>7, <1>8

(* entry_iter->second = ...: one entry takes another size.                    *)
LEMMA ReplacedExact ==
    ASSUME NEW l, ListExact(l), NEW x \in Listed(l), NEW size \in Nat
    PROVE  LET at == Position(l, x.key)
               p == [size |-> l.size - l.list[at].size + size,
                     list |-> SeqOps!ReplaceAt(l.list, at, Entry(x.key, size))]
           IN  /\ l.list[at] = x /\ ListExact(p)
               /\ Listed(p) = (Listed(l) \ {x}) \union {Entry(x.key, size)}
               /\ p.size = l.size - x.size + size
<1> DEFINE at == Position(l, x.key)
           y == Entry(x.key, size)
           s == SeqOps!ReplaceAt(l.list, at, y)
           p == [size |-> l.size - l.list[at].size + size, list |-> s]
<1>1. /\ l \in CacheLists /\ l.size = Total(Listed(l))
      /\ \A i, j \in DOMAIN l.list : l.list[i].key = l.list[j].key => i = j
  BY DEF ListExact
<1>2. l.list \in Seq(EntryTypes) /\ l.size \in Nat
  BY <1>1 DEF CacheLists
<1>3. /\ DOMAIN l.list = 1 .. Len(l.list) /\ Len(l.list) \in Nat
      /\ Listed(l) = {l.list[i] : i \in 1 .. Len(l.list)}
      /\ Listed(l) \in SUBSET EntryTypes /\ IsFiniteSet(Listed(l))
  BY <1>1, ListedTyped
<1>4. at \in 1 .. Len(l.list) /\ l.list[at] = x
  BY LeftExact
<1>5. x \in EntryTypes /\ y \in EntryTypes /\ y.key = x.key /\ y.size = size
      /\ x.size \in Nat
  BY <1>3 DEF EntryTypes, Entry
<1> HIDE DEF at, y
<1>6. /\ s \in Seq(EntryTypes) /\ Len(s) = Len(l.list)
      /\ \A i \in 1 .. Len(l.list) : s[i] = IF i = at THEN y ELSE l.list[i]
  BY <1>2, <1>4, <1>5, ExceptSeq DEF SeqOps!ReplaceAt
<1> HIDE DEF s
<1>7. Listed(l) \ {x} \in SUBSET EntryTypes /\ IsFiniteSet(Listed(l) \ {x})
      /\ (Listed(l) \ {x}) \union {x} = Listed(l)
  BY <1>3, FS_Subset
<1>8. Total(Listed(l)) = Total(Listed(l) \ {x}) + x.size
      /\ Total(Listed(l) \ {x}) \in Nat
  BY <1>5, <1>7, TotalWith, TotalFinite
<1>9. \A i \in 1 .. Len(l.list) : i # at => l.list[i].key # x.key
  BY <1>1, <1>3, <1>4
<1>10. y \notin Listed(l) \ {x}
  BY <1>3, <1>4, <1>5, <1>9
<1>11. Total((Listed(l) \ {x}) \union {y}) = Total(Listed(l) \ {x}) + size
  BY <1>5, <1>7, <1>10, TotalWith
<1>12. p = [size |-> l.size - x.size + size, list |-> s]
       /\ p.list = s /\ p.size = l.size - x.size + size
  BY <1>4
<1>13. l.size - x.size + size \in Nat
       /\ l.size - x.size + size = Total((Listed(l) \ {x}) \union {y})
  BY <1>1, <1>5, <1>8, <1>11
<1> HIDE DEF p
<1>14. p \in CacheLists
  BY <1>6, <1>12, <1>13 DEF CacheLists
<1>15. Listed(p) = (Listed(l) \ {x}) \union {y}
  <2>1. Listed(p) = {s[i] : i \in 1 .. Len(s)}
    BY <1>12, <1>14, ListedTyped
  <2>2. ASSUME NEW e \in Listed(p) PROVE e \in (Listed(l) \ {x}) \union {y}
    <3>1. PICK i \in 1 .. Len(l.list) : e = s[i]
      BY <1>6, <2>1
    <3> QED
      BY <1>3, <1>6, <1>9, <3>1
  <2>3. ASSUME NEW e \in (Listed(l) \ {x}) \union {y} PROVE e \in Listed(p)
    <3>1. CASE e = y
      BY <1>4, <1>6, <2>1, <3>1
    <3>2. CASE e # y
      <4>1. PICK i \in 1 .. Len(l.list) : e = l.list[i] /\ i # at
        BY <1>3, <1>4, <2>3, <3>2
      <4> QED
        BY <1>6, <2>1, <4>1
    <3> QED
      BY <3>1, <3>2
  <2> QED
    BY <2>2, <2>3
<1>16. ASSUME NEW i \in 1 .. Len(s), NEW j \in 1 .. Len(s), s[i].key = s[j].key
       PROVE  i = j
  <2>1. s[i].key = l.list[i].key /\ s[j].key = l.list[j].key
    BY <1>4, <1>5, <1>6
  <2> QED
    BY <1>1, <1>3, <1>6, <1>16, <2>1
<1>17. DOMAIN p.list = 1 .. Len(s)
  BY <1>6, <1>12
<1>18. ListExact(p)
  BY <1>12, <1>13, <1>14, <1>15, <1>16, <1>17 DEF ListExact
<1> QED
  BY <1>4, <1>12, <1>15, <1>18 DEF p, at, y, s

-----------------------------------------------------------------------------
(* The maps against what is listed, list by list.                             *)

Partial(V) == UNION {[D -> V] : D \in SUBSET EntryKeys}

Buffers == [size : Nat, list : Resident]

Books(held, buffers, phantoms) ==
    /\ held \in [Lists -> SUBSET EntryTypes]
    /\ buffers \in Partial(Buffers) /\ phantoms \in Partial(Phantom)
    /\ \A k \in DOMAIN buffers : k \notin DOMAIN phantoms
    /\ \A l \in Resident : \A e \in held[l] :
         /\ e.key \in DOMAIN buffers
         /\ buffers[e.key].size = e.size /\ buffers[e.key].list = l
    /\ \A k \in DOMAIN buffers : Entry(k, buffers[k].size) \in held[buffers[k].list]
    /\ \A l \in Phantom : \A e \in held[l] :
         e.key \in DOMAIN phantoms /\ phantoms[e.key] = l
    /\ \A k \in DOMAIN phantoms : \E e \in held[phantoms[k]] : e.key = k
    /\ \A l \in Phantom : \A d, e \in held[l] : d.key = e.key => d = e

LEMMA PartialTyped ==
    ASSUME NEW V, NEW f \in Partial(V)
    PROVE  DOMAIN f \in SUBSET EntryKeys /\ \A k \in DOMAIN f : f[k] \in V
  BY DEF Partial

LEMMA DropTyped ==
    ASSUME NEW V, NEW f \in Partial(V), NEW key
    PROVE  Drop(f, key) \in Partial(V)
<1>1. PICK D \in SUBSET EntryKeys : f \in [D -> V]
  BY DEF Partial
<1>2. Drop(f, key) \in [D \ {key} -> V]
  BY <1>1 DEF Drop
<1>3. D \ {key} \in SUBSET EntryKeys
  OBVIOUS
<1> QED
  BY <1>2, <1>3 DEF Partial

LEMMA BindTyped ==
    ASSUME NEW V, NEW f \in Partial(V), NEW key \in EntryKeys, NEW v \in V
    PROVE  Bind(f, key, v) \in Partial(V)
<1>1. PICK D \in SUBSET EntryKeys : f \in [D -> V]
  BY DEF Partial
<1>2. Bind(f, key, v) \in [D \union {key} -> V]
  BY <1>1 DEF Bind
<1>3. D \union {key} \in SUBSET EntryKeys
  OBVIOUS
<1> QED
  BY <1>2, <1>3 DEF Partial

(* A buffer is let go: its entry leaves its list and its key the map.         *)
LEMMA BufferGone ==
    ASSUME NEW held, NEW buffers, NEW phantoms, Books(held, buffers, phantoms),
           NEW l \in Resident, NEW x \in held[l]
    PROVE  Books([held EXCEPT ![l] = held[l] \ {x}], Drop(buffers, x.key), phantoms)
<1> DEFINE kept == [held EXCEPT ![l] = held[l] \ {x}]
           less == Drop(buffers, x.key)
<1>1. l \in Lists /\ kept \in [Lists -> SUBSET EntryTypes]
      /\ \A m \in Lists : kept[m] = IF m = l THEN held[l] \ {x} ELSE held[m]
  BY DEF Books, Lists
<1>2. /\ buffers \in Partial(Buffers)
      /\ less \in Partial(Buffers) /\ DOMAIN less = DOMAIN buffers \ {x.key}
      /\ \A k \in DOMAIN less : less[k] = buffers[k] /\ buffers[k] \in Buffers
  <2>1. buffers \in Partial(Buffers)
    BY DEF Books
  <2>2. \A k \in DOMAIN buffers : buffers[k] \in Buffers
    BY <2>1, PartialTyped
  <2>3. less \in Partial(Buffers)
    BY <2>1, DropTyped
  <2>4. DOMAIN less = DOMAIN buffers \ {x.key}
    BY DEF Drop
  <2>5. \A k \in DOMAIN buffers : k # x.key => less[k] = buffers[k]
    BY DEF Drop
  <2> QED
    BY <2>1, <2>2, <2>3, <2>4, <2>5
<1> HIDE DEF kept, less
<1> USE DEF Books
<1>3. x.key \in DOMAIN buffers /\ buffers[x.key].size = x.size
      /\ buffers[x.key].list = l /\ x = Entry(x.key, x.size)
  BY DEF EntryTypes, Entry, Lists
<1>4. ASSUME NEW m \in Resident, NEW e \in kept[m]
      PROVE  /\ e.key \in DOMAIN less
             /\ less[e.key].size = e.size /\ less[e.key].list = m
  <2>1. e \in held[m] /\ e \in EntryTypes /\ m \in Lists
    BY <1>1 DEF Lists
  <2>2. e.key \in DOMAIN buffers /\ buffers[e.key].size = e.size
        /\ buffers[e.key].list = m
    BY <2>1
  <2>3. e.key # x.key
    <3>1. CASE m = l
      <4>1. e # x /\ e = Entry(e.key, e.size)
        BY <1>1, <2>1, <3>1 DEF EntryTypes, Entry
      <4> QED
        BY <1>3, <2>2, <4>1
    <3>2. CASE m # l
      BY <1>3, <2>2, <3>2
    <3> QED
      BY <3>1, <3>2
  <2> QED
    BY <1>2, <2>2, <2>3
<1>5. ASSUME NEW k \in DOMAIN less
      PROVE  Entry(k, less[k].size) \in kept[less[k].list]
  <2>1. k \in DOMAIN buffers /\ k # x.key /\ less[k] = buffers[k]
        /\ buffers[k].list \in Lists
    BY <1>2 DEF Buffers, Lists
  <2>2. Entry(k, buffers[k].size) \in held[buffers[k].list]
    BY <2>1
  <2>3. Entry(k, buffers[k].size) # x
    BY <2>1 DEF Entry
  <2> QED
    BY <1>1, <2>1, <2>2, <2>3
<1>6. \A m \in Phantom : kept[m] = held[m]
  BY <1>1 DEF Lists, Resident, Phantom
<1>7. \A k \in DOMAIN phantoms : phantoms[k] \in Phantom
  BY PartialTyped DEF Books
<1> QED
  BY <1>1, <1>2, <1>4, <1>5, <1>6, <1>7 DEF kept, less

(* What was remembered is forgotten.                                          *)
LEMMA PhantomGone ==
    ASSUME NEW held, NEW buffers, NEW phantoms, Books(held, buffers, phantoms),
           NEW l \in Phantom, NEW x \in held[l]
    PROVE  Books([held EXCEPT ![l] = held[l] \ {x}], buffers, Drop(phantoms, x.key))
<1> DEFINE kept == [held EXCEPT ![l] = held[l] \ {x}]
           less == Drop(phantoms, x.key)
<1>1. l \in Lists /\ kept \in [Lists -> SUBSET EntryTypes]
      /\ \A m \in Lists : kept[m] = IF m = l THEN held[l] \ {x} ELSE held[m]
  BY DEF Books, Lists
<1>2. /\ less \in Partial(Phantom) /\ DOMAIN less = DOMAIN phantoms \ {x.key}
      /\ \A k \in DOMAIN less : less[k] = phantoms[k] /\ phantoms[k] \in Phantom
  <2>1. phantoms \in Partial(Phantom)
    BY DEF Books
  <2>2. \A k \in DOMAIN phantoms : phantoms[k] \in Phantom
    BY <2>1, PartialTyped
  <2>3. less \in Partial(Phantom)
    BY <2>1, DropTyped
  <2>4. DOMAIN less = DOMAIN phantoms \ {x.key}
    BY DEF Drop
  <2>5. \A k \in DOMAIN phantoms : k # x.key => less[k] = phantoms[k]
    BY DEF Drop
  <2> QED
    BY <2>1, <2>2, <2>3, <2>4, <2>5
<1> HIDE DEF kept, less
<1> USE DEF Books
<1>3. x.key \in DOMAIN phantoms /\ phantoms[x.key] = l
  BY DEF EntryTypes, Lists
<1>4. ASSUME NEW m \in Phantom, NEW e \in kept[m]
      PROVE  e.key \in DOMAIN less /\ less[e.key] = m
  <2>1. e \in held[m] /\ m \in Lists
    BY <1>1 DEF Lists
  <2>2. e.key \in DOMAIN phantoms /\ phantoms[e.key] = m
    BY <2>1
  <2>3. e.key # x.key
    BY <1>1, <1>3, <2>1, <2>2
  <2> QED
    BY <1>2, <2>2, <2>3
<1>5. ASSUME NEW k \in DOMAIN less
      PROVE  \E e \in kept[less[k]] : e.key = k
  <2>1. k \in DOMAIN phantoms /\ k # x.key /\ less[k] = phantoms[k]
        /\ phantoms[k] \in Lists
    BY <1>2 DEF Lists
  <2>2. PICK e \in held[phantoms[k]] : e.key = k
    BY <2>1
  <2> QED
    BY <1>1, <2>1, <2>2
<1>6. \A m \in Resident : kept[m] = held[m]
  BY <1>1 DEF Lists, Resident, Phantom
<1>7. \A k \in DOMAIN buffers : buffers[k].list \in Resident
  <2>1. buffers \in Partial(Buffers)
    BY DEF Books
  <2>2. \A k \in DOMAIN buffers : buffers[k] \in Buffers
    BY <2>1, PartialTyped
  <2> QED
    BY <2>2 DEF Buffers
<1>8. \A m \in Phantom : kept[m] \subseteq held[m]
  BY <1>1 DEF Lists
<1> QED
  BY <1>1, <1>2, <1>4, <1>5, <1>6, <1>7, <1>8 DEF kept, less

(* A buffer is kept under a key that no list has.                             *)
LEMMA BufferKept ==
    ASSUME NEW held, NEW buffers, NEW phantoms, Books(held, buffers, phantoms),
           NEW l \in Resident, NEW key \in EntryKeys, NEW size \in Nat,
           key \notin DOMAIN buffers, key \notin DOMAIN phantoms
    PROVE  Books([held EXCEPT ![l] = held[l] \union {Entry(key, size)}],
                 Bind(buffers, key, [size |-> size, list |-> l]), phantoms)
<1> DEFINE x == Entry(key, size)
           more == [held EXCEPT ![l] = held[l] \union {x}]
           slot == [size |-> size, list |-> l]
           bound == Bind(buffers, key, slot)
<1>0. x \in EntryTypes /\ x.key = key /\ x.size = size
      /\ slot \in Buffers /\ slot.size = size /\ slot.list = l
  BY DEF EntryTypes, Entry, Buffers
<1> HIDE DEF x, slot
<1>1. l \in Lists /\ more \in [Lists -> SUBSET EntryTypes]
      /\ \A m \in Lists : more[m] = IF m = l THEN held[l] \union {x} ELSE held[m]
  BY <1>0 DEF Books, Lists
<1>2. /\ buffers \in Partial(Buffers)
      /\ bound \in Partial(Buffers) /\ DOMAIN bound = DOMAIN buffers \union {key}
      /\ bound[key] = slot
      /\ \A k \in DOMAIN buffers : bound[k] = buffers[k] /\ buffers[k] \in Buffers
  <2>1. buffers \in Partial(Buffers)
    BY DEF Books
  <2>2. \A k \in DOMAIN buffers : buffers[k] \in Buffers
    BY <2>1, PartialTyped
  <2>3. bound \in Partial(Buffers)
    BY <1>0, <2>1, BindTyped
  <2>4. DOMAIN bound = DOMAIN buffers \union {key}
    BY DEF Bind
  <2>5. bound[key] = slot
    BY DEF Bind
  <2>6. \A k \in DOMAIN buffers : k # key => bound[k] = buffers[k]
    BY DEF Bind
  <2> QED
    BY <2>1, <2>2, <2>3, <2>4, <2>5, <2>6
<1> HIDE DEF more, bound
<1> USE DEF Books
<1>4. ASSUME NEW m \in Resident, NEW e \in more[m]
      PROVE  /\ e.key \in DOMAIN bound
             /\ bound[e.key].size = e.size /\ bound[e.key].list = m
  <2>1. m \in Lists
    BY DEF Lists
  <2>2. CASE e \in held[m]
    BY <1>2, <2>2
  <2>3. CASE e \notin held[m]
    BY <1>0, <1>1, <1>2, <2>1, <2>3
  <2> QED
    BY <2>2, <2>3
<1>5. ASSUME NEW k \in DOMAIN bound
      PROVE  Entry(k, bound[k].size) \in more[bound[k].list]
  <2>1. CASE k = key
    BY <1>0, <1>1, <1>2, <2>1 DEF x
  <2>2. CASE k # key
    <3>1. k \in DOMAIN buffers /\ bound[k] = buffers[k] /\ buffers[k].list \in Lists
      BY <1>2, <2>2 DEF Buffers, Lists
    <3> QED
      BY <1>1, <3>1
  <2> QED
    BY <2>1, <2>2
<1>6. \A m \in Phantom : more[m] = held[m]
  BY <1>1 DEF Lists, Resident, Phantom
<1>7. \A k \in DOMAIN phantoms : phantoms[k] \in Phantom
  BY PartialTyped
<1>8. \A k \in DOMAIN bound : k \notin DOMAIN phantoms
  BY <1>2
<1> QED
  BY <1>1, <1>2, <1>4, <1>5, <1>6, <1>7, <1>8 DEF more, bound, slot, x

(* An evicted entry is remembered.                                            *)
LEMMA PhantomKept ==
    ASSUME NEW held, NEW buffers, NEW phantoms, Books(held, buffers, phantoms),
           NEW l \in Phantom, NEW key \in EntryKeys, NEW size \in Nat,
           key \notin DOMAIN buffers, key \notin DOMAIN phantoms
    PROVE  Books([held EXCEPT ![l] = held[l] \union {Entry(key, size)}],
                 buffers, Bind(phantoms, key, l))
<1> DEFINE x == Entry(key, size)
           more == [held EXCEPT ![l] = held[l] \union {x}]
           bound == Bind(phantoms, key, l)
<1>0. x \in EntryTypes /\ x.key = key
  BY DEF EntryTypes, Entry
<1> HIDE DEF x
<1>1. l \in Lists /\ more \in [Lists -> SUBSET EntryTypes]
      /\ \A m \in Lists : more[m] = IF m = l THEN held[l] \union {x} ELSE held[m]
  BY <1>0 DEF Books, Lists
<1>2. /\ bound \in Partial(Phantom) /\ DOMAIN bound = DOMAIN phantoms \union {key}
      /\ bound[key] = l
      /\ \A k \in DOMAIN phantoms : bound[k] = phantoms[k] /\ phantoms[k] \in Phantom
  <2>1. phantoms \in Partial(Phantom)
    BY DEF Books
  <2>2. \A k \in DOMAIN phantoms : phantoms[k] \in Phantom
    BY <2>1, PartialTyped
  <2>3. bound \in Partial(Phantom)
    BY <2>1, BindTyped
  <2>4. DOMAIN bound = DOMAIN phantoms \union {key}
    BY DEF Bind
  <2>5. bound[key] = l
    BY DEF Bind
  <2>6. \A k \in DOMAIN phantoms : k # key => bound[k] = phantoms[k]
    BY DEF Bind
  <2> QED
    BY <2>1, <2>2, <2>3, <2>4, <2>5, <2>6
<1> HIDE DEF more, bound
<1> USE DEF Books
<1>4. ASSUME NEW m \in Phantom, NEW e \in more[m]
      PROVE  e.key \in DOMAIN bound /\ bound[e.key] = m
  <2>1. m \in Lists
    BY DEF Lists
  <2>2. CASE e \in held[m]
    BY <1>2, <2>2
  <2>3. CASE e \notin held[m]
    BY <1>0, <1>1, <1>2, <2>1, <2>3
  <2> QED
    BY <2>2, <2>3
<1>5. ASSUME NEW k \in DOMAIN bound
      PROVE  \E e \in more[bound[k]] : e.key = k
  <2>1. CASE k = key
    BY <1>0, <1>1, <1>2, <2>1
  <2>2. CASE k # key
    <3>1. k \in DOMAIN phantoms /\ bound[k] = phantoms[k] /\ phantoms[k] \in Lists
      BY <1>2, <2>2 DEF Lists
    <3>2. PICK e \in held[phantoms[k]] : e.key = k
      BY <3>1
    <3> QED
      BY <1>1, <3>1, <3>2
  <2> QED
    BY <2>1, <2>2
<1>6. \A m \in Resident : more[m] = held[m]
  BY <1>1 DEF Lists, Resident, Phantom
<1>7. \A k \in DOMAIN buffers : buffers[k].list \in Resident
  <2>1. buffers \in Partial(Buffers)
    BY DEF Books
  <2>2. \A k \in DOMAIN buffers : buffers[k] \in Buffers
    BY <2>1, PartialTyped
  <2> QED
    BY <2>2 DEF Buffers
<1>8. \A k \in DOMAIN buffers : k \notin DOMAIN bound
  BY <1>2
<1>9. ASSUME NEW m \in Phantom, NEW d \in more[m], NEW e \in more[m], d.key = e.key
      PROVE  d = e
  <2>1. m \in Lists /\ \A i \in held[m] : i.key # key
    BY DEF Lists
  <2> QED
    BY <1>0, <1>1, <1>9, <2>1
<1> QED
  BY <1>1, <1>2, <1>4, <1>5, <1>6, <1>7, <1>8, <1>9 DEF more, bound, x

-----------------------------------------------------------------------------
(* The structure: its lists and its maps.                                     *)

Structures == [lists : [Lists -> CacheLists], adaptive : 0 .. MaxSize,
               buffers : Partial(Buffers), phantoms : Partial(Phantom)]

Held(c) == [l \in Lists |-> Listed(c.lists[l])]

Consistent(c) ==
    /\ c \in Structures
    /\ \A l \in Lists : ListExact(c.lists[l])
    /\ Books(Held(c), c.buffers, c.phantoms)

LEMMA ListNames ==
    /\ Lists = {"hit_once", "more_than_once", "hit_once_phantom",
                "more_than_once_phantom"}
    /\ Resident = {"hit_once", "more_than_once"}
    /\ Phantom = {"hit_once_phantom", "more_than_once_phantom"}
    /\ PhantomOf("hit_once") = "hit_once_phantom"
    /\ PhantomOf("more_than_once") = "more_than_once_phantom"
    /\ \A l \in Resident : l \notin Phantom /\ PhantomOf(l) \in Phantom
  BY DEF Lists, Resident, Phantom, PhantomOf

LEMMA StructureTyped ==
    ASSUME NEW c \in Structures
    PROVE  /\ c.lists \in [Lists -> CacheLists] /\ c.adaptive \in 0 .. MaxSize
           /\ c.buffers \in Partial(Buffers) /\ c.phantoms \in Partial(Phantom)
           /\ \A l \in Lists : c.lists[l].size \in Nat /\ Len(c.lists[l].list) \in Nat
           /\ Rounds(c) \in Nat
<1>1. c.lists \in [Lists -> CacheLists] /\ c.adaptive \in 0 .. MaxSize
      /\ c.buffers \in Partial(Buffers) /\ c.phantoms \in Partial(Phantom)
  BY DEF Structures
<1>2. \A l \in Lists : c.lists[l] \in CacheLists
  BY <1>1
<1>3. \A l \in Lists : c.lists[l].size \in Nat /\ Len(c.lists[l].list) \in Nat
  BY <1>2, ListedTyped DEF CacheLists
<1>4. Rounds(c) \in Nat
  <2>1. \A l \in Lists : Count(c, l) \in Nat
    BY <1>3 DEF Count
  <2>2. /\ Count(c, "hit_once") \in Nat /\ Count(c, "more_than_once") \in Nat
        /\ Count(c, "hit_once_phantom") \in Nat
        /\ Count(c, "more_than_once_phantom") \in Nat
    BY <2>1, ListNames
  <2> QED
    BY <2>2 DEF Rounds
<1> QED
  BY <1>1, <1>3, <1>4

LEMMA WithFields ==
    ASSUME NEW c, NEW lists, NEW buffers, NEW phantoms
    PROVE  LET d == With(c, lists, buffers, phantoms)
           IN  /\ d.lists = lists /\ d.buffers = buffers /\ d.phantoms = phantoms
               /\ d.adaptive = c.adaptive
  BY DEF With

(* A structure is consistent when its parts are.                              *)
LEMMA WithConsistent ==
    ASSUME NEW c \in Structures, NEW lists \in [Lists -> CacheLists],
           \A l \in Lists : ListExact(lists[l]),
           NEW held, NEW buffers, NEW phantoms, Books(held, buffers, phantoms),
           \A l \in Lists : Listed(lists[l]) = held[l]
    PROVE  Consistent(With(c, lists, buffers, phantoms))
<1> DEFINE d == With(c, lists, buffers, phantoms)
<1>1. d.lists = lists /\ d.buffers = buffers /\ d.phantoms = phantoms
  BY DEF With
<1>2. /\ held \in [Lists -> SUBSET EntryTypes]
      /\ buffers \in Partial(Buffers) /\ phantoms \in Partial(Phantom)
  BY DEF Books
<1>3. d \in Structures
  BY <1>2 DEF With, Structures
<1>4. Held(d) = held
  BY <1>1, <1>2 DEF Held
<1> QED
  BY <1>1, <1>3, <1>4 DEF Consistent

(* The last entry of a list that is not empty.                                *)
LEMMA BackListed ==
    ASSUME NEW c, Consistent(c), NEW l \in Lists, Len(c.lists[l].list) > 0
    PROVE  /\ Back(c, l) \in Listed(c.lists[l]) /\ Back(c, l) \in EntryTypes
           /\ Back(c, l) \in Held(c)[l]
           /\ l \in Resident =>
                /\ Back(c, l).key \in DOMAIN c.buffers
                /\ c.buffers[Back(c, l).key] = [size |-> Back(c, l).size, list |-> l]
           /\ l \in Phantom =>
                /\ Back(c, l).key \in DOMAIN c.phantoms
                /\ c.phantoms[Back(c, l).key] = l
<1> DEFINE x == Back(c, l)
<1>1. ListExact(c.lists[l]) /\ Books(Held(c), c.buffers, c.phantoms)
  BY DEF Consistent
<1>2. x \in Listed(c.lists[l])
  BY <1>1, PoppedExact DEF Back
<1>3. x \in Held(c)[l]
  BY <1>2 DEF Held
<1> HIDE DEF x
<1>4. x \in EntryTypes
  BY <1>3, <1>1 DEF Books
<1>5. ASSUME l \in Phantom
      PROVE  x.key \in DOMAIN c.phantoms /\ c.phantoms[x.key] = l
  BY <1>1, <1>3, <1>5 DEF Books
<1>6. ASSUME l \in Resident
      PROVE  x.key \in DOMAIN c.buffers /\ c.buffers[x.key] = [size |-> x.size, list |-> l]
  <2>1. /\ x.key \in DOMAIN c.buffers
        /\ c.buffers[x.key].size = x.size /\ c.buffers[x.key].list = l
    BY <1>1, <1>3, <1>6 DEF Books
  <2>2. c.buffers[x.key] \in Buffers
    <3>1. c.buffers \in Partial(Buffers)
      BY <1>1 DEF Books
    <3> QED
      BY <2>1, <3>1, PartialTyped
  <2>3. PICK b \in Buffers : b = c.buffers[x.key]
    BY <2>2
  <2> QED
    BY <2>1, <2>3 DEF Buffers
<1> QED
  BY <1>2, <1>3, <1>4, <1>5, <1>6 DEF x

(* A key that is in no map is in no list.                                     *)
LEMMA UnknownUnlisted ==
    ASSUME NEW c, Consistent(c), NEW key,
           key \notin DOMAIN c.buffers, key \notin DOMAIN c.phantoms, NEW l \in Lists
    PROVE  key \notin KeysIn(c.lists[l])
<1>1. Books(Held(c), c.buffers, c.phantoms) /\ Held(c)[l] = Listed(c.lists[l])
  BY DEF Consistent, Held
<1>2. ASSUME NEW e \in Listed(c.lists[l]) PROVE e.key # key
  <2>1. CASE l \in Resident
    BY <1>1, <2>1 DEF Books
  <2>2. CASE l \in Phantom
    BY <1>1, <2>2 DEF Books
  <2> QED
    BY <2>1, <2>2 DEF Lists
<1> QED
  BY <1>2 DEF KeysIn

-----------------------------------------------------------------------------
(* What evictions leave: buffers that were there, under their keys.           *)
Evicted(c, d) ==
    /\ d.adaptive = c.adaptive
    /\ \A k \in DOMAIN d.buffers : k \in DOMAIN c.buffers /\ d.buffers[k] = c.buffers[k]
    /\ \A k \in DOMAIN d.phantoms : k \in DOMAIN c.phantoms \/ k \in DOMAIN c.buffers

LEMMA EvictedMore ==
    ASSUME NEW c, NEW d, NEW e, Evicted(c, d), Evicted(d, e)
    PROVE  Evicted(c, e)
  BY DEF Evicted

LEMMA EvictedNone == ASSUME NEW c PROVE Evicted(c, c)
  BY DEF Evicted

LEMMA EvictShape ==
    ASSUME NEW c \in Structures, NEW l \in Resident
    PROVE  LET key == Back(c, l).key
               size == c.buffers[key].size
           IN  EvictToPhantom(c, l) =
                 With(c, [c.lists EXCEPT
                            ![l] = Leave(c.lists[l], key, size),
                            ![PhantomOf(l)] = PushFront(c.lists[PhantomOf(l)], key, size)],
                      Drop(c.buffers, key), Bind(c.phantoms, key, PhantomOf(l)))
<1> DEFINE key == Back(c, l).key
           size == c.buffers[key].size
<1>1. PICK k, s : k = key /\ s = size
  OBVIOUS
<1>2. UnsafePutEntryIntoList(c.lists, k, s, {l}, PhantomOf(l)) =
        [c.lists EXCEPT ![l] = Leave(c.lists[l], k, s),
                        ![PhantomOf(l)] = PushFront(c.lists[PhantomOf(l)], k, s)]
  <2>1. l \in Lists /\ PhantomOf(l) \in Lists /\ PhantomOf(l) # l
    BY DEF Lists, Resident, Phantom, PhantomOf
  <2>2. c.lists \in [Lists -> CacheLists]
    BY DEF Structures
  <2> QED
    BY <2>1, <2>2 DEF UnsafePutEntryIntoList
<1> QED
  BY <1>1, <1>2 DEF EvictToPhantom

(* EvictHitOnceToPhantom and EvictMoreThanOnceToPhantom: a buffer goes, what  *)
(* is remembered of it comes first in the phantom list.                       *)
LEMMA EvictKeeps ==
    ASSUME NEW c, Consistent(c), NEW l \in Resident, Len(c.lists[l].list) > 0
    PROVE  LET d == EvictToPhantom(c, l)
               x == Back(c, l)
               p == PhantomOf(l)
           IN  /\ Consistent(d) /\ Evicted(c, d)
               /\ \A k \in DOMAIN c.phantoms :
                    k \in DOMAIN d.phantoms /\ d.phantoms[k] = c.phantoms[k]
               /\ \A m \in Lists \ {l, p} : d.lists[m] = c.lists[m]
               /\ d.lists[p] = PushFront(c.lists[p], x.key, x.size)
               /\ d.lists[l].size = c.lists[l].size - x.size
               /\ Len(d.lists[l].list) = Len(c.lists[l].list) - 1
               /\ Len(d.lists[p].list) = Len(c.lists[p].list) + 1
               /\ x \in EntryTypes
<1>1. c \in Structures /\ l \in Lists /\ Books(Held(c), c.buffers, c.phantoms)
      /\ \A m \in Lists : ListExact(c.lists[m])
  BY ListNames DEF Consistent
<1>2. PICK x, p : x = Back(c, l) /\ p = PhantomOf(l)
  OBVIOUS
<1>3. /\ x \in Listed(c.lists[l]) /\ x \in EntryTypes /\ x \in Held(c)[l]
      /\ x.key \in DOMAIN c.buffers /\ c.buffers[x.key].size = x.size
  <2>1. /\ x \in Listed(c.lists[l]) /\ x \in EntryTypes /\ x \in Held(c)[l]
        /\ x.key \in DOMAIN c.buffers
        /\ c.buffers[x.key] = [size |-> x.size, list |-> l]
    BY <1>1, <1>2, BackListed
  <2> QED
    BY <2>1
<1>4. PICK key \in EntryKeys, size \in Nat : key = x.key /\ size = x.size
  BY <1>3 DEF EntryTypes
<1>5. p \in Phantom /\ p \in Lists /\ p # l
  BY <1>2, ListNames DEF Lists
<1> DEFINE left == Leave(c.lists[l], key, size)
           pushed == PushFront(c.lists[p], key, size)
           lists == [c.lists EXCEPT ![l] = left, ![p] = pushed]
           buffers == Drop(c.buffers, key)
           phantoms == Bind(c.phantoms, key, p)
           d == EvictToPhantom(c, l)
           gone == [Held(c) EXCEPT ![l] = Held(c)[l] \ {x}]
           held == [gone EXCEPT ![p] = gone[p] \union {Entry(key, size)}]
<1>6. d = With(c, lists, buffers, phantoms)
  BY <1>1, <1>2, <1>3, <1>4, EvictShape
<1>7. key \notin DOMAIN c.phantoms
  BY <1>1, <1>3, <1>4 DEF Books
<1>8. Books(gone, buffers, c.phantoms)
  BY <1>1, <1>3, <1>4, BufferGone
<1>9. key \notin DOMAIN buffers
  BY DEF Drop
<1>10. Books(held, buffers, phantoms)
  <2> HIDE DEF gone, buffers
  <2> QED
    BY <1>5, <1>7, <1>8, <1>9, PhantomKept
<1>11. key \notin KeysIn(c.lists[p])
  <2>1. \A e \in Held(c)[p] : e.key \in DOMAIN c.phantoms
    BY <1>1, <1>5 DEF Books
  <2> QED
    BY <1>5, <1>7, <2>1 DEF KeysIn, Held
<1>12. ListExact(left)
  <2>4. PICK list : list = c.lists[l]
    OBVIOUS
  <2>1. PICK e \in Listed(list) : list = c.lists[l] /\ e = x
    BY <1>3, <2>4
  <2>2. ListExact(list) /\ e.key = key
    BY <1>1, <1>4, <2>1
  <2>3. ListExact(Leave(list, key, size))
    BY <2>2, LeftExact
  <2> QED
    BY <2>1, <2>3
<1>13. Listed(left) = Listed(c.lists[l]) \ {x}
  BY <1>1, <1>3, <1>4, LeftListed
<1>14. Len(left.list) = Len(c.lists[l].list) - 1 /\ left.size = c.lists[l].size - x.size
  <2>4. PICK list : list = c.lists[l]
    OBVIOUS
  <2>1. PICK e \in Listed(list) : list = c.lists[l] /\ e = x
    BY <1>3, <2>4
  <2>2. ListExact(list) /\ e.key = key
    BY <1>1, <1>4, <2>1
  <2>3. Len(Leave(list, key, size).list) = Len(list.list) - 1
        /\ Leave(list, key, size).size = list.size - e.size
    BY <2>2, LeftExact
  <2> QED
    BY <2>1, <2>3
<1>15. ListExact(pushed)
  BY <1>1, <1>5, <1>11, PushedExact
<1>16. Listed(pushed) = Listed(c.lists[p]) \union {Entry(key, size)}
       /\ Len(pushed.list) = Len(c.lists[p].list) + 1
  BY <1>1, <1>5, <1>11, PushedExact
<1>17. left \in CacheLists /\ pushed \in CacheLists
  BY <1>12, <1>15 DEF ListExact
<1>18. c.lists \in [Lists -> CacheLists]
  BY <1>1 DEF Structures
<1> HIDE DEF left, pushed
<1>19. /\ lists \in [Lists -> CacheLists] /\ lists[l] = left /\ lists[p] = pushed
       /\ \A m \in Lists \ {l, p} : lists[m] = c.lists[m]
  BY <1>1, <1>5, <1>17, <1>18
<1>20. Held(c) \in [Lists -> SUBSET EntryTypes]
       /\ \A m \in Lists : Held(c)[m] = Listed(c.lists[m])
  BY <1>1 DEF Books, Held
<1>21. \A m \in Lists : held[m] = IF m = p THEN Held(c)[p] \union {Entry(key, size)}
                                  ELSE IF m = l THEN Held(c)[l] \ {x} ELSE Held(c)[m]
  BY <1>1, <1>5, <1>20
<1> HIDE DEF lists, held, gone
<1>22. \A m \in Lists : Listed(lists[m]) = held[m]
  BY <1>5, <1>13, <1>16, <1>19, <1>20, <1>21
<1>23. \A m \in Lists : ListExact(lists[m])
  BY <1>1, <1>12, <1>15, <1>19
<1>24. Consistent(d)
  BY <1>1, <1>6, <1>10, <1>19, <1>22, <1>23, WithConsistent
<1>25. d.lists = lists /\ d.buffers = buffers /\ d.phantoms = phantoms
       /\ d.adaptive = c.adaptive
  BY <1>6, WithFields
<1>26. DOMAIN buffers \subseteq DOMAIN c.buffers
       /\ \A k \in DOMAIN buffers : buffers[k] = c.buffers[k]
  BY DEF Drop
<1>27. /\ \A k \in DOMAIN phantoms : k \in DOMAIN c.phantoms \/ k = key
       /\ \A k \in DOMAIN c.phantoms : k \in DOMAIN phantoms /\ phantoms[k] = c.phantoms[k]
  BY <1>7 DEF Bind
<1> HIDE DEF buffers, phantoms, d
<1>28. Evicted(c, d)
  BY <1>3, <1>4, <1>25, <1>26, <1>27 DEF Evicted
<1>29. /\ d.lists[p] = PushFront(c.lists[p], x.key, x.size)
       /\ Len(d.lists[p].list) = Len(c.lists[p].list) + 1
  BY <1>4, <1>16, <1>19, <1>25 DEF pushed
<1> QED
  BY <1>2, <1>3, <1>14, <1>19, <1>24, <1>25, <1>27, <1>28, <1>29 DEF d

(* The last entry of a phantom list is forgotten.                             *)
LEMMA ForgetKeeps ==
    ASSUME NEW c, Consistent(c), NEW l \in Phantom, Len(c.lists[l].list) > 0
    PROVE  LET d == ForgetBack(c, l)
               x == Back(c, l)
           IN  /\ Consistent(d) /\ Evicted(c, d)
               /\ d.buffers = c.buffers
               /\ \A m \in Lists \ {l} : d.lists[m] = c.lists[m]
               /\ Len(d.lists[l].list) = Len(c.lists[l].list) - 1
               /\ x \in EntryTypes /\ c.lists[l].size - x.size \in Nat
<1>1. c \in Structures /\ l \in Lists /\ Books(Held(c), c.buffers, c.phantoms)
      /\ \A m \in Lists : ListExact(c.lists[m])
  BY DEF Consistent, Lists
<1>2. PICK x, list : x = Back(c, l) /\ list = c.lists[l]
  OBVIOUS
<1>3. x \in EntryTypes /\ x \in Held(c)[l]
  BY <1>1, <1>2, BackListed
<1> DEFINE popped == Popped(Lowered(list, x.size))
           lists == [c.lists EXCEPT ![l] = popped]
           phantoms == Drop(c.phantoms, x.key)
           d == ForgetBack(c, l)
           held == [Held(c) EXCEPT ![l] = Held(c)[l] \ {x}]
<1>4. d = With(c, lists, c.buffers, phantoms)
  BY <1>2 DEF ForgetBack
<1>5. Books(held, c.buffers, phantoms)
  BY <1>1, <1>3, PhantomGone
<1>6. x = SeqOps!Last(list.list) /\ ListExact(list) /\ Len(list.list) > 0
  BY <1>1, <1>2 DEF Back
<1>7. ListExact(popped)
  BY <1>6, PoppedExact
<1>8. Listed(popped) = Listed(list) \ {x}
  BY <1>6, PoppedExact
<1>9. Len(popped.list) = Len(list.list) - 1 /\ popped.size = list.size - x.size
  BY <1>6, PoppedExact
<1> HIDE DEF popped
<1>10. popped \in CacheLists /\ popped.size \in Nat
  BY <1>7 DEF ListExact, CacheLists
<1>11. c.lists \in [Lists -> CacheLists]
  BY <1>1 DEF Structures
<1>12. /\ lists \in [Lists -> CacheLists] /\ lists[l] = popped
       /\ \A m \in Lists \ {l} : lists[m] = c.lists[m]
  BY <1>1, <1>10, <1>11
<1>13. Held(c) \in [Lists -> SUBSET EntryTypes]
       /\ \A m \in Lists : Held(c)[m] = Listed(c.lists[m])
  BY <1>1 DEF Books, Held
<1>14. \A m \in Lists : held[m] = IF m = l THEN Held(c)[l] \ {x} ELSE Held(c)[m]
  BY <1>1, <1>13
<1> HIDE DEF lists, held
<1>15. \A m \in Lists : Listed(lists[m]) = held[m]
  BY <1>1, <1>2, <1>8, <1>12, <1>13, <1>14
<1>16. \A m \in Lists : ListExact(lists[m])
  BY <1>1, <1>7, <1>12
<1>17. Consistent(d)
  BY <1>1, <1>4, <1>5, <1>12, <1>15, <1>16, WithConsistent
<1>18. d.lists = lists /\ d.buffers = c.buffers /\ d.phantoms = phantoms
       /\ d.adaptive = c.adaptive
  BY <1>4, WithFields
<1>19. DOMAIN phantoms \subseteq DOMAIN c.phantoms
  BY DEF Drop
<1> HIDE DEF phantoms, d
<1>20. Evicted(c, d)
  BY <1>18, <1>19 DEF Evicted
<1> QED
  BY <1>2, <1>3, <1>9, <1>10, <1>12, <1>17, <1>18, <1>20 DEF d

(* UnsafeAdaptiveAdjust evicts from a list that counts bytes, so has entries. *)
LEMMA AdjustKeeps ==
    ASSUME NEW c, Consistent(c), NEW index
    PROVE  LET d == UnsafeAdaptiveAdjust(c, index)
           IN  /\ Consistent(d) /\ Evicted(c, d)
               /\ \A k \in DOMAIN c.phantoms :
                    k \in DOMAIN d.phantoms /\ d.phantoms[k] = c.phantoms[k]
<1> DEFINE d == UnsafeAdaptiveAdjust(c, index)
<1>1. \/ d = c
      \/ \E l \in Resident : c.lists[l].size > 0 /\ d = EvictToPhantom(c, l)
  BY ListNames DEF UnsafeAdaptiveAdjust
<1> HIDE DEF d
<1>2. CASE d = c
  BY <1>2, EvictedNone DEF d
<1>3. ASSUME NEW l \in Resident, c.lists[l].size > 0, d = EvictToPhantom(c, l)
      PROVE  /\ Consistent(d) /\ Evicted(c, d)
             /\ \A k \in DOMAIN c.phantoms :
                  k \in DOMAIN d.phantoms /\ d.phantoms[k] = c.phantoms[k]
  <2>1. ListExact(c.lists[l])
    BY DEF Consistent, Lists
  <2>2. Len(c.lists[l].list) > 0
    BY <1>3, <2>1, SizedNotEmpty
  <2> QED
    BY <1>3, <2>2, EvictKeeps
<1> QED
  BY <1>1, <1>2, <1>3 DEF d

LEMMA FrontOfPushed ==
    ASSUME NEW e \in EntryTypes, NEW s \in Seq(EntryTypes), Len(s) > 0
    PROVE  SeqOps!Front(<<e>> \o s) = <<e>> \o SeqOps!Front(s)
<1> DEFINE whole == <<e>> \o s
           front == SeqOps!Front(s)
           left == SeqOps!Front(whole)
           right == <<e>> \o front
<1>1. Len(s) \in Nat /\ \A i \in 1 .. Len(s) : s[i] \in EntryTypes
  OBVIOUS
<1>2. <<e>> \in Seq(EntryTypes) /\ Len(<<e>>) = 1 /\ <<e>>[1] = e
  OBVIOUS
<1>3. /\ whole \in Seq(EntryTypes) /\ Len(whole) = 1 + Len(s)
      /\ \A i \in 1 .. 1 + Len(s) : whole[i] = IF i <= 1 THEN <<e>>[i] ELSE s[i - 1]
  BY <1>2, ConcatProperties
<1>4. /\ front \in Seq(EntryTypes) /\ Len(front) = Len(s) - 1
      /\ \A i \in 1 .. Len(s) - 1 : front[i] = s[i]
  <2>1. 1 \in Int /\ Len(s) - 1 \in Int /\ \A i \in 1 .. Len(s) - 1 : s[i] \in EntryTypes
    BY <1>1
  <2>2. /\ SubSeq(s, 1, Len(s) - 1) \in Seq(EntryTypes)
        /\ Len(SubSeq(s, 1, Len(s) - 1)) = IF 1 <= Len(s) - 1 THEN Len(s) - 1 - 1 + 1 ELSE 0
        /\ \A i \in 1 .. Len(s) - 1 - 1 + 1 : SubSeq(s, 1, Len(s) - 1)[i] = s[1 + i - 1]
    BY <2>1, SubSeqProperties
  <2>3. \A i \in 1 .. Len(s) - 1 :
          i \in 1 .. Len(s) - 1 - 1 + 1 /\ 1 + i - 1 = i
    BY <1>1
  <2>4. (1 <= Len(s) - 1 /\ Len(s) - 1 - 1 + 1 = Len(s) - 1) \/ Len(s) - 1 = 0
    <3>1. PICK n \in Nat : n = Len(s) /\ n > 0
      BY <1>1
    <3>2. (1 <= n - 1 /\ n - 1 - 1 + 1 = n - 1) \/ n - 1 = 0
      BY <3>1
    <3> QED
      BY <3>1, <3>2
  <2>5. front = SubSeq(s, 1, Len(s) - 1)
    BY DEF SeqOps!Front
  <2> HIDE DEF front
  <2> QED
    BY <2>2, <2>3, <2>4, <2>5
<1> HIDE DEF whole, front
<1>5. /\ left \in Seq(EntryTypes) /\ Len(left) = Len(s)
      /\ \A i \in 1 .. Len(s) : left[i] = whole[i]
  <2>1. 1 \in Int /\ Len(s) \in Int /\ \A i \in 1 .. Len(s) : whole[i] \in EntryTypes
    BY <1>1, <1>3
  <2>2. /\ SubSeq(whole, 1, Len(s)) \in Seq(EntryTypes)
        /\ Len(SubSeq(whole, 1, Len(s))) = IF 1 <= Len(s) THEN Len(s) - 1 + 1 ELSE 0
        /\ \A i \in 1 .. Len(s) - 1 + 1 : SubSeq(whole, 1, Len(s))[i] = whole[1 + i - 1]
    BY <2>1, SubSeqProperties
  <2>3. Len(whole) - 1 = Len(s)
    BY <1>1, <1>3
  <2> QED
    BY <1>1, <2>2, <2>3 DEF SeqOps!Front
<1>6. /\ right \in Seq(EntryTypes) /\ Len(right) = Len(s)
      /\ \A i \in 1 .. Len(s) : right[i] = IF i <= 1 THEN <<e>>[i] ELSE front[i - 1]
  <2>1. /\ right \in Seq(EntryTypes) /\ Len(right) = 1 + Len(front)
        /\ \A i \in 1 .. 1 + Len(front) :
             right[i] = IF i <= 1 THEN <<e>>[i] ELSE front[i - 1]
    BY <1>2, <1>4, ConcatProperties
  <2> QED
    BY <1>1, <1>4, <2>1
<1> HIDE DEF left, right
<1>7. ASSUME NEW i \in 1 .. Len(s) PROVE left[i] = right[i]
  <2>1. CASE i <= 1
    <3>1. left[i] = whole[i]
      BY <1>5
    <3>2. right[i] = <<e>>[i]
      BY <1>6, <2>1
    <3>3. i \in 1 .. 1 + Len(s)
      BY <1>1
    <3>4. whole[i] = <<e>>[i]
      BY <1>3, <2>1, <3>3
    <3> QED
      BY <3>1, <3>2, <3>4
  <2>2. CASE ~(i <= 1)
    <3>1. i - 1 \in 1 .. Len(s) - 1
      BY <1>1, <2>2
    <3>2. front[i - 1] = s[i - 1]
      BY <1>4, <3>1
    <3>3. left[i] = s[i - 1] /\ right[i] = front[i - 1]
      BY <1>1, <1>3, <1>5, <1>6, <2>2
    <3> QED
      BY <3>2, <3>3
  <2> QED
    BY <2>1, <2>2
<1>8. left = right
  BY <1>1, <1>5, <1>6, <1>7, SeqEqual
<1> QED
  BY <1>8 DEF left, right, whole, front

(* Lowering the counter, evicting to the list and popping it come to popping  *)
(* it first: what is evicted enters at the other end.                         *)
LEMMA PoppedPushed ==
    ASSUME NEW l \in CacheLists, Len(l.list) > 0, NEW key \in EntryKeys,
           NEW size \in Nat, NEW less \in Nat
    PROVE  Popped(PushFront(Lowered(l, less), key, size))
             = PushFront(Popped(Lowered(l, less)), key, size)
<1>1. PICK s \in Seq(EntryTypes) : s = l.list
  BY DEF CacheLists
<1>2. Entry(key, size) \in EntryTypes
  BY DEF Entry, EntryTypes
<1>3. SeqOps!Front(<<Entry(key, size)>> \o s) = <<Entry(key, size)>> \o SeqOps!Front(s)
  BY <1>1, <1>2, FrontOfPushed
<1> QED
  BY <1>1, <1>3 DEF Popped, PushFront, Lowered

LEMMA PickedTwice ==
    ASSUME NEW lists \in [Lists -> CacheLists], NEW l \in Lists, NEW a
    PROVE  [[lists EXCEPT ![l] = a] EXCEPT ![l] = Popped([lists EXCEPT ![l] = a][l])]
             = [lists EXCEPT ![l] = Popped(a)]
<1>1. PICK b : b = Popped(a)
  OBVIOUS
<1> QED
  BY <1>1

(* The two halves of a round of UnsafeTryEvict on a phantom list commute.     *)
LEMMA RoundCommutes ==
    ASSUME NEW c, Consistent(c), NEW l \in Phantom, Len(c.lists[l].list) > 0
    PROVE  LET x == Back(c, l)
               less == [c.lists EXCEPT ![l] = Lowered(c.lists[l], x.size)]
               known == UnsafeAdaptiveAdjust(
                          With(c, less, c.buffers, Drop(c.phantoms, x.key)), 1)
           IN  With(known, [known.lists EXCEPT ![l] = Popped(known.lists[l])],
                    known.buffers, known.phantoms)
                 = UnsafeAdaptiveAdjust(ForgetBack(c, l), 1)
<1>1. c \in Structures /\ l \in Lists /\ \A m \in Lists : ListExact(c.lists[m])
  BY DEF Consistent, Lists
<1>2. c.lists \in [Lists -> CacheLists] /\ c.phantoms \in Partial(Phantom)
      /\ c.buffers \in Partial(Buffers) /\ c.adaptive \in 0 .. MaxSize
  BY <1>1 DEF Structures
<1>3. PICK x, list : x = Back(c, l) /\ list = c.lists[l]
  OBVIOUS
<1>4. x \in EntryTypes /\ x.size \in Nat /\ list.size - x.size \in Nat
      /\ Consistent(ForgetBack(c, l))
  <2>1. x \in EntryTypes /\ list.size - x.size \in Nat /\ Consistent(ForgetBack(c, l))
    BY <1>3, ForgetKeeps
  <2> QED
    BY <2>1 DEF EntryTypes
<1>5. list \in CacheLists /\ Len(list.list) > 0
  BY <1>1, <1>2, <1>3
<1> DEFINE low == Lowered(list, x.size)
           less == [c.lists EXCEPT ![l] = low]
           phantoms == Drop(c.phantoms, x.key)
           c1 == With(c, less, c.buffers, phantoms)
           c2 == ForgetBack(c, l)
           lists2 == [c.lists EXCEPT ![l] = Popped(low)]
           d1 == UnsafeAdaptiveAdjust(c1, 1)
           d2 == UnsafeAdaptiveAdjust(c2, 1)
<1>6. low \in CacheLists
  BY <1>4, <1>5 DEF Lowered, CacheLists
<1>7. c2 = With(c, lists2, c.buffers, phantoms)
  BY <1>3 DEF ForgetBack
<1>8. c2 \in Structures
  BY <1>4 DEF Consistent
<1>9. phantoms \in Partial(Phantom)
  BY <1>2, DropTyped
<1> HIDE DEF low, phantoms
<1>10. less \in [Lists -> CacheLists] /\ less[l] = low
       /\ \A m \in Lists \ {l} : less[m] = c.lists[m]
  BY <1>1, <1>2, <1>6
<1>11. lists2[l] = Popped(low) /\ \A m \in Lists \ {l} : lists2[m] = c.lists[m]
  BY <1>1, <1>2
<1> HIDE DEF less, lists2
<1>12. c1 \in Structures
  BY <1>2, <1>9, <1>10 DEF With, Structures
<1>13. /\ c1.lists = less /\ c1.buffers = c.buffers /\ c1.phantoms = phantoms
       /\ c1.adaptive = c.adaptive
       /\ c2.lists = lists2 /\ c2.buffers = c.buffers /\ c2.phantoms = phantoms
       /\ c2.adaptive = c.adaptive
  BY <1>7, WithFields
<1> HIDE DEF c2
<1>14. \A m \in Resident : c1.lists[m] = c.lists[m] /\ c2.lists[m] = c.lists[m]
  BY <1>10, <1>11, <1>13, ListNames DEF Lists
<1>15. \A a \in {"hit_once", "more_than_once"} :
         c1.lists[a].size = c.lists[a].size /\ c2.lists[a].size = c.lists[a].size
  BY <1>14, ListNames
<1> HIDE DEF c1
<1>16. \/ d1 = c1 /\ d2 = c2
       \/ \E m \in Resident : /\ c.lists[m].size > 0
                              /\ d1 = EvictToPhantom(c1, m) /\ d2 = EvictToPhantom(c2, m)
  <2>1. /\ c1.lists["hit_once"].size = c.lists["hit_once"].size
        /\ c2.lists["hit_once"].size = c.lists["hit_once"].size
        /\ c1.lists["more_than_once"].size = c.lists["more_than_once"].size
        /\ c2.lists["more_than_once"].size = c.lists["more_than_once"].size
    BY <1>15
  <2>2. "hit_once" \in Resident /\ "more_than_once" \in Resident
    BY DEF Resident
  <2> QED
    BY <1>13, <2>1, <2>2 DEF UnsafeAdaptiveAdjust
<1> HIDE DEF d1, d2
<1> DEFINE done == With(d1, [d1.lists EXCEPT ![l] = Popped(d1.lists[l])],
                        d1.buffers, d1.phantoms)
<1>17. ASSUME d1 = c1, d2 = c2 PROVE done = d2
  <2>1. [less EXCEPT ![l] = Popped(less[l])] = lists2
    BY <1>1, <1>2, PickedTwice DEF less, lists2
  <2>2. done = With(c, lists2, c.buffers, phantoms)
    BY <1>13, <1>17, <2>1 DEF With
  <2> QED
    BY <1>7, <1>17, <2>2
<1>18. ASSUME NEW m \in Resident, c.lists[m].size > 0,
              d1 = EvictToPhantom(c1, m), d2 = EvictToPhantom(c2, m)
       PROVE  done = d2
  <2>1. PICK e, p : e = Back(c, m) /\ p = PhantomOf(m)
    OBVIOUS
  <2>2. Back(c1, m) = e /\ Back(c2, m) = e
    BY <1>14, <2>1 DEF Back
  <2>3. m \in Lists /\ p \in Phantom /\ p \in Lists /\ m # l /\ m # p
    BY <2>1, ListNames DEF Lists
  <2>4. Len(c.lists[m].list) > 0
    BY <1>1, <1>18, <2>3, SizedNotEmpty
  <2>5. PICK key \in EntryKeys, size \in Nat :
          key = e.key /\ size = c.buffers[e.key].size
    <3>1. e.key \in DOMAIN c.buffers /\ e \in EntryTypes
      BY <2>1, <2>3, <2>4, BackListed
    <3>2. c.buffers[e.key] \in Buffers
      BY <1>2, <3>1, PartialTyped
    <3> QED
      BY <3>1, <3>2 DEF EntryTypes, Buffers
  <2> DEFINE left == Leave(c.lists[m], key, size)
             lists3 == [less EXCEPT ![m] = left, ![p] = PushFront(less[p], key, size)]
             lists4 == [lists2 EXCEPT ![m] = left, ![p] = PushFront(lists2[p], key, size)]
  <2>6. d1 = With(c1, lists3, Drop(c.buffers, key), Bind(phantoms, key, p))
    <3>1. Leave(c1.lists[m], key, size) = left
      BY <1>14
    <3> HIDE DEF left
    <3> QED
      BY <1>12, <1>13, <1>18, <2>1, <2>2, <2>5, <3>1, EvictShape
  <2>7. d2 = With(c2, lists4, Drop(c.buffers, key), Bind(phantoms, key, p))
    <3>1. Leave(c2.lists[m], key, size) = left
      BY <1>14
    <3> HIDE DEF left
    <3> QED
      BY <1>8, <1>13, <1>18, <2>1, <2>2, <2>5, <3>1, EvictShape
  <2>8. [lists3 EXCEPT ![l] = Popped(lists3[l])] = lists4
    <3>1. Popped(PushFront(low, key, size)) = PushFront(Popped(low), key, size)
      BY <1>4, <1>5, PoppedPushed DEF low
    <3>2. PICK a, b1, b2, f, g : /\ a = left /\ b1 = PushFront(low, key, size)
                                 /\ b2 = PushFront(Popped(low), key, size)
                                 /\ f = Popped(low)
                                 /\ g = PushFront(less[p], key, size)
      OBVIOUS
    <3>3. CASE p = l
      <4>1. lists3 = [less EXCEPT ![m] = a, ![p] = b1]
            /\ lists4 = [lists2 EXCEPT ![m] = a, ![p] = b2]
        BY <1>10, <1>11, <3>2, <3>3
      <4>2. lists3[l] = b1
        BY <1>10, <2>3, <3>3, <4>1
      <4>3. Popped(lists3[l]) = b2
        BY <3>1, <3>2, <4>2
      <4> HIDE DEF lists3, lists4
      <4>4. [lists3 EXCEPT ![l] = b2] = lists4
        BY <1>1, <1>2, <1>10, <2>3, <3>3, <4>1 DEF less, lists2
      <4> QED
        BY <4>3, <4>4
    <3>4. CASE p # l
      <4>1. less[p] = lists2[p]
        BY <1>10, <1>11, <2>3, <3>4
      <4>2. lists3 = [less EXCEPT ![m] = a, ![p] = g]
            /\ lists4 = [lists2 EXCEPT ![m] = a, ![p] = g]
        BY <3>2, <4>1
      <4>3. lists3[l] = low
        BY <1>1, <1>10, <2>3, <3>4, <4>2
      <4> HIDE DEF lists3, lists4
      <4>4. [lists3 EXCEPT ![l] = f] = lists4
        BY <1>1, <1>2, <1>10, <2>3, <3>2, <3>4, <4>2 DEF less, lists2
      <4> QED
        BY <3>2, <4>3, <4>4
    <3> QED
      BY <3>3, <3>4
  <2> HIDE DEF lists3, lists4
  <2>9. /\ d1.lists = lists3 /\ d1.buffers = Drop(c.buffers, key)
        /\ d1.phantoms = Bind(phantoms, key, p) /\ d1.adaptive = c.adaptive
    BY <1>13, <2>6, WithFields
  <2> QED
    BY <1>13, <2>7, <2>8, <2>9 DEF With
<1>19. done = d2
  BY <1>16, <1>17, <1>18
<1> QED
  BY <1>3, <1>19 DEF d1, d2, c1, c2, less, low, phantoms

(* Every round leaves less to evict or forget.                                *)
LEMMA RoundsOf ==
    ASSUME NEW c \in Structures, NEW l \in Resident
    PROVE  /\ \A m \in Lists : Count(c, m) \in Nat
           /\ \E other \in Resident :
                /\ other # l /\ PhantomOf(other) # PhantomOf(l)
                /\ Rounds(c) = 2 * (Count(c, l) + Count(c, other))
                               + Count(c, PhantomOf(l)) + Count(c, PhantomOf(other))
<1>1. \A m \in Lists : Count(c, m) \in Nat
  BY StructureTyped DEF Count
<1>2. /\ Count(c, "hit_once") \in Nat /\ Count(c, "more_than_once") \in Nat
      /\ Count(c, "hit_once_phantom") \in Nat
      /\ Count(c, "more_than_once_phantom") \in Nat
  BY <1>1, ListNames
<1>3. PICK n1, n2, n3, n4 :
        /\ n1 = Count(c, "hit_once") /\ n2 = Count(c, "more_than_once")
        /\ n3 = Count(c, "hit_once_phantom") /\ n4 = Count(c, "more_than_once_phantom")
  OBVIOUS
<1>4. Rounds(c) = 2 * (n1 + n2) + n3 + n4
  BY <1>3 DEF Rounds
<1>5. 2 * (n1 + n2) + n3 + n4 = 2 * (n2 + n1) + n4 + n3
  BY <1>2, <1>3
<1>6. CASE l = "hit_once"
  <2>1. /\ "more_than_once" \in Resident /\ "more_than_once" # l
        /\ PhantomOf(l) = "hit_once_phantom"
        /\ PhantomOf("more_than_once") = "more_than_once_phantom"
    BY <1>6, ListNames
  <2> QED
    BY <1>1, <1>3, <1>4, <1>6, <2>1
<1>7. CASE l = "more_than_once"
  <2>1. /\ "hit_once" \in Resident /\ "hit_once" # l
        /\ PhantomOf(l) = "more_than_once_phantom"
        /\ PhantomOf("hit_once") = "hit_once_phantom"
    BY <1>7, ListNames
  <2> QED
    BY <1>1, <1>3, <1>4, <1>5, <1>7, <2>1
<1> QED
  BY <1>6, <1>7, ListNames

LEMMA EvictShortens ==
    ASSUME NEW c, Consistent(c), NEW l \in Resident, Len(c.lists[l].list) > 0
    PROVE  Rounds(EvictToPhantom(c, l)) < Rounds(c)
<1>1. PICK d, p : d = EvictToPhantom(c, l) /\ p = PhantomOf(l)
  OBVIOUS
<1>2. /\ Consistent(d)
      /\ \A m \in Lists \ {l, p} : d.lists[m] = c.lists[m]
      /\ Len(d.lists[l].list) = Len(c.lists[l].list) - 1
      /\ Len(d.lists[p].list) = Len(c.lists[p].list) + 1
  BY <1>1, EvictKeeps
<1>3. c \in Structures /\ d \in Structures
  BY <1>2 DEF Consistent
<1>4. /\ Count(d, l) = Count(c, l) - 1 /\ Count(d, p) = Count(c, p) + 1
      /\ \A m \in Lists \ {l, p} : Count(d, m) = Count(c, m)
  BY <1>2 DEF Count
<1>5. PICK other \in Resident :
        /\ other # l /\ PhantomOf(other) # p
        /\ Rounds(c) = 2 * (Count(c, l) + Count(c, other))
                       + Count(c, p) + Count(c, PhantomOf(other))
  BY <1>1, <1>3, RoundsOf
<1>6. PICK same \in Resident :
        /\ same # l /\ PhantomOf(same) # p
        /\ Rounds(d) = 2 * (Count(d, l) + Count(d, same))
                       + Count(d, p) + Count(d, PhantomOf(same))
  BY <1>1, <1>3, RoundsOf
<1>7. same = other
  BY <1>5, <1>6, ListNames
<1>8. /\ l \in Lists /\ p \in Lists /\ other \in Lists \ {l, p}
      /\ PhantomOf(other) \in Lists \ {l, p}
  BY <1>1, <1>5, ListNames DEF Lists
<1>9. Count(d, other) = Count(c, other)
      /\ Count(d, PhantomOf(other)) = Count(c, PhantomOf(other))
  BY <1>4, <1>8
<1>10. \A m \in Lists : Count(c, m) \in Nat
  BY <1>3, RoundsOf
<1>11. PICK a \in Nat, b \in Nat, e \in Nat, f \in Nat :
         /\ a = Count(c, l) /\ b = Count(c, other) /\ e = Count(c, p)
         /\ f = Count(c, PhantomOf(other))
  BY <1>8, <1>10
<1>12. Rounds(c) = 2 * (a + b) + e + f /\ Rounds(d) = 2 * (a - 1 + b) + (e + 1) + f
  BY <1>4, <1>5, <1>6, <1>7, <1>9, <1>11
<1>13. 2 * (a - 1 + b) + (e + 1) + f < 2 * (a + b) + e + f
  OBVIOUS
<1> QED
  BY <1>1, <1>12, <1>13

LEMMA ForgetShortens ==
    ASSUME NEW c, Consistent(c), NEW l \in Resident,
           Len(c.lists[PhantomOf(l)].list) > 0
    PROVE  Rounds(ForgetBack(c, PhantomOf(l))) < Rounds(c)
<1>1. PICK d, p : d = ForgetBack(c, p) /\ p = PhantomOf(l) /\ p \in Phantom
  BY ListNames
<1>2. /\ Consistent(d)
      /\ \A m \in Lists \ {p} : d.lists[m] = c.lists[m]
      /\ Len(d.lists[p].list) = Len(c.lists[p].list) - 1
  BY <1>1, ForgetKeeps
<1>3. c \in Structures /\ d \in Structures
  BY <1>2 DEF Consistent
<1>4. /\ Count(d, p) = Count(c, p) - 1
      /\ \A m \in Lists \ {p} : Count(d, m) = Count(c, m)
  BY <1>2 DEF Count
<1>5. PICK other \in Resident :
        /\ other # l /\ PhantomOf(other) # p
        /\ Rounds(c) = 2 * (Count(c, l) + Count(c, other))
                       + Count(c, p) + Count(c, PhantomOf(other))
  BY <1>1, <1>3, RoundsOf
<1>6. PICK same \in Resident :
        /\ same # l /\ PhantomOf(same) # p
        /\ Rounds(d) = 2 * (Count(d, l) + Count(d, same))
                       + Count(d, p) + Count(d, PhantomOf(same))
  BY <1>1, <1>3, RoundsOf
<1>7. same = other
  BY <1>5, <1>6, ListNames
<1>8. /\ l \in Lists \ {p} /\ p \in Lists /\ other \in Lists \ {p}
      /\ PhantomOf(other) \in Lists \ {p}
  BY <1>1, <1>5, ListNames DEF Lists
<1>9. Count(d, other) = Count(c, other) /\ Count(d, l) = Count(c, l)
      /\ Count(d, PhantomOf(other)) = Count(c, PhantomOf(other))
  BY <1>4, <1>8
<1>10. \A m \in Lists : Count(c, m) \in Nat
  BY <1>3, RoundsOf
<1>11. PICK a \in Nat, b \in Nat, e \in Nat, f \in Nat :
         /\ a = Count(c, l) /\ b = Count(c, other) /\ e = Count(c, p)
         /\ f = Count(c, PhantomOf(other))
  BY <1>8, <1>10
<1>12. Rounds(c) = 2 * (a + b) + e + f /\ Rounds(d) = 2 * (a + b) + (e - 1) + f
  BY <1>4, <1>5, <1>6, <1>7, <1>9, <1>11
<1>13. 2 * (a + b) + (e - 1) + f < 2 * (a + b) + e + f
  OBVIOUS
<1> QED
  BY <1>1, <1>12, <1>13

LEMMA PopShortens ==
    ASSUME NEW c \in Structures, NEW d \in Structures, NEW l \in Resident,
           Count(d, l) = Count(c, l) - 1,
           \A m \in Lists \ {l} : Count(d, m) = Count(c, m)
    PROVE  Rounds(d) < Rounds(c)
<1>1. PICK p : p = PhantomOf(l)
  OBVIOUS
<1>2. PICK other \in Resident :
        /\ other # l /\ PhantomOf(other) # p
        /\ Rounds(c) = 2 * (Count(c, l) + Count(c, other))
                       + Count(c, p) + Count(c, PhantomOf(other))
  BY <1>1, RoundsOf
<1>3. PICK same \in Resident :
        /\ same # l /\ PhantomOf(same) # p
        /\ Rounds(d) = 2 * (Count(d, l) + Count(d, same))
                       + Count(d, p) + Count(d, PhantomOf(same))
  BY <1>1, RoundsOf
<1>4. same = other
  BY <1>2, <1>3, ListNames
<1>5. /\ l \in Lists /\ p \in Lists \ {l} /\ other \in Lists \ {l}
      /\ PhantomOf(other) \in Lists \ {l}
  BY <1>1, <1>2, ListNames DEF Lists
<1>6. /\ Count(d, other) = Count(c, other) /\ Count(d, p) = Count(c, p)
      /\ Count(d, PhantomOf(other)) = Count(c, PhantomOf(other))
  BY <1>5
<1>7. \A m \in Lists : Count(c, m) \in Nat
  BY RoundsOf
<1>8. PICK a \in Nat, b \in Nat, e \in Nat, f \in Nat :
         /\ a = Count(c, l) /\ b = Count(c, other) /\ e = Count(c, p)
         /\ f = Count(c, PhantomOf(other))
  BY <1>5, <1>7
<1>9. Rounds(c) = 2 * (a + b) + e + f /\ Rounds(d) = 2 * (a - 1 + b) + e + f
  BY <1>2, <1>3, <1>4, <1>6, <1>8
<1>10. 2 * (a - 1 + b) + e + f < 2 * (a + b) + e + f
  OBVIOUS
<1> QED
  BY <1>9, <1>10

LEMMA RoundsTyped == ASSUME NEW c \in Structures PROVE Rounds(c) \in Nat
  BY StructureTyped

LEMMA AdjustShortens ==
    ASSUME NEW c, Consistent(c), NEW index
    PROVE  Rounds(UnsafeAdaptiveAdjust(c, index)) <= Rounds(c)
<1>1. PICK d : d = UnsafeAdaptiveAdjust(c, index)
  OBVIOUS
<1>2. \/ d = c
      \/ \E l \in Resident : c.lists[l].size > 0 /\ d = EvictToPhantom(c, l)
  BY <1>1, ListNames DEF UnsafeAdaptiveAdjust
<1>3. Rounds(c) \in Nat /\ Rounds(d) \in Nat
  BY <1>1, AdjustKeeps, RoundsTyped DEF Consistent
<1>4. CASE d = c
  BY <1>1, <1>3, <1>4
<1>5. ASSUME NEW l \in Resident, c.lists[l].size > 0, d = EvictToPhantom(c, l)
      PROVE  Rounds(d) <= Rounds(c)
  <2>1. ListExact(c.lists[l])
    BY DEF Consistent, Lists
  <2>2. Len(c.lists[l].list) > 0
    BY <1>5, <2>1, SizedNotEmpty
  <2>3. Rounds(d) < Rounds(c)
    BY <1>5, <2>2, EvictShortens
  <2> QED
    BY <1>3, <2>3
<1> QED
  BY <1>1, <1>2, <1>4, <1>5

(* A round of UnsafeTryEvict.                                                 *)
LEMMA RoundKeeps ==
    ASSUME NEW r, Consistent(r.c), r.desired \in Nat, NEW l \in Lists,
           r.c.lists[l].size > 0
    PROVE  LET q == EvictBack(r, l)
           IN  /\ Consistent(q.c) /\ Evicted(r.c, q.c) /\ q.desired \in Nat
               /\ Rounds(q.c) < Rounds(r.c)
<1>1. PICK c : c = r.c
  OBVIOUS
<1>2. Consistent(c) /\ c \in Structures /\ \A m \in Lists : ListExact(c.lists[m])
  BY <1>1 DEF Consistent
<1>3. Len(c.lists[l].list) > 0
  BY <1>1, <1>2, SizedNotEmpty
<1>4. PICK x : x = Back(c, l)
  OBVIOUS
<1>5. x \in EntryTypes /\ x.size \in Nat
  <2>1. x \in EntryTypes
    BY <1>2, <1>3, <1>4, BackListed
  <2> QED
    BY <2>1 DEF EntryTypes
<1> DEFINE q == EvictBack(r, l)
<1>6. q.desired \in Nat
  <2>1. PICK desired \in Nat, size \in Nat : desired = r.desired /\ size = x.size
    BY <1>5
  <2>2. q.desired = IF desired > size THEN desired - size ELSE 0
    BY <1>1, <1>4, <2>1 DEF EvictBack
  <2>3. CASE desired > size
    <3>1. desired - size \in Nat
      BY <2>3
    <3> QED
      BY <2>2, <2>3, <3>1
  <2>4. CASE ~(desired > size)
    BY <2>2, <2>4
  <2> QED
    BY <2>3, <2>4
<1>7. ASSUME l \in Phantom
      PROVE  Consistent(q.c) /\ Evicted(c, q.c) /\ Rounds(q.c) < Rounds(c)
  <2> DEFINE less == [c.lists EXCEPT ![l] = Lowered(c.lists[l], x.size)]
             known == UnsafeAdaptiveAdjust(
                        With(c, less, c.buffers, Drop(c.phantoms, x.key)), 1)
             d == UnsafeAdaptiveAdjust(ForgetBack(c, l), 1)
  <2>1. l \notin Resident
    BY <1>7, ListNames
  <2>2. q.c = With(known, [known.lists EXCEPT ![l] = Popped(known.lists[l])],
                   known.buffers, known.phantoms)
    BY <1>1, <1>4, <2>1 DEF EvictBack
  <2> HIDE DEF q
  <2>3. q.c = d
    BY <1>2, <1>3, <1>4, <1>7, <2>2, RoundCommutes
  <2>4. Consistent(ForgetBack(c, l)) /\ Evicted(c, ForgetBack(c, l))
    BY <1>2, <1>3, <1>7, ForgetKeeps
  <2>5. Consistent(d) /\ Evicted(ForgetBack(c, l), d)
    BY <2>4, AdjustKeeps
  <2>6. PICK f : f = ForgetBack(c, l)
    OBVIOUS
  <2>7. Rounds(f) < Rounds(c)
    <3>1. PICK m \in Resident : l = PhantomOf(m)
      BY <1>7, ListNames
    <3> QED
      BY <1>2, <1>3, <2>6, <3>1, ForgetShortens
  <2>8. Rounds(d) <= Rounds(f)
    BY <2>4, <2>6, AdjustShortens
  <2>9. Rounds(d) \in Nat /\ Rounds(f) \in Nat /\ Rounds(c) \in Nat
    BY <1>2, <2>4, <2>5, <2>6, RoundsTyped DEF Consistent
  <2>10. Rounds(q.c) < Rounds(c)
    BY <2>3, <2>7, <2>8, <2>9
  <2> QED
    BY <2>3, <2>4, <2>5, <2>10, EvictedMore
<1>8. ASSUME l \in Resident
      PROVE  Consistent(q.c) /\ Evicted(c, q.c) /\ Rounds(q.c) < Rounds(c)
  <2>1. PICK list : list = c.lists[l]
    OBVIOUS
  <2> DEFINE popped == Popped(Lowered(list, x.size))
             less == [c.lists EXCEPT ![l] = Lowered(list, x.size)]
             lists == [c.lists EXCEPT ![l] = popped]
             buffers == Drop(c.buffers, x.key)
             held == [Held(c) EXCEPT ![l] = Held(c)[l] \ {x}]
  <2>2. c.lists \in [Lists -> CacheLists] /\ Books(Held(c), c.buffers, c.phantoms)
    BY <1>2 DEF Structures, Consistent
  <2>3. x = SeqOps!Last(list.list) /\ ListExact(list) /\ Len(list.list) > 0
    BY <1>2, <1>3, <1>4, <2>1 DEF Back
  <2>4. ListExact(popped)
    BY <2>3, PoppedExact
  <2>5. /\ Listed(popped) = Listed(list) \ {x} /\ x \in Listed(list)
        /\ Len(popped.list) = Len(list.list) - 1
    BY <2>3, PoppedExact
  <2>6. [less EXCEPT ![l] = Popped(less[l])] = lists
    BY <2>2, PickedTwice
  <2>7. q.c = With(c, lists, buffers, c.phantoms)
    <3> DEFINE known == With(c, less, buffers, c.phantoms)
    <3>1. q.c = With(known, [known.lists EXCEPT ![l] = Popped(known.lists[l])],
                     known.buffers, known.phantoms)
      BY <1>1, <1>4, <1>8, <2>1 DEF EvictBack
    <3>2. known.lists = less /\ known.buffers = buffers
          /\ known.phantoms = c.phantoms /\ known.adaptive = c.adaptive
      BY WithFields
    <3> HIDE DEF known, less, lists, buffers, q
    <3> QED
      BY <2>6, <3>1, <3>2 DEF With
  <2>8. Books(held, buffers, c.phantoms)
    <3>1. x \in Held(c)[l]
      BY <2>1, <2>5 DEF Held
    <3> QED
      BY <1>8, <2>2, <3>1, BufferGone
  <2> HIDE DEF popped
  <2>9. popped \in CacheLists
    BY <2>4 DEF ListExact
  <2>10. /\ lists \in [Lists -> CacheLists] /\ lists[l] = popped
         /\ \A m \in Lists \ {l} : lists[m] = c.lists[m]
    BY <2>2, <2>9
  <2>11. Held(c) \in [Lists -> SUBSET EntryTypes]
         /\ \A m \in Lists : Held(c)[m] = Listed(c.lists[m])
    BY <2>2 DEF Books, Held
  <2>12. \A m \in Lists : held[m] = IF m = l THEN Held(c)[l] \ {x} ELSE Held(c)[m]
    BY <2>11
  <2> HIDE DEF lists, held, q
  <2>13. \A m \in Lists : Listed(lists[m]) = held[m]
    BY <2>1, <2>5, <2>10, <2>11, <2>12
  <2>14. \A m \in Lists : ListExact(lists[m])
    BY <1>2, <2>4, <2>10
  <2>15. Consistent(q.c)
    BY <1>2, <2>7, <2>8, <2>10, <2>13, <2>14, WithConsistent
  <2>16. q.c.buffers = buffers /\ q.c.phantoms = c.phantoms /\ q.c.adaptive = c.adaptive
    BY <2>7, WithFields
  <2>17. DOMAIN buffers \subseteq DOMAIN c.buffers
         /\ \A k \in DOMAIN buffers : buffers[k] = c.buffers[k]
    BY DEF Drop
  <2>18. q.c.lists = lists /\ q.c \in Structures
    BY <2>7, <2>15, WithFields DEF Consistent
  <2> HIDE DEF buffers
  <2>19. /\ Count(q.c, l) = Count(c, l) - 1
         /\ \A m \in Lists \ {l} : Count(q.c, m) = Count(c, m)
    BY <2>1, <2>5, <2>10, <2>18 DEF Count
  <2>20. Rounds(q.c) < Rounds(c)
    BY <1>2, <1>8, <2>18, <2>19, PopShortens
  <2> QED
    BY <2>15, <2>16, <2>17, <2>20 DEF Evicted
<1> QED
  BY <1>1, <1>6, <1>7, <1>8 DEF Lists

(* It keeps the books, and stops because enough was evicted or nothing is left *)
(* in the list to evict.                                                      *)
LEMMA TryEvictKeeps ==
    ASSUME NEW c, Consistent(c), NEW l \in Lists, NEW desired \in Nat
    PROVE  LET r == UnsafeTryEvict(c, l, desired)
           IN  /\ Consistent(r.c) /\ Evicted(c, r.c) /\ r.desired \in Nat
               /\ r.desired = 0 \/ r.c.lists[l].size = 0
<1> DEFINE States == {r \in [c : Structures, desired : Nat] :
                        Consistent(r.c) /\ Evicted(c, r.c)}
           Good(r) == Consistent(r.c) /\ Evicted(c, r.c) /\ r.desired \in Nat
           start == [c |-> c, desired |-> desired]
           bound == Rounds(c)
           Goes(r) == r.desired > 0 /\ r.c.lists[l].size > 0
           Going == {r \in States : Goes(r)}
           round == [r \in States |-> IF Goes(r) THEN EvictBack(r, l) ELSE r]
           measure == [r \in States |-> Rounds(r.c)]
<1>1. bound \in Nat
  BY StructureTyped DEF Consistent
<1>2. start \in States
  BY EvictedNone DEF Consistent
<1>3. \A r \in States : Good(r)
  OBVIOUS
<1>4. ASSUME NEW r \in States PROVE round[r] \in States /\ (Goes(r) => Rounds(round[r].c) < Rounds(r.c))
  <2>1. CASE ~Goes(r)
    BY <2>1
  <2>2. CASE Goes(r)
    <3>1. PICK q : q = EvictBack(r, l)
      OBVIOUS
    <3>2. /\ Consistent(q.c) /\ Evicted(r.c, q.c) /\ q.desired \in Nat
          /\ Rounds(q.c) < Rounds(r.c)
      BY <1>3, <2>2, <3>1, RoundKeeps
    <3>3. Evicted(c, q.c)
      BY <1>3, <3>2, EvictedMore
    <3>4. q.c \in Structures
      BY <3>2 DEF Consistent
    <3>5. q = [c |-> q.c, desired |-> q.desired]
      BY <3>1 DEF EvictBack
    <3>6. q \in States
      BY <3>2, <3>3, <3>4, <3>5
    <3> QED
      BY <2>2, <3>1, <3>2, <3>6
  <2> QED
    BY <2>1, <2>2
<1>6. PICK run : /\ run = [i \in 0 .. bound |-> run[i]]
                 /\ \A i \in 0 .. bound : run[i] \in States
                 /\ run[0] = start
                 /\ \A i \in 1 .. bound : run[i] = round[run[i - 1]]
  <2> HIDE DEF round, bound, start, States
  <2>1. \A r \in States : round[r] \in States
    BY <1>4
  <2>2. PICK run : IsRun(run, round, start, States, bound)
    BY <1>1, <1>2, <2>1, RunExists
  <2> QED
    BY <2>2, Zenon DEF IsRun
<1>7. run = [n \in 0 .. bound |-> IF n = 0 THEN start ELSE
               IF Goes(run[n - 1]) THEN EvictBack(run[n - 1], l) ELSE run[n - 1]]
  <2>1. ASSUME NEW n \in 1 .. bound
        PROVE  run[n] = IF Goes(run[n - 1]) THEN EvictBack(run[n - 1], l)
                        ELSE run[n - 1]
    <3> HIDE DEF Goes, bound, States
    <3>1. n - 1 \in 0 .. bound
      BY <1>1
    <3>2. run[n - 1] \in States
      BY <1>6, <3>1
    <3> QED
      BY <1>6, <3>2
  <2>2. \A n \in 0 .. bound : n = 0 \/ n \in 1 .. bound
    BY <1>1
  <2> HIDE DEF Goes, start, bound, States, round
  <2>3. \A n \in 0 .. bound : run[n] = IF n = 0 THEN start ELSE
          IF Goes(run[n - 1]) THEN EvictBack(run[n - 1], l) ELSE run[n - 1]
    BY <1>6, <2>1, <2>2
  <2> QED
    BY <1>6, <2>3, Zenon
<1> HIDE DEF States
<1>8. \E f : /\ f = [n \in 0 .. Rounds(c) |-> IF n = 0 THEN [c |-> c, desired |-> desired]
                      ELSE IF f[n - 1].desired > 0 /\ f[n - 1].c.lists[l].size > 0
                             THEN EvictBack(f[n - 1], l) ELSE f[n - 1]]
             /\ UnsafeTryEvict(c, l, desired) = f[Rounds(c)]
  BY <1>7, Zenon DEF UnsafeTryEvict, While, Round
<1>9. PICK f : /\ f = [n \in 0 .. bound |-> IF n = 0 THEN start ELSE
                        IF Goes(f[n - 1]) THEN EvictBack(f[n - 1], l) ELSE f[n - 1]]
               /\ UnsafeTryEvict(c, l, desired) = f[bound]
  BY <1>8, Zenon
<1>10. f[0] = start /\ \A n \in 1 .. bound :
         f[n - 1] \in States => f[n] = round[f[n - 1]]
  <2>1. 0 \in 0 .. bound /\ \A n \in 1 .. bound : n \in 0 .. bound /\ n # 0
    BY <1>1
  <2>2. \A n \in 0 .. bound : f[n] = IF n = 0 THEN start ELSE
          IF Goes(f[n - 1]) THEN EvictBack(f[n - 1], l) ELSE f[n - 1]
    <3> HIDE DEF Goes, start, bound, round
    <3> QED
      BY <1>9, Zenon
  <2> HIDE DEF Goes, start, bound, States
  <2> QED
    BY <2>1, <2>2
<1>11. f[bound] \in States \ Going
  <2>1. Going \in SUBSET States /\ \A x \in States \ Going : round[x] = x
    BY <1>4
  <2>2. \A x \in States : measure[x] \in Nat
    BY <1>3, RoundsTyped DEF Consistent
  <2>3. \A x \in Going : measure[round[x]] < measure[x]
    BY <1>4
  <2>4. measure[start] = bound
    BY <1>2
  <2> HIDE DEF round, bound, start, Going, measure
  <2>5. \A r \in States : round[r] \in States
    BY <1>4
  <2>6. f[0] \in States /\ measure[f[0]] <= bound
    BY <1>1, <1>2, <1>10, <2>4
  <2> QED
    BY <1>1, <1>10, <2>1, <2>2, <2>3, <2>5, <2>6, RunEnds
<1>12. PICK r \in States : r = f[bound] /\ ~Goes(r)
  BY <1>11
<1>13. PICK size \in Nat : size = r.c.lists[l].size
  BY <1>3, <1>12, StructureTyped DEF Consistent
<1>14. PICK more \in Nat : more = r.desired
  BY <1>3
<1>15. more = 0 \/ size = 0
  BY <1>12, <1>13, <1>14
<1> QED
  BY <1>3, <1>9, <1>12, <1>13, <1>14, <1>15

-----------------------------------------------------------------------------
(* EvictMemoryOverflow.                                                        *)

(* What is kept in memory fits at the end.                                    *)
LEMMA EvictResidentEnds ==
    ASSUME NEW c, Consistent(c)
    PROVE  LET d == EvictResident(c)
           IN  Consistent(d) /\ Evicted(c, d) /\ InMemory(d) <= MaxSize
<1> DEFINE States == {d \in Structures : Consistent(d) /\ Evicted(c, d)}
           Victim(d) == IF d.lists["hit_once"].size > d.adaptive THEN "hit_once"
                        ELSE "more_than_once"
           Goes(d) == InMemory(d) > MaxSize
           Going == {d \in States : Goes(d)}
           bound == Rounds(c)
           round == [d \in States |-> IF Goes(d) THEN EvictToPhantom(d, Victim(d))
                                      ELSE d]
           measure == [d \in States |-> Rounds(d)]
<1>1. bound \in Nat /\ measure \in [States -> Nat]
  BY StructureTyped DEF Consistent
<1>2. c \in States /\ measure[c] = bound
  BY EvictedNone DEF Consistent
<1>3. ASSUME NEW d \in States, Goes(d)
      PROVE  EvictToPhantom(d, Victim(d)) \in States
             /\ Rounds(EvictToPhantom(d, Victim(d))) < Rounds(d)
  <2>1. PICK l : l = Victim(d)
    OBVIOUS
  <2>2. PICK once \in Nat, more \in Nat, a \in 0 .. MaxSize :
          /\ once = d.lists["hit_once"].size /\ more = d.lists["more_than_once"].size
          /\ a = d.adaptive
    <3>1. \A m \in Lists : d.lists[m].size \in Nat
      BY StructureTyped
    <3>2. d.lists["hit_once"].size \in Nat /\ d.lists["more_than_once"].size \in Nat
      BY <3>1, ListNames
    <3> QED
      BY <3>2, StructureTyped
  <2>3. once + more > MaxSize
    BY <1>3, <2>2 DEF InMemory
  <2>4. l \in Resident /\ l \in Lists /\ d.lists[l].size > 0
    <3>1. CASE once > a
      <4>1. l = "hit_once" /\ once > 0
        BY <2>1, <2>2, <3>1
      <4> QED
        BY <2>2, <4>1, ListNames DEF Lists
    <3>2. CASE ~(once > a)
      <4>1. l = "more_than_once" /\ more > 0
        BY <2>1, <2>2, <2>3, <3>2, ArcAssumption
      <4> QED
        BY <2>2, <4>1, ListNames DEF Lists
    <3> QED
      BY <3>1, <3>2
  <2>5. ListExact(d.lists[l])
    BY <2>4 DEF Consistent
  <2>6. Len(d.lists[l].list) > 0
    BY <2>4, <2>5, SizedNotEmpty
  <2>7. PICK e : e = EvictToPhantom(d, l)
    OBVIOUS
  <2>8. Consistent(e) /\ Evicted(d, e)
    BY <2>4, <2>6, <2>7, EvictKeeps
  <2>9. Rounds(e) < Rounds(d)
    BY <2>4, <2>6, <2>7, EvictShortens
  <2>10. e \in States
    BY <2>8, EvictedMore DEF Consistent
  <2> QED
    BY <2>1, <2>7, <2>9, <2>10
<1>4. \A d \in States : round[d] \in States
  BY <1>3
<1>5. /\ \A d \in Going : measure[round[d]] < measure[d]
      /\ \A d \in States \ Going : round[d] = d
  BY <1>3
<1>6. PICK run : /\ run = [i \in 0 .. bound |-> run[i]]
                 /\ \A i \in 0 .. bound : run[i] \in States
                 /\ run[0] = c
                 /\ \A i \in 1 .. bound : run[i] = round[run[i - 1]]
  <2> HIDE DEF round, bound, States
  <2>1. PICK run : IsRun(run, round, c, States, bound)
    BY <1>1, <1>2, <1>4, RunExists
  <2> QED
    BY <2>1, Zenon DEF IsRun
<1>7. run = [n \in 0 .. bound |-> IF n = 0 THEN c ELSE
               IF Goes(run[n - 1]) THEN EvictToPhantom(run[n - 1], Victim(run[n - 1]))
               ELSE run[n - 1]]
  <2>1. ASSUME NEW n \in 1 .. bound
        PROVE  run[n] = IF Goes(run[n - 1])
                        THEN EvictToPhantom(run[n - 1], Victim(run[n - 1]))
                        ELSE run[n - 1]
    <3> HIDE DEF Goes, bound, States, Victim
    <3>1. n - 1 \in 0 .. bound
      BY <1>1
    <3>2. run[n - 1] \in States
      BY <1>6, <3>1
    <3> QED
      BY <1>6, <3>2
  <2>2. \A n \in 0 .. bound : n = 0 \/ n \in 1 .. bound
    BY <1>1
  <2> HIDE DEF Goes, bound, States, round, Victim
  <2>3. \A n \in 0 .. bound : run[n] = IF n = 0 THEN c ELSE
          IF Goes(run[n - 1]) THEN EvictToPhantom(run[n - 1], Victim(run[n - 1]))
          ELSE run[n - 1]
    BY <1>6, <2>1, <2>2
  <2> QED
    BY <1>6, <2>3, Zenon
<1> HIDE DEF States
<1>8. PICK f : /\ f = [n \in 0 .. bound |-> IF n = 0 THEN c ELSE
                        IF Goes(f[n - 1]) THEN EvictToPhantom(f[n - 1], Victim(f[n - 1]))
                        ELSE f[n - 1]]
               /\ EvictResident(c) = f[bound]
  BY <1>7, Zenon DEF EvictResident, While, Round
<1>9. f[0] = c /\ \A n \in 1 .. bound :
        f[n - 1] \in States => f[n] = round[f[n - 1]]
  <2>1. 0 \in 0 .. bound /\ \A n \in 1 .. bound : n \in 0 .. bound /\ n # 0
    BY <1>1
  <2>2. \A n \in 0 .. bound : f[n] = IF n = 0 THEN c ELSE
          IF Goes(f[n - 1]) THEN EvictToPhantom(f[n - 1], Victim(f[n - 1])) ELSE f[n - 1]
    <3> HIDE DEF Goes, bound, round, Victim
    <3> QED
      BY <1>8, Zenon
  <2> HIDE DEF Goes, bound, Victim
  <2> QED
    BY <2>1, <2>2
<1>10. f[bound] \in States \ Going
  <2>1. Going \in SUBSET States
    OBVIOUS
  <2>3. \A x \in States : measure[x] \in Nat
    BY <1>1
  <2> HIDE DEF round, bound, Going, measure
  <2>2. measure[f[0]] <= bound /\ f[0] \in States
    BY <1>1, <1>2, <1>9
  <2> QED
    BY <1>1, <1>4, <1>5, <1>9, <2>1, <2>2, <2>3, RunEnds
<1>11. f[bound] \in Structures /\ Consistent(f[bound]) /\ Evicted(c, f[bound])
       /\ ~(InMemory(f[bound]) > MaxSize)
  <2> HIDE DEF bound
  <2> QED
    BY <1>10 DEF States
<1>12. PICK d \in Structures : d = f[bound]
  BY <1>11
<1>13. InMemory(d) \in Nat
  <2>1. \A m \in Lists : d.lists[m].size \in Nat
    BY StructureTyped
  <2>2. d.lists["hit_once"].size \in Nat /\ d.lists["more_than_once"].size \in Nat
    BY <2>1, ListNames
  <2> QED
    BY <2>2 DEF InMemory
<1> HIDE DEF bound
<1>14. InMemory(d) <= MaxSize
  BY <1>11, <1>12, <1>13, ArcAssumption
<1> QED
  BY <1>8, <1>11, <1>12, <1>14

(* What is remembered of a half fits beside it at the end.                    *)
LEMMA TrimPhantomEnds ==
    ASSUME NEW c, Consistent(c), NEW l \in Resident, c.lists[l].size <= MaxSize
    PROVE  LET d == TrimPhantom(c, l)
               p == PhantomOf(l)
           IN  /\ Consistent(d) /\ Evicted(c, d)
               /\ \A m \in Lists \ {p} : d.lists[m] = c.lists[m]
               /\ d.lists[l].size + d.lists[p].size <= MaxSize
<1> DEFINE p == PhantomOf(l)
           Same(d) == \A m \in Lists \ {p} : d.lists[m] = c.lists[m]
           States == {d \in Structures : Consistent(d) /\ Evicted(c, d) /\ Same(d)}
           Goes(d) == d.lists[l].size + d.lists[p].size > MaxSize
           Going == {d \in States : Goes(d)}
           bound == Rounds(c)
           round == [d \in States |-> IF Goes(d) THEN ForgetBack(d, p) ELSE d]
           measure == [d \in States |-> Rounds(d)]
<1>0. p \in Phantom /\ p \in Lists /\ l \in Lists \ {p}
  BY ListNames DEF Lists
<1>1. bound \in Nat /\ measure \in [States -> Nat]
  BY StructureTyped DEF Consistent
<1>2. c \in States /\ measure[c] = bound
  BY EvictedNone DEF Consistent
<1>3. ASSUME NEW d \in States, Goes(d)
      PROVE  ForgetBack(d, p) \in States /\ Rounds(ForgetBack(d, p)) < Rounds(d)
  <2>1. PICK held \in Nat, known \in Nat :
          held = d.lists[l].size /\ known = d.lists[p].size
    BY <1>0, StructureTyped
  <2>2. held = c.lists[l].size
    BY <1>0, <2>1
  <2>3. held <= MaxSize /\ held + known > MaxSize
    BY <1>3, <2>1, <2>2
  <2>4. d.lists[p].size > 0
    BY <2>1, <2>3, ArcAssumption
  <2>5. ListExact(d.lists[p])
    BY <1>0 DEF Consistent
  <2>6. Len(d.lists[p].list) > 0
    BY <2>4, <2>5, SizedNotEmpty
  <2>7. PICK e : e = ForgetBack(d, p)
    OBVIOUS
  <2>8. Consistent(e) /\ Evicted(d, e) /\ \A m \in Lists \ {p} : e.lists[m] = d.lists[m]
    <3> HIDE DEF p
    <3> QED
      BY <1>0, <2>6, <2>7, ForgetKeeps
  <2>9. Rounds(e) < Rounds(d)
    BY <2>6, <2>7, ForgetShortens
  <2>10. Evicted(c, e) /\ Same(e)
    BY <2>8, EvictedMore
  <2>11. e \in States
    BY <2>8, <2>10 DEF Consistent
  <2> QED
    BY <2>7, <2>9, <2>11
<1> HIDE DEF p
<1>4. \A d \in States : round[d] \in States
  BY <1>3
<1>5. /\ \A d \in Going : measure[round[d]] < measure[d]
      /\ \A d \in States \ Going : round[d] = d
  BY <1>3
<1>6. PICK run : /\ run = [i \in 0 .. bound |-> run[i]]
                 /\ \A i \in 0 .. bound : run[i] \in States
                 /\ run[0] = c
                 /\ \A i \in 1 .. bound : run[i] = round[run[i - 1]]
  <2> HIDE DEF round, bound, States
  <2>1. PICK run : IsRun(run, round, c, States, bound)
    BY <1>1, <1>2, <1>4, RunExists
  <2> QED
    BY <2>1, Zenon DEF IsRun
<1>7. run = [n \in 0 .. bound |-> IF n = 0 THEN c ELSE
               IF Goes(run[n - 1]) THEN ForgetBack(run[n - 1], p) ELSE run[n - 1]]
  <2>1. ASSUME NEW n \in 1 .. bound
        PROVE  run[n] = IF Goes(run[n - 1]) THEN ForgetBack(run[n - 1], p)
                        ELSE run[n - 1]
    <3> HIDE DEF Goes, bound, States
    <3>1. n - 1 \in 0 .. bound
      BY <1>1
    <3>2. run[n - 1] \in States
      BY <1>6, <3>1
    <3> QED
      BY <1>6, <3>2
  <2>2. \A n \in 0 .. bound : n = 0 \/ n \in 1 .. bound
    BY <1>1
  <2> HIDE DEF Goes, bound, States, round
  <2>3. \A n \in 0 .. bound : run[n] = IF n = 0 THEN c ELSE
          IF Goes(run[n - 1]) THEN ForgetBack(run[n - 1], p) ELSE run[n - 1]
    BY <1>6, <2>1, <2>2
  <2> QED
    BY <1>6, <2>3, Zenon
<1> HIDE DEF States
<1>8. PICK f : /\ f = [n \in 0 .. bound |-> IF n = 0 THEN c ELSE
                        IF Goes(f[n - 1]) THEN ForgetBack(f[n - 1], p) ELSE f[n - 1]]
               /\ TrimPhantom(c, l) = f[bound]
  BY <1>7, Zenon DEF TrimPhantom, While, Round, p
<1>9. f[0] = c /\ \A n \in 1 .. bound :
        f[n - 1] \in States => f[n] = round[f[n - 1]]
  <2>1. 0 \in 0 .. bound /\ \A n \in 1 .. bound : n \in 0 .. bound /\ n # 0
    BY <1>1
  <2>2. \A n \in 0 .. bound : f[n] = IF n = 0 THEN c ELSE
          IF Goes(f[n - 1]) THEN ForgetBack(f[n - 1], p) ELSE f[n - 1]
    <3> HIDE DEF Goes, bound, round
    <3> QED
      BY <1>8, Zenon
  <2> HIDE DEF Goes, bound
  <2> QED
    BY <2>1, <2>2
<1>10. f[bound] \in States \ Going
  <2>1. Going \in SUBSET States
    OBVIOUS
  <2>3. \A x \in States : measure[x] \in Nat
    BY <1>1
  <2> HIDE DEF round, bound, Going, measure
  <2>2. measure[f[0]] <= bound /\ f[0] \in States
    BY <1>1, <1>2, <1>9
  <2> QED
    BY <1>1, <1>4, <1>5, <1>9, <2>1, <2>2, <2>3, RunEnds
<1>11. PICK d \in Structures : d = f[bound] /\ Consistent(d) /\ Evicted(c, d) /\ Same(d)
                               /\ ~Goes(d)
  <2> HIDE DEF bound
  <2> QED
    BY <1>10 DEF States
<1>12. PICK held \in Nat, known \in Nat :
         held = d.lists[l].size /\ known = d.lists[p].size
  BY <1>0, StructureTyped
<1>13. d.lists[l].size + d.lists[p].size <= MaxSize
  <2>1. ~(held + known > MaxSize)
    BY <1>11, <1>12
  <2>2. held + known <= MaxSize
    BY <2>1, ArcAssumption
  <2> QED
    BY <1>12, <2>2
<1> HIDE DEF bound
<1> QED
  BY <1>8, <1>11, <1>13 DEF p

Fits(c) == InMemory(c) <= MaxSize /\ InMemory(c) + Remembered(c) <= 2 * MaxSize

LEMMA SizesTyped ==
    ASSUME NEW c \in Structures
    PROVE  /\ c.lists["hit_once"].size \in Nat /\ c.lists["more_than_once"].size \in Nat
           /\ c.lists["hit_once_phantom"].size \in Nat
           /\ c.lists["more_than_once_phantom"].size \in Nat
<1>1. \A m \in Lists : c.lists[m].size \in Nat
  BY StructureTyped
<1> QED
  BY <1>1, ListNames

LEMMA OverflowEvicted ==
    ASSUME NEW c, Consistent(c)
    PROVE  LET d == EvictMemoryOverflow(c)
           IN  Consistent(d) /\ Evicted(c, d) /\ Fits(d)
<1>1. PICK d : d = EvictResident(c)
  OBVIOUS
<1>2. Consistent(d) /\ Evicted(c, d) /\ InMemory(d) <= MaxSize
  BY <1>1, EvictResidentEnds
<1>3. PICK t1 \in Nat, t2 \in Nat : /\ t1 = d.lists["hit_once"].size
                                    /\ t2 = d.lists["more_than_once"].size
  BY <1>2, SizesTyped DEF Consistent
<1>4. t1 + t2 <= MaxSize
  BY <1>2, <1>3 DEF InMemory
<1>5. t1 <= MaxSize /\ t2 <= MaxSize
  BY <1>4, ArcAssumption
<1>6. PICK e : e = TrimPhantom(d, "hit_once")
  OBVIOUS
<1>7. /\ Consistent(e) /\ Evicted(d, e)
      /\ \A m \in Lists \ {"hit_once_phantom"} : e.lists[m] = d.lists[m]
      /\ e.lists["hit_once"].size + e.lists["hit_once_phantom"].size <= MaxSize
  <2>1. "hit_once" \in Resident /\ d.lists["hit_once"].size <= MaxSize
    BY <1>3, <1>5, ListNames
  <2> QED
    BY <1>2, <1>6, <2>1, TrimPhantomEnds, ListNames
<1>8. e.lists["hit_once"].size = t1 /\ e.lists["more_than_once"].size = t2
  BY <1>3, <1>7, ListNames
<1>9. PICK f : f = TrimPhantom(e, "more_than_once")
  OBVIOUS
<1>10. /\ Consistent(f) /\ Evicted(e, f)
       /\ \A m \in Lists \ {"more_than_once_phantom"} : f.lists[m] = e.lists[m]
       /\ f.lists["more_than_once"].size + f.lists["more_than_once_phantom"].size <= MaxSize
  <2>1. "more_than_once" \in Resident /\ e.lists["more_than_once"].size <= MaxSize
    BY <1>5, <1>8, ListNames
  <2> QED
    BY <1>7, <1>9, <2>1, TrimPhantomEnds, ListNames
<1>11. PICK b1 \in Nat, b2 \in Nat : /\ b1 = f.lists["hit_once_phantom"].size
                                     /\ b2 = f.lists["more_than_once_phantom"].size
  BY <1>10, SizesTyped DEF Consistent
<1>12. /\ f.lists["hit_once"].size = t1 /\ f.lists["more_than_once"].size = t2
       /\ e.lists["hit_once_phantom"].size = b1
  BY <1>8, <1>10, <1>11, ListNames
<1>13. t1 + b1 <= MaxSize /\ t2 + b2 <= MaxSize
  BY <1>7, <1>8, <1>10, <1>11, <1>12
<1>14. t1 + t2 + (b1 + b2) <= 2 * MaxSize
  BY <1>13, ArcAssumption
<1>15. Fits(f)
  BY <1>4, <1>11, <1>12, <1>14 DEF Fits, InMemory, Remembered
<1>16. Evicted(c, e)
  BY <1>2, <1>7, EvictedMore
<1>17. Evicted(c, f)
  BY <1>10, <1>16, EvictedMore
<1> QED
  BY <1>1, <1>6, <1>9, <1>10, <1>15, <1>17 DEF EvictMemoryOverflow

-----------------------------------------------------------------------------
(* What moves an entry: it leaves where it was, and enters at the front.      *)

LEMMA WithOneList ==
    ASSUME NEW c, Consistent(c), NEW l \in Lists, NEW new, ListExact(new),
           NEW buffers, NEW phantoms, NEW entries, entries = Listed(new),
           Books([Held(c) EXCEPT ![l] = entries], buffers, phantoms)
    PROVE  Consistent(With(c, [c.lists EXCEPT ![l] = new], buffers, phantoms))
<1> DEFINE lists == [c.lists EXCEPT ![l] = new]
           held == [Held(c) EXCEPT ![l] = entries]
<1>1. c \in Structures /\ \A m \in Lists : ListExact(c.lists[m])
  BY DEF Consistent
<1>2. c.lists \in [Lists -> CacheLists] /\ new \in CacheLists
  BY <1>1 DEF Structures, ListExact
<1>3. /\ lists \in [Lists -> CacheLists] /\ lists[l] = new
      /\ \A m \in Lists \ {l} : lists[m] = c.lists[m]
  BY <1>2
<1>4. /\ held[l] = entries /\ \A m \in Lists \ {l} : held[m] = Listed(c.lists[m])
  BY DEF Held
<1> HIDE DEF lists, held
<1>5. \A m \in Lists : Listed(lists[m]) = held[m]
  BY <1>3, <1>4
<1>6. \A m \in Lists : ListExact(lists[m])
  BY <1>1, <1>3
<1>7. Books(held, buffers, phantoms)
  BY DEF held
<1> QED
  BY <1>1, <1>3, <1>5, <1>6, <1>7, WithConsistent DEF lists

LEMMA EntryOfBuffer ==
    ASSUME NEW c, Consistent(c), NEW key \in DOMAIN c.buffers
    PROVE  \E l \in Resident, size \in Nat :
             /\ l \in Lists /\ key \in EntryKeys
             /\ c.buffers[key] = [size |-> size, list |-> l]
             /\ Entry(key, size) \in Listed(c.lists[l])
             /\ Entry(key, size) \in Held(c)[l]
             /\ Entry(key, size).key = key /\ Entry(key, size).size = size
<1>1. Books(Held(c), c.buffers, c.phantoms)
  BY DEF Consistent
<1>2. c.buffers[key] \in Buffers /\ key \in EntryKeys
  BY <1>1, PartialTyped DEF Books
<1>3. PICK l \in Resident, size \in Nat : c.buffers[key] = [size |-> size, list |-> l]
  BY <1>2 DEF Buffers
<1>4. Entry(key, size) \in Held(c)[l]
  <2>1. Entry(key, c.buffers[key].size) \in Held(c)[c.buffers[key].list]
    BY <1>1 DEF Books
  <2>2. c.buffers[key].size = size /\ c.buffers[key].list = l
    BY <1>3
  <2> QED
    BY <2>1, <2>2
<1>5. l \in Lists /\ Held(c)[l] = Listed(c.lists[l])
  BY DEF Held, Lists
<1>6. Entry(key, size).key = key /\ Entry(key, size).size = size
  BY DEF Entry
<1> QED
  BY <1>2, <1>3, <1>4, <1>5, <1>6

LEMMA BufferNames ==
    ASSUME NEW c, Consistent(c), NEW key \in DOMAIN c.buffers
    PROVE  \E r \in Resident, n \in Nat :
             c.buffers[key] = [size |-> n, list |-> r] /\ r \in Lists /\ key \in EntryKeys
<1>1. Books(Held(c), c.buffers, c.phantoms)
  BY DEF Consistent
<1>2. c.buffers[key] \in Buffers /\ key \in EntryKeys
  BY <1>1, PartialTyped DEF Books
<1>3. PICK l \in Resident, size \in Nat : c.buffers[key] = [size |-> size, list |-> l]
  BY <1>2 DEF Buffers
<1>4. l \in Lists
  BY DEF Lists
<1> QED
  BY <1>2, <1>3, <1>4

(* A buffer leaves its list and its map.                                      *)
LEMMA BufferLeaves ==
    ASSUME NEW c, Consistent(c), NEW key \in DOMAIN c.buffers, NEW any
    PROVE  LET l == c.buffers[key].list
               new == Leave(c.lists[l], key, any)
           IN  /\ Consistent(With(c, [c.lists EXCEPT ![l] = new],
                                  Drop(c.buffers, key), c.phantoms))
               /\ new.size = c.lists[l].size - c.buffers[key].size /\ new.size \in Nat
               /\ c.lists[l].list[Position(c.lists[l], key)].size = c.buffers[key].size
<1>1. PICK l \in Resident, size \in Nat :
        /\ l \in Lists /\ key \in EntryKeys
        /\ c.buffers[key] = [size |-> size, list |-> l]
        /\ Entry(key, size) \in Listed(c.lists[l])
        /\ Entry(key, size) \in Held(c)[l]
        /\ Entry(key, size).key = key /\ Entry(key, size).size = size
  BY EntryOfBuffer
<1>2. PICK list : list = c.lists[l]
  OBVIOUS
<1>3. PICK x \in Listed(list) : x = Entry(key, size)
  BY <1>1, <1>2
<1>4. x.key = key /\ x.size = size /\ x \in Held(c)[l]
  BY <1>1, <1>3
<1>5. ListExact(list) /\ Books(Held(c), c.buffers, c.phantoms)
  BY <1>1, <1>2 DEF Consistent
<1> DEFINE new == Leave(list, key, any)
<1>6. ListExact(new)
  BY <1>4, <1>5, LeftExact
<1>7. Listed(new) = Listed(list) \ {x}
  BY <1>4, <1>5, LeftListed
<1>8. new.size = list.size - x.size /\ list.list[Position(list, key)] = x
  BY <1>4, <1>5, LeftExact
<1> HIDE DEF new
<1>9. Books([Held(c) EXCEPT ![l] = Held(c)[l] \ {x}], Drop(c.buffers, key), c.phantoms)
  BY <1>4, <1>5, BufferGone
<1>10. Listed(new) = Held(c)[l] \ {x}
  BY <1>1, <1>2, <1>7 DEF Held
<1>11. Consistent(With(c, [c.lists EXCEPT ![l] = new], Drop(c.buffers, key), c.phantoms))
  BY <1>1, <1>6, <1>9, <1>10, WithOneList
<1>12. new.size \in Nat
  BY <1>6 DEF ListExact, CacheLists
<1>13. c.buffers[key].list = l /\ c.buffers[key].size = size
  BY <1>1
<1> QED
  BY <1>2, <1>4, <1>8, <1>11, <1>12, <1>13 DEF new

(* What was remembered of a key leaves its list and its map.                  *)
LEMMA PhantomLeaves ==
    ASSUME NEW c, Consistent(c), NEW key \in DOMAIN c.phantoms, NEW any
    PROVE  LET l == c.phantoms[key]
           IN  /\ l \in Phantom /\ key \in EntryKeys
               /\ Consistent(With(c, [c.lists EXCEPT ![l] = Leave(c.lists[l], key, any)],
                                  c.buffers, Drop(c.phantoms, key)))
<1>1. Books(Held(c), c.buffers, c.phantoms) /\ \A m \in Lists : ListExact(c.lists[m])
  BY DEF Consistent
<1>2. PICK l : l = c.phantoms[key]
  OBVIOUS
<1>3. l \in Phantom /\ key \in EntryKeys
  BY <1>1, <1>2, PartialTyped DEF Books
<1>4. l \in Lists
  BY <1>3 DEF Lists
<1>5. PICK list : list = c.lists[l]
  OBVIOUS
<1>6. Held(c)[l] = Listed(list)
  BY <1>4, <1>5 DEF Held
<1>7. PICK x \in Listed(list) : x.key = key
  BY <1>1, <1>2, <1>6 DEF Books
<1>8. ListExact(list) /\ x \in Held(c)[l]
  BY <1>1, <1>4, <1>5, <1>6
<1> DEFINE new == Leave(list, key, any)
<1>9. ListExact(new)
  BY <1>7, <1>8, LeftExact
<1>10. Listed(new) = Listed(list) \ {x}
  BY <1>7, <1>8, LeftListed
<1> HIDE DEF new
<1>11. Books([Held(c) EXCEPT ![l] = Held(c)[l] \ {x}], c.buffers, Drop(c.phantoms, key))
  BY <1>1, <1>3, <1>7, <1>8, PhantomGone
<1>12. Consistent(With(c, [c.lists EXCEPT ![l] = new], c.buffers, Drop(c.phantoms, key)))
  BY <1>4, <1>6, <1>9, <1>10, <1>11, WithOneList
<1> QED
  BY <1>2, <1>3, <1>5, <1>12 DEF new

(* A buffer enters under a key that is in no map.                             *)
LEMMA BufferEnters ==
    ASSUME NEW c, Consistent(c), NEW to \in Resident, NEW key \in EntryKeys,
           NEW size \in Nat, key \notin DOMAIN c.buffers, key \notin DOMAIN c.phantoms
    PROVE  /\ Consistent(With(c, [c.lists EXCEPT ![to] = PushFront(c.lists[to], key, size)],
                              NowIn(c.buffers, key, size, to), c.phantoms))
<1>1. to \in Lists /\ Books(Held(c), c.buffers, c.phantoms)
      /\ \A m \in Lists : ListExact(c.lists[m])
  BY DEF Consistent, Lists
<1>2. PICK list : list = c.lists[to]
  OBVIOUS
<1>3. key \notin KeysIn(list) /\ ListExact(list)
  BY <1>1, <1>2, UnknownUnlisted
<1> DEFINE new == PushFront(list, key, size)
<1>4. ListExact(new)
  BY <1>3, PushedExact
<1>5. Listed(new) = Listed(list) \union {Entry(key, size)}
  BY <1>3, PushedExact
<1> HIDE DEF new
<1>6. Listed(new) = Held(c)[to] \union {Entry(key, size)}
  BY <1>1, <1>2, <1>5 DEF Held
<1>7. Books([Held(c) EXCEPT ![to] = Held(c)[to] \union {Entry(key, size)}],
            NowIn(c.buffers, key, size, to), c.phantoms)
  BY <1>1, BufferKept DEF NowIn
<1>8. Consistent(With(c, [c.lists EXCEPT ![to] = new],
                      NowIn(c.buffers, key, size, to), c.phantoms))
  BY <1>1, <1>4, <1>6, <1>7, WithOneList
<1> QED
  BY <1>2, <1>8 DEF new

LEMMA PutShape ==
    ASSUME NEW lists \in [Lists -> CacheLists], NEW from \in Lists, NEW to \in Lists,
           NEW key, NEW size
    PROVE  LET left == [lists EXCEPT ![from] = Leave(lists[from], key, size)]
           IN  UnsafePutEntryIntoList(lists, key, size, {from}, to)
                 = [left EXCEPT ![to] = PushFront(left[to], key, size)]
<1> DEFINE left == [lists EXCEPT ![from] = Leave(lists[from], key, size)]
<1>1. [l \in Lists |-> IF l \in {from} THEN Leave(lists[l], key, size) ELSE lists[l]] = left
  OBVIOUS
<1> HIDE DEF left
<1> QED
  BY <1>1 DEF UnsafePutEntryIntoList, left

LEMMA WithAgain ==
    ASSUME NEW c, NEW la, NEW b1, NEW p1, NEW lb, NEW b2, NEW p2
    PROVE  With(With(c, la, b1, p1), lb, b2, p2) = With(c, lb, b2, p2)
  BY DEF With

LEMMA BoundAgain ==
    ASSUME NEW f, NEW key, NEW v
    PROVE  Bind(Drop(f, key), key, v) = Bind(f, key, v)
<1>1. DOMAIN Drop(f, key) \union {key} = DOMAIN f \union {key}
  BY DEF Drop
<1>2. \A k \in DOMAIN f \union {key} : k # key => Drop(f, key)[k] = f[k]
  BY DEF Drop
<1> QED
  BY <1>1, <1>2 DEF Bind

-----------------------------------------------------------------------------
(* The operations.                                                            *)

LEMMA RemoveKeeps ==
    ASSUME NEW c, Consistent(c), Fits(c), NEW key \in DOMAIN c.buffers
    PROVE  LET d == AfterRemove(c, key)
           IN  Consistent(d) /\ Fits(d) /\ d.buffers = Drop(c.buffers, key)
<1>1. PICK e, l, list : e = c.buffers[key] /\ l = e.list /\ list = c.lists[l]
  OBVIOUS
<1>2. PICK new : new = Leave(list, key, e.size)
  OBVIOUS
<1> DEFINE d == With(c, [c.lists EXCEPT ![l] = new], Drop(c.buffers, key), c.phantoms)
<1>3. /\ Consistent(d) /\ new.size = list.size - e.size /\ new.size \in Nat
      /\ list.list[Position(list, key)].size = e.size
  BY <1>1, <1>2, BufferLeaves
<1>4. new = [size |-> list.size - e.size, list |-> new.list]
  BY <1>2, <1>3 DEF Leave
<1>5. AfterRemove(c, key) = d
  BY <1>1, <1>2, <1>4 DEF AfterRemove
<1>6. d.lists = [c.lists EXCEPT ![l] = new] /\ d.buffers = Drop(c.buffers, key)
  BY WithFields
<1> HIDE DEF d
<1>7. c \in Structures /\ c.lists \in [Lists -> CacheLists]
  BY DEF Consistent, Structures
<1>8. l \in Resident /\ e.size \in Nat
  <2>1. PICK r \in Resident, n \in Nat :
          c.buffers[key] = [size |-> n, list |-> r] /\ r \in Lists /\ key \in EntryKeys
    BY BufferNames
  <2> QED
    BY <1>1, <2>1
<1>9. PICK t1 \in Nat, t2 \in Nat, b1 \in Nat, b2 \in Nat :
        /\ t1 = c.lists["hit_once"].size /\ t2 = c.lists["more_than_once"].size
        /\ b1 = c.lists["hit_once_phantom"].size
        /\ b2 = c.lists["more_than_once_phantom"].size
  BY <1>7, SizesTyped
<1>10. PICK s \in Nat, n \in Nat : s = e.size /\ n = new.size
  BY <1>3, <1>8
<1>11. t1 + t2 <= MaxSize /\ t1 + t2 + (b1 + b2) <= 2 * MaxSize
  BY <1>9 DEF Fits, InMemory, Remembered
<1>12. /\ d.lists["hit_once_phantom"].size = b1
       /\ d.lists["more_than_once_phantom"].size = b2
  BY <1>6, <1>7, <1>8, <1>9, ListNames
<1>13. Fits(d)
  <2>1. CASE l = "hit_once"
    <3>1. d.lists["hit_once"].size = n /\ d.lists["more_than_once"].size = t2
      BY <1>6, <1>7, <1>9, <1>10, <2>1, ListNames
    <3>2. n = t1 - s
      BY <1>1, <1>3, <1>9, <1>10, <2>1
    <3>3. n + t2 <= MaxSize /\ n + t2 + (b1 + b2) <= 2 * MaxSize
      BY <1>11, <3>2, ArcAssumption
    <3> QED
      BY <1>12, <3>1, <3>3 DEF Fits, InMemory, Remembered
  <2>2. CASE l = "more_than_once"
    <3>1. d.lists["hit_once"].size = t1 /\ d.lists["more_than_once"].size = n
      BY <1>6, <1>7, <1>9, <1>10, <2>2, ListNames
    <3>2. n = t2 - s
      BY <1>1, <1>3, <1>9, <1>10, <2>2
    <3>3. t1 + n <= MaxSize /\ t1 + n + (b1 + b2) <= 2 * MaxSize
      BY <1>11, <3>2, ArcAssumption
    <3> QED
      BY <1>12, <3>1, <3>3 DEF Fits, InMemory, Remembered
  <2> QED
    BY <1>8, <2>1, <2>2, ListNames
<1> QED
  BY <1>3, <1>5, <1>6, <1>13

LEMMA GetKeeps ==
    ASSUME NEW c, Consistent(c), Fits(c), NEW key \in DOMAIN c.buffers
    PROVE  LET d == AfterGet(c, key)
           IN  /\ Consistent(d) /\ Fits(d)
               /\ DOMAIN d.buffers = DOMAIN c.buffers
               /\ \A k \in DOMAIN c.buffers : d.buffers[k].size = c.buffers[k].size
<1>1. PICK e, l, list : e = c.buffers[key] /\ l = e.list /\ list = c.lists[l]
  OBVIOUS
<1>2. PICK size, new : size = e.size /\ new = Leave(list, key, size)
  OBVIOUS
<1>3. PICK more : more = "more_than_once"
  OBVIOUS
<1> DEFINE left == [c.lists EXCEPT ![l] = new]
           b == With(c, left, Drop(c.buffers, key), c.phantoms)
           lists == [left EXCEPT ![more] = PushFront(left[more], key, size)]
           buffers == NowIn(c.buffers, key, size, more)
           d == With(c, lists, buffers, c.phantoms)
<1>4. Consistent(b) /\ new.size = list.size - size /\ new.size \in Nat
  BY <1>1, <1>2, BufferLeaves
<1>5. /\ c \in Structures /\ c.lists \in [Lists -> CacheLists]
      /\ Books(Held(c), c.buffers, c.phantoms)
  BY DEF Consistent, Structures
<1>6. l \in Resident /\ l \in Lists /\ size \in Nat /\ key \in EntryKeys
  <2>1. PICK r \in Resident, n \in Nat :
          c.buffers[key] = [size |-> n, list |-> r] /\ r \in Lists /\ key \in EntryKeys
    BY BufferNames
  <2> QED
    BY <1>1, <1>2, <2>1
<1>7. more \in Resident /\ more \in Lists
  BY <1>3, ListNames DEF Lists
<1>8. UnsafePutEntryIntoList(c.lists, key, size, {l}, more) = lists
  BY <1>1, <1>2, <1>5, <1>6, <1>7, PutShape
<1>9. AfterGet(c, key) = d
  BY <1>1, <1>2, <1>3, <1>8 DEF AfterGet
<1>10. /\ b.lists = left /\ b.buffers = Drop(c.buffers, key) /\ b.phantoms = c.phantoms
  BY WithFields
<1>11. key \notin DOMAIN b.buffers /\ key \notin DOMAIN b.phantoms
  <2>1. key \notin DOMAIN c.phantoms
    BY <1>5 DEF Books
  <2> QED
    BY <1>10, <2>1 DEF Drop
<1>12. NowIn(b.buffers, key, size, more) = buffers
  BY <1>10, BoundAgain DEF NowIn
<1>13. Consistent(With(b, [b.lists EXCEPT ![more] = PushFront(b.lists[more], key, size)],
                       NowIn(b.buffers, key, size, more), b.phantoms))
  <2> HIDE DEF b
  <2> QED
    BY <1>4, <1>6, <1>7, <1>11, BufferEnters
<1>14. With(b, lists, buffers, c.phantoms) = d
  BY WithAgain
<1>15. Consistent(d)
  BY <1>10, <1>12, <1>13, <1>14
<1>16. d.lists = lists /\ d.buffers = buffers
  BY WithFields
<1>17. DOMAIN buffers = DOMAIN c.buffers
       /\ \A k \in DOMAIN c.buffers : buffers[k].size = c.buffers[k].size
  BY <1>1, <1>2 DEF NowIn, Bind
<1> HIDE DEF d, b, buffers
<1>18. PICK t1 \in Nat, t2 \in Nat, b1 \in Nat, b2 \in Nat :
        /\ t1 = c.lists["hit_once"].size /\ t2 = c.lists["more_than_once"].size
        /\ b1 = c.lists["hit_once_phantom"].size
        /\ b2 = c.lists["more_than_once_phantom"].size
  BY <1>5, SizesTyped
<1>19. t1 + t2 <= MaxSize /\ t1 + t2 + (b1 + b2) <= 2 * MaxSize
  BY <1>18 DEF Fits, InMemory, Remembered
<1>20. PICK f : f = PushFront(left[more], key, size)
  OBVIOUS
<1>21. f.size = left[more].size + size
  BY <1>20 DEF PushFront
<1>22. /\ d.lists["hit_once_phantom"].size = b1
       /\ d.lists["more_than_once_phantom"].size = b2
  BY <1>3, <1>5, <1>6, <1>16, <1>18, ListNames
<1>23. PICK n \in Nat : n = new.size
  BY <1>4
<1>24. Fits(d)
  <2>1. CASE l = "hit_once"
    <3>1. left[more].size = t2 /\ left["hit_once"].size = n
      BY <1>3, <1>5, <1>6, <1>7, <1>18, <1>23, <2>1
    <3>2. d.lists["hit_once"].size = n /\ d.lists["more_than_once"].size = t2 + size
      BY <1>3, <1>5, <1>7, <1>16, <1>20, <1>21, <2>1, <3>1, ListNames
    <3>3. n = t1 - size
      BY <1>1, <1>4, <1>18, <1>23, <2>1
    <3>4. n + (t2 + size) = t1 + t2
      BY <1>6, <3>3
    <3> QED
      BY <1>19, <1>22, <3>2, <3>4 DEF Fits, InMemory, Remembered
  <2>2. CASE l = "more_than_once"
    <3>1. left[more].size = n /\ left["hit_once"].size = t1
      BY <1>3, <1>5, <1>6, <1>7, <1>18, <1>23, <2>2, ListNames
    <3>2. d.lists["hit_once"].size = t1 /\ d.lists["more_than_once"].size = n + size
      BY <1>3, <1>5, <1>7, <1>16, <1>20, <1>21, <2>2, <3>1, ListNames
    <3>3. n = t2 - size
      BY <1>1, <1>4, <1>18, <1>23, <2>2
    <3>4. t1 + (n + size) = t1 + t2
      BY <1>6, <3>3
    <3> QED
      BY <1>19, <1>22, <3>2, <3>4 DEF Fits, InMemory, Remembered
  <2> QED
    BY <1>6, <2>1, <2>2, ListNames
<1> QED
  BY <1>9, <1>15, <1>16, <1>17, <1>24

(* What Put leaves: the key it was given, with its size, if it is still       *)
(* there, and what was there before and has not been evicted.                 *)
Given(c, d, key, size) ==
    \A k \in DOMAIN d.buffers :
      IF k = key THEN d.buffers[k].size = size
      ELSE k \in DOMAIN c.buffers /\ d.buffers[k].size = c.buffers[k].size

LEMMA GivenEvicted ==
    ASSUME NEW c, NEW d, NEW e, NEW key, NEW size,
           Given(c, d, key, size), Evicted(d, e)
    PROVE  Given(c, e, key, size)
  BY DEF Given, Evicted

LEMMA EvictedGiven ==
    ASSUME NEW c, NEW d, NEW e, NEW key, NEW size,
           Evicted(c, d), Given(d, e, key, size)
    PROVE  Given(c, e, key, size)
  BY DEF Given, Evicted

LEMMA EntersGiven ==
    ASSUME NEW c, NEW d, NEW key, NEW size, NEW to,
           d.buffers = NowIn(c.buffers, key, size, to)
    PROVE  Given(c, d, key, size)
<1>4. [size |-> size, list |-> to].size = size
  OBVIOUS
<1>1. PICK v : v = [size |-> size, list |-> to] /\ v.size = size
  BY <1>4
<1>2. d.buffers = Bind(c.buffers, key, v)
  BY <1>1 DEF NowIn
<1>3. /\ d.buffers[key] = v
      /\ \A k \in DOMAIN d.buffers : k # key =>
           k \in DOMAIN c.buffers /\ d.buffers[k] = c.buffers[k]
  BY <1>2 DEF Bind
<1> QED
  BY <1>1, <1>3 DEF Given

LEMMA OverwriteKeeps ==
    ASSUME NEW c, Consistent(c), Fits(c), NEW key \in DOMAIN c.buffers, NEW size \in Nat
    PROVE  LET d == UnsafeOverwrite(c, key, size)
           IN  Consistent(d) /\ Fits(d) /\ Given(c, d, key, size)
<1>1. PICK l \in Resident, was \in Nat :
        /\ l \in Lists /\ key \in EntryKeys
        /\ c.buffers[key] = [size |-> was, list |-> l]
        /\ Entry(key, was) \in Listed(c.lists[l])
        /\ Entry(key, was) \in Held(c)[l]
        /\ Entry(key, was).key = key /\ Entry(key, was).size = was
  BY EntryOfBuffer
<1>2. PICK list : list = c.lists[l]
  OBVIOUS
<1>3. PICK x \in Listed(list) : x = Entry(key, was)
  BY <1>1, <1>2
<1>4. x.key = key /\ x.size = was /\ x \in Held(c)[l]
  BY <1>1, <1>3
<1>5. ListExact(list) /\ Books(Held(c), c.buffers, c.phantoms)
      /\ c \in Structures /\ c.lists \in [Lists -> CacheLists]
  BY <1>1, <1>2 DEF Consistent, Structures
<1> DEFINE at == Position(list, key)
           new == [size |-> list.size - list.list[at].size + size,
                   list |-> SeqOps!ReplaceAt(list.list, at, Entry(key, size))]
           buffers == [c.buffers EXCEPT ![key].size = size]
           over == With(c, [c.lists EXCEPT ![l] = new], buffers, c.phantoms)
<1>6. list.list[at] = x /\ new.size = list.size - was + size
  BY <1>4, <1>5, ReplacedExact
<1>7. ListExact(new)
  BY <1>4, <1>5, ReplacedExact
<1>8. Listed(new) = (Listed(list) \ {x}) \union {Entry(key, size)}
  BY <1>4, <1>5, ReplacedExact
<1>9. UnsafeOverwrite(c, key, size) = IF size > was THEN EvictMemoryOverflow(over) ELSE over
  <2>1. c.buffers[key].list = l
    BY <1>1
  <2>2. list.list[at].size = was
    BY <1>4, <1>6
  <2> QED
    BY <1>2, <2>1, <2>2 DEF UnsafeOverwrite, NewBuffer
<1> HIDE DEF new
<1>10. buffers = Bind(Drop(c.buffers, key), key, [size |-> size, list |-> l])
  <2>1. PICK b \in Buffers : b = c.buffers[key]
    BY <1>5, PartialTyped DEF Books
  <2>2. [b EXCEPT !.size = size] = [size |-> size, list |-> l]
    BY <1>1, <2>1 DEF Buffers
  <2>3. PICK v : v = [size |-> size, list |-> l]
    OBVIOUS
  <2>8. c.buffers \in Partial(Buffers)
    BY <1>5 DEF Books
  <2>4. PICK D \in SUBSET EntryKeys : c.buffers \in [D -> Buffers]
    BY <2>8 DEF Partial
  <2>5. buffers = [c.buffers EXCEPT ![key] = [b EXCEPT !.size = size]]
    BY <2>1
  <2>6. buffers = [c.buffers EXCEPT ![key] = v]
    BY <2>2, <2>3, <2>5
  <2>7. [c.buffers EXCEPT ![key] = v] = Bind(c.buffers, key, v)
    <3>1. DOMAIN c.buffers \union {key} = DOMAIN c.buffers
      OBVIOUS
    <3> QED
      BY <2>4, <3>1 DEF Bind
  <2> QED
    BY <2>3, <2>6, <2>7, BoundAgain
<1> DEFINE gone == [Held(c) EXCEPT ![l] = Held(c)[l] \ {x}]
<1>11. Books(gone, Drop(c.buffers, key), c.phantoms)
  BY <1>4, <1>5, BufferGone
<1>12. key \notin DOMAIN Drop(c.buffers, key) /\ key \notin DOMAIN c.phantoms
  <2>1. key \notin DOMAIN c.phantoms
    BY <1>5 DEF Books
  <2> QED
    BY <2>1 DEF Drop
<1> HIDE DEF buffers
<1>13. Books([gone EXCEPT ![l] = gone[l] \union {Entry(key, size)}], buffers, c.phantoms)
  <2> HIDE DEF gone
  <2> QED
    BY <1>1, <1>10, <1>11, <1>12, BufferKept
<1>14. [gone EXCEPT ![l] = gone[l] \union {Entry(key, size)}]
         = [Held(c) EXCEPT ![l] = (Held(c)[l] \ {x}) \union {Entry(key, size)}]
  <2>1. Held(c) \in [Lists -> SUBSET EntryTypes]
    BY <1>5 DEF Books
  <2>2. PICK held : held = Held(c)
    OBVIOUS
  <2> QED
    BY <1>1, <2>1, <2>2
<1>15. Listed(new) = (Held(c)[l] \ {x}) \union {Entry(key, size)}
  BY <1>1, <1>2, <1>8 DEF Held
<1>16. Consistent(over)
  <2>1. PICK entries : entries = (Held(c)[l] \ {x}) \union {Entry(key, size)}
    OBVIOUS
  <2>2. Books([Held(c) EXCEPT ![l] = entries], buffers, c.phantoms)
    BY <1>13, <1>14, <2>1
  <2> QED
    BY <1>1, <1>7, <1>15, <2>1, <2>2, WithOneList
<1>17. over.buffers = buffers /\ over.lists = [c.lists EXCEPT ![l] = new]
  BY WithFields
<1> HIDE DEF over
<1>18. Given(c, over, key, size)
  BY <1>10, <1>17, BoundAgain, EntersGiven DEF NowIn
<1>19. CASE size > was
  <2>1. UnsafeOverwrite(c, key, size) = EvictMemoryOverflow(over)
    BY <1>9, <1>19
  <2>2. /\ Consistent(EvictMemoryOverflow(over)) /\ Fits(EvictMemoryOverflow(over))
        /\ Evicted(over, EvictMemoryOverflow(over))
    BY <1>16, OverflowEvicted
  <2> QED
    BY <1>18, <2>1, <2>2, GivenEvicted
<1>20. CASE ~(size > was)
  <2>1. PICK t1 \in Nat, t2 \in Nat, b1 \in Nat, b2 \in Nat :
          /\ t1 = c.lists["hit_once"].size /\ t2 = c.lists["more_than_once"].size
          /\ b1 = c.lists["hit_once_phantom"].size
          /\ b2 = c.lists["more_than_once_phantom"].size
    BY <1>5, SizesTyped
  <2>2. t1 + t2 <= MaxSize /\ t1 + t2 + (b1 + b2) <= 2 * MaxSize
    BY <2>1 DEF Fits, InMemory, Remembered
  <2>3. /\ over.lists["hit_once_phantom"].size = b1
        /\ over.lists["more_than_once_phantom"].size = b2
    BY <1>1, <1>5, <1>17, <2>1, ListNames
  <2>4. PICK n \in Nat : n = new.size
    BY <1>7 DEF ListExact, CacheLists
  <2>5. Fits(over)
    <3>1. CASE l = "hit_once"
      <4>1. over.lists["hit_once"].size = n /\ over.lists["more_than_once"].size = t2
        BY <1>1, <1>5, <1>17, <2>1, <2>4, <3>1, ListNames
      <4>2. n = t1 - was + size
        BY <1>2, <1>6, <2>1, <2>4, <3>1
      <4>3. n + t2 <= MaxSize /\ n + t2 + (b1 + b2) <= 2 * MaxSize
        BY <1>20, <2>2, <4>2, ArcAssumption
      <4> QED
        BY <2>3, <4>1, <4>3 DEF Fits, InMemory, Remembered
    <3>2. CASE l = "more_than_once"
      <4>1. over.lists["hit_once"].size = t1 /\ over.lists["more_than_once"].size = n
        BY <1>1, <1>5, <1>17, <2>1, <2>4, <3>2, ListNames
      <4>2. n = t2 - was + size
        BY <1>2, <1>6, <2>1, <2>4, <3>2
      <4>3. t1 + n <= MaxSize /\ t1 + n + (b1 + b2) <= 2 * MaxSize
        BY <1>20, <2>2, <4>2, ArcAssumption
      <4> QED
        BY <2>3, <4>1, <4>3 DEF Fits, InMemory, Remembered
    <3> QED
      BY <3>1, <3>2, ListNames
  <2>6. UnsafeOverwrite(c, key, size) = over
    BY <1>9, <1>20
  <2> QED
    BY <1>16, <1>18, <2>5, <2>6
<1> QED
  BY <1>19, <1>20

LEMMA RoomMade ==
    ASSUME NEW c, Consistent(c), NEW size \in Nat
    PROVE  LET d == MakeRoomInMore(MakeRoomInOnce(c, size))
           IN  Consistent(d) /\ Evicted(c, d)
<1>1. PICK r : r = MakeRoomInOnce(c, size)
  OBVIOUS
<1>2. Consistent(r.c) /\ Evicted(c, r.c) /\ r.desired \in Nat
  <2>1. PICK q, u : /\ q = UnsafeTryEvict(c, "hit_once_phantom", size)
                    /\ u = UnsafeTryEvict(q.c, "hit_once", q.desired)
    OBVIOUS
  <2>2. "hit_once_phantom" \in Lists /\ "hit_once" \in Lists
    BY ListNames
  <2>3. Consistent(q.c) /\ Evicted(c, q.c) /\ q.desired \in Nat
    BY <2>1, <2>2, TryEvictKeeps
  <2>4. Consistent(u.c) /\ Evicted(q.c, u.c) /\ u.desired \in Nat
    BY <2>1, <2>2, <2>3, TryEvictKeeps
  <2>5. Evicted(c, u.c)
    BY <2>3, <2>4, EvictedMore
  <2>6. PICK none : none = [c |-> c, desired |-> size]
    OBVIOUS
  <2>7. none.c = c /\ none.desired = size
    BY <2>6
  <2>8. r = u \/ r = none
    BY <1>1, <2>1, <2>6 DEF MakeRoomInOnce
  <2> QED
    BY <2>4, <2>5, <2>7, <2>8, EvictedNone
<1>3. PICK d : d = MakeRoomInMore(r)
  OBVIOUS
<1>4. Consistent(d) /\ Evicted(r.c, d)
  <2>1. PICK q, u, v : /\ q = UnsafeTryEvict(r.c, "more_than_once_phantom", r.desired)
                       /\ u = UnsafeTryEvict(q.c, "more_than_once", q.desired)
                       /\ v = UnsafeAdaptiveAdjust(r.c, 1)
    OBVIOUS
  <2>2. "more_than_once_phantom" \in Lists /\ "more_than_once" \in Lists
    BY ListNames
  <2>3. Consistent(q.c) /\ Evicted(r.c, q.c) /\ q.desired \in Nat
    BY <1>2, <2>1, <2>2, TryEvictKeeps
  <2>4. Consistent(u.c) /\ Evicted(q.c, u.c) /\ u.desired \in Nat
    BY <2>1, <2>2, <2>3, TryEvictKeeps
  <2>5. Evicted(r.c, u.c)
    BY <2>3, <2>4, EvictedMore
  <2>6. Consistent(v) /\ Evicted(r.c, v)
    BY <1>2, <2>1, AdjustKeeps
  <2>7. d = r.c \/ d = u.c \/ d = v
    BY <1>3, <2>1 DEF MakeRoomInMore
  <2> QED
    BY <1>2, <2>4, <2>5, <2>6, <2>7, EvictedNone
<1>5. Evicted(c, d)
  BY <1>2, <1>4, EvictedMore
<1> QED
  BY <1>1, <1>3, <1>4, <1>5

LEMMA MissKeeps ==
    ASSUME NEW c, Consistent(c), NEW key \in EntryKeys, NEW size \in Nat,
           key \notin DOMAIN c.buffers, key \notin DOMAIN c.phantoms
    PROVE  LET d == UnsafeCacheIfMiss(c, key, size)
           IN  Consistent(d) /\ Given(c, d, key, size)
<1>1. PICK roomy : roomy = IF InMemory(c) + size > MaxSize
                             THEN MakeRoomInMore(MakeRoomInOnce(c, size)) ELSE c
  OBVIOUS
<1>2. Consistent(roomy) /\ Evicted(c, roomy)
  BY <1>1, RoomMade, EvictedNone
<1>3. key \notin DOMAIN roomy.buffers /\ key \notin DOMAIN roomy.phantoms
  BY <1>2 DEF Evicted
<1>4. PICK once : once = "hit_once" /\ once \in Resident /\ once \in Lists
  BY ListNames
<1>5. roomy.lists \in [Lists -> CacheLists]
  BY <1>2 DEF Consistent, Structures
<1> DEFINE lists == [roomy.lists EXCEPT ![once] = PushFront(roomy.lists[once], key, size)]
           buffers == NowIn(roomy.buffers, key, size, once)
           d == With(roomy, lists, buffers, roomy.phantoms)
<1>6. UnsafePutEntryIntoList(roomy.lists, key, size, {}, once) = lists
  <2>1. [m \in Lists |-> IF m \in {} THEN Leave(roomy.lists[m], key, size)
                         ELSE roomy.lists[m]] = roomy.lists
    BY <1>5
  <2> QED
    BY <2>1 DEF UnsafePutEntryIntoList
<1>7. UnsafeCacheIfMiss(c, key, size) = d
  BY <1>1, <1>4, <1>6 DEF UnsafeCacheIfMiss
<1>8. Consistent(d)
  BY <1>2, <1>3, <1>4, BufferEnters
<1>9. d.buffers = buffers
  BY WithFields
<1> HIDE DEF d
<1>10. Given(roomy, d, key, size)
  BY <1>9, EntersGiven
<1>11. Given(c, d, key, size)
  BY <1>2, <1>10, EvictedGiven
<1> QED
  BY <1>7, <1>8, <1>11

LEMMA AdaptedTyped ==
    ASSUME NEW c \in Structures, NEW index, NEW size \in Nat
    PROVE  Adapted(c, index, size) \subseteq 0 .. MaxSize
<1>1. PICK once \in Nat, more \in Nat, a \in 0 .. MaxSize :
        /\ once = c.lists["hit_once_phantom"].size
        /\ more = c.lists["more_than_once_phantom"].size
        /\ a = c.adaptive
  BY SizesTyped, StructureTyped
<1>2. ASSUME NEW larger \in Nat, NEW smaller \in Nat
      PROVE  Scaled(size, larger, smaller) \subseteq Nat
  <2>1. CASE larger <= smaller
    BY <2>1 DEF Scaled
  <2>2. CASE ~(larger <= smaller) /\ smaller = 0
    <3>1. Scaled(size, larger, smaller) = 0 .. MaxSize
      BY <2>2 DEF Scaled
    <3> QED
      BY <3>1
  <2>3. CASE ~(larger <= smaller) /\ smaller # 0
    <3>1. Scaled(size, larger, smaller) = {(size * larger) \div smaller}
      BY <2>3 DEF Scaled
    <3>2. PICK product \in Nat : product = size * larger
      OBVIOUS
    <3>3. product \div smaller \in Nat
      BY <2>3
    <3> QED
      BY <3>1, <3>2, <3>3
  <2> QED
    BY <2>1, <2>2, <2>3
<1>3. ASSUME NEW s \in Nat
      PROVE  /\ Least(a + s, MaxSize) \in 0 .. MaxSize
             /\ (IF a > s THEN a - s ELSE 0) \in 0 .. MaxSize
  <2>1. Least(a + s, MaxSize) \in 0 .. MaxSize
    <3>1. CASE a + s < MaxSize
      BY <3>1, ArcAssumption DEF Least
    <3>2. CASE ~(a + s < MaxSize)
      BY <3>2, ArcAssumption DEF Least
    <3> QED
      BY <3>1, <3>2
  <2>2. CASE a > s
    <3>1. a - s \in 0 .. MaxSize
      BY <2>2, ArcAssumption
    <3> QED
      BY <2>1, <2>2, <3>1
  <2>3. CASE ~(a > s)
    BY <2>1, <2>3, ArcAssumption
  <2> QED
    BY <2>2, <2>3
<1>4. CASE index = 1
  <2>1. Adapted(c, index, size) = {Least(a + s, MaxSize) : s \in Scaled(size, more, once)}
    BY <1>1, <1>4 DEF Adapted
  <2> QED
    BY <1>2, <1>3, <2>1
<1>5. CASE index # 1
  <2>1. Adapted(c, index, size)
          = {IF a > s THEN a - s ELSE 0 : s \in Scaled(size, once, more)}
    BY <1>1, <1>5 DEF Adapted
  <2> QED
    BY <1>2, <1>3, <2>1
<1> QED
  BY <1>4, <1>5

(* A hit in a phantom list: what was remembered becomes a buffer again.       *)
LEMMA PhantomHitKeeps ==
    ASSUME NEW c, Consistent(c), NEW size \in Nat, NEW key \in DOMAIN c.phantoms,
           NEW e \in UnsafeCacheInPhantom(c, key, size)
    PROVE  Consistent(e) /\ Given(c, e, key, size)
<1>1. PICK l : l = c.phantoms[key]
  OBVIOUS
<1>2. PICK more : more = "more_than_once" /\ more \in Resident /\ more \in Lists
  BY ListNames
<1>3. PICK a \in 0 .. MaxSize :
        LET d == UnsafeAdaptiveAdjust([c EXCEPT !.adaptive = a], Index(l))
        IN  e = With(d, UnsafePutEntryIntoList(d.lists, key, size, {l}, more),
                     NowIn(d.buffers, key, size, more), Drop(d.phantoms, key))
  <2>1. c \in Structures
    BY DEF Consistent
  <2>2. Adapted(c, Index(l), size) \subseteq 0 .. MaxSize
    BY <2>1, AdaptedTyped
  <2> QED
    BY <1>1, <1>2, <2>2 DEF UnsafeCacheInPhantom
<1>4. PICK b : b = [c EXCEPT !.adaptive = a]
  OBVIOUS
<1>5. /\ b.lists = c.lists /\ b.buffers = c.buffers /\ b.phantoms = c.phantoms
      /\ b \in Structures
  BY <1>4 DEF Consistent, Structures
<1>6. Consistent(b)
  BY <1>5 DEF Consistent, Held
<1>7. PICK d : d = UnsafeAdaptiveAdjust(b, Index(l))
  OBVIOUS
<1>8. /\ Consistent(d) /\ Evicted(b, d)
      /\ key \in DOMAIN d.phantoms /\ d.phantoms[key] = l
  BY <1>1, <1>5, <1>6, <1>7, AdjustKeeps
<1>9. e = With(d, UnsafePutEntryIntoList(d.lists, key, size, {l}, more),
               NowIn(d.buffers, key, size, more), Drop(d.phantoms, key))
  BY <1>3, <1>4, <1>7
<1> DEFINE left == [d.lists EXCEPT ![l] = Leave(d.lists[l], key, size)]
           lists == [left EXCEPT ![more] = PushFront(left[more], key, size)]
           buffers == NowIn(d.buffers, key, size, more)
           phantoms == Drop(d.phantoms, key)
           g == With(d, left, d.buffers, phantoms)
<1>10. l \in Phantom /\ key \in EntryKeys /\ Consistent(g)
  BY <1>8, PhantomLeaves
<1>11. l \in Lists /\ d.lists \in [Lists -> CacheLists]
  BY <1>8, <1>10 DEF Lists, Consistent, Structures
<1>12. UnsafePutEntryIntoList(d.lists, key, size, {l}, more) = lists
  BY <1>2, <1>11, PutShape
<1>13. g.lists = left /\ g.buffers = d.buffers /\ g.phantoms = phantoms
  BY WithFields
<1>14. key \notin DOMAIN g.buffers /\ key \notin DOMAIN g.phantoms
  <2>1. key \notin DOMAIN d.buffers
    BY <1>8 DEF Consistent, Books
  <2> QED
    BY <1>13, <2>1 DEF Drop
<1>15. Consistent(With(g, [g.lists EXCEPT ![more] = PushFront(g.lists[more], key, size)],
                       NowIn(g.buffers, key, size, more), g.phantoms))
  <2> HIDE DEF g
  <2> QED
    BY <1>2, <1>10, <1>14, BufferEnters
<1>16. With(g, lists, buffers, phantoms) = e
  BY <1>9, <1>12, WithAgain
<1>17. Consistent(e)
  BY <1>13, <1>15, <1>16
<1>18. e.buffers = buffers
  BY <1>9, WithFields
<1>19. Given(d, e, key, size)
  BY <1>18, EntersGiven
<1>20. Given(b, e, key, size)
  BY <1>8, <1>19, EvictedGiven
<1>21. Given(c, e, key, size)
  BY <1>5, <1>20 DEF Given
<1> QED
  BY <1>17, <1>21

LEMMA PutKeeps ==
    ASSUME NEW c, Consistent(c), Fits(c), NEW key \in EntryKeys, NEW size \in Sizes,
           NEW d \in AfterPut(c, key, size)
    PROVE  Consistent(d) /\ Fits(d) /\ (d = c \/ Given(c, d, key, size))
<1>1. size \in Nat
  BY ArcAssumption
<1>2. CASE size > MaxSize
  BY <1>2 DEF AfterPut
<1>3. CASE ~(size > MaxSize) /\ key \in DOMAIN c.buffers
  <2>1. d = UnsafeOverwrite(c, key, size)
    BY <1>3 DEF AfterPut
  <2> QED
    BY <1>1, <1>3, <2>1, OverwriteKeeps
<1>4. CASE /\ ~(size > MaxSize) /\ key \notin DOMAIN c.buffers
           /\ key \in DOMAIN c.phantoms
  <2>1. PICK e \in UnsafeCacheInPhantom(c, key, size) : d = EvictMemoryOverflow(e)
    BY <1>4 DEF AfterPut
  <2>2. Consistent(e) /\ Given(c, e, key, size)
    BY <1>1, <1>4, PhantomHitKeeps
  <2>3. Consistent(d) /\ Evicted(e, d) /\ Fits(d)
    BY <2>1, <2>2, OverflowEvicted
  <2> QED
    BY <2>2, <2>3, GivenEvicted
<1>5. CASE /\ ~(size > MaxSize) /\ key \notin DOMAIN c.buffers
           /\ key \notin DOMAIN c.phantoms
  <2>1. PICK e : e = UnsafeCacheIfMiss(c, key, size) /\ d = EvictMemoryOverflow(e)
    BY <1>5 DEF AfterPut
  <2>2. Consistent(e) /\ Given(c, e, key, size)
    BY <1>1, <1>5, <2>1, MissKeeps
  <2>3. Consistent(d) /\ Evicted(e, d) /\ Fits(d)
    BY <2>1, <2>2, OverflowEvicted
  <2> QED
    BY <2>2, <2>3, GivenEvicted
<1> QED
  BY <1>2, <1>3, <1>4, <1>5

-----------------------------------------------------------------------------
(* The invariant: every operation leaves lists and maps that agree, counters  *)
(* that are exact, and no more than the cache may take.                       *)
ArcInv == Consistent(arc) /\ Fits(arc)

LEMMA ArcStarts == ArcInit => ArcInv
<1> SUFFICES ASSUME ArcInit PROVE ArcInv
  OBVIOUS
<1> DEFINE none == [size |-> 0, list |-> <<>>]
<1>1. arc = EmptyCache
  BY DEF ArcInit
<1>2. none \in CacheLists /\ none.list = <<>> /\ none.size = 0
  BY DEF CacheLists
<1>3. Listed(none) = {}
  <2>1. 1 .. Len(none.list) = {}
    BY <1>2
  <2> QED
    BY <1>2, <2>1, ListedTyped
<1>4. ListExact(none)
  <2>1. DOMAIN none.list = {}
    BY <1>2
  <2>2. Total(Listed(none)) = 0
    BY <1>3, TotalOfNone
  <2> HIDE DEF none
  <2> QED
    BY <1>2, <2>1, <2>2 DEF ListExact
<1> HIDE DEF none
<1> DEFINE empty == [k \in {} |-> 0]
<1>5. /\ arc.lists = [l \in Lists |-> none] /\ arc.adaptive = 0
      /\ arc.buffers = empty /\ arc.phantoms = empty
  BY <1>1 DEF EmptyCache, none
<1>6. DOMAIN empty = {} /\ \A V : empty \in Partial(V)
  <2>1. \A V : empty \in [{} -> V]
    OBVIOUS
  <2> QED
    BY <2>1 DEF Partial
<1> HIDE DEF empty
<1>7. \A l \in Lists : arc.lists[l] = none
  BY <1>5
<1>8. Held(arc) = [l \in Lists |-> {}]
  BY <1>3, <1>7 DEF Held
<1>9. Books(Held(arc), arc.buffers, arc.phantoms)
  <2>1. \A l \in Lists : Held(arc)[l] = {}
    BY <1>8
  <2>2. Held(arc) \in [Lists -> SUBSET EntryTypes]
    BY <1>8
  <2>3. \A l \in Resident \union Phantom : Held(arc)[l] = {}
    BY <2>1 DEF Lists
  <2> QED
    BY <1>5, <1>6, <2>2, <2>3 DEF Books
<1>10. arc \in Structures
  <2>1. arc = [lists |-> arc.lists, adaptive |-> arc.adaptive, buffers |-> arc.buffers,
               phantoms |-> arc.phantoms]
    BY <1>1 DEF EmptyCache
  <2>2. arc.lists \in [Lists -> CacheLists] /\ arc.adaptive \in 0 .. MaxSize
    BY <1>2, <1>5, ArcAssumption
  <2>3. arc.buffers \in Partial(Buffers) /\ arc.phantoms \in Partial(Phantom)
    BY <1>5, <1>6
  <2> QED
    BY <2>1, <2>2, <2>3 DEF Structures
<1>11. Consistent(arc)
  BY <1>4, <1>7, <1>9, <1>10 DEF Consistent
<1>12. Fits(arc)
  <2>1. /\ arc.lists["hit_once"].size = 0 /\ arc.lists["more_than_once"].size = 0
        /\ arc.lists["hit_once_phantom"].size = 0
        /\ arc.lists["more_than_once_phantom"].size = 0
    BY <1>2, <1>7, ListNames
  <2> QED
    BY <2>1, ArcAssumption DEF Fits, InMemory, Remembered
<1> QED
  BY <1>11, <1>12 DEF ArcInv

LEMMA ArcStep == ArcInv /\ [ArcNext]_arcVars => ArcInv'
<1> SUFFICES ASSUME ArcInv, [ArcNext]_arcVars PROVE ArcInv'
  OBVIOUS
<1>1. PICK c : c = arc
  OBVIOUS
<1>2. PICK d : d = arc'
  OBVIOUS
<1>3. Consistent(c) /\ Fits(c)
  BY <1>1 DEF ArcInv
<1>4. Consistent(d) /\ Fits(d)
  <2>1. ASSUME NEW key \in EntryKeys, TryGet(key) PROVE Consistent(d) /\ Fits(d)
    <3>1. d = IF key \in DOMAIN c.buffers THEN AfterGet(c, key) ELSE c
      BY <1>1, <1>2, <2>1 DEF TryGet
    <3> QED
      BY <1>3, <3>1, GetKeeps
  <2>2. ASSUME NEW key \in EntryKeys, Remove(key) PROVE Consistent(d) /\ Fits(d)
    <3>1. key \in DOMAIN c.buffers /\ d = AfterRemove(c, key)
      BY <1>1, <1>2, <2>2 DEF Remove
    <3> QED
      BY <1>3, <3>1, RemoveKeeps
  <2>3. ASSUME NEW key \in EntryKeys, NEW size \in Sizes, PutBuffer(key, size)
        PROVE  Consistent(d) /\ Fits(d)
    <3>1. d \in AfterPut(c, key, size)
      BY <1>1, <1>2, <2>3 DEF PutBuffer
    <3> QED
      BY <1>3, <3>1, PutKeeps
  <2>4. CASE UNCHANGED arcVars
    BY <1>1, <1>2, <1>3, <2>4 DEF arcVars
  <2> QED
    BY <2>1, <2>2, <2>3, <2>4 DEF ArcNext
<1>5. (Consistent(arc) /\ Fits(arc))' <=> Consistent(d) /\ Fits(d)
  BY <1>2 DEF Consistent, Fits, Structures, ListExact, Books, Held, InMemory, Remembered,
              CacheLists, EntryTypes, Partial, Buffers, Listed, Total, Entry
<1> QED
  BY <1>4, <1>5 DEF ArcInv

LEMMA ArcSafe == ArcSpec => []ArcInv
<1> QED
  BY ArcStarts, ArcStep, PTL DEF ArcSpec

LEMMA ArcBooks == ArcInv => BooksExact
<1> SUFFICES ASSUME ArcInv PROVE BooksExact
  OBVIOUS
<1>1. /\ Consistent(arc) /\ arc \in Structures
      /\ \A l \in Lists : ListExact(arc.lists[l])
      /\ Books(Held(arc), arc.buffers, arc.phantoms)
  BY DEF ArcInv, Consistent
<1>2. /\ arc.adaptive \in 0 .. MaxSize
      /\ \A k \in DOMAIN arc.buffers : arc.buffers[k] \in Buffers
      /\ \A k \in DOMAIN arc.phantoms : arc.phantoms[k] \in Phantom
  BY <1>1, StructureTyped, PartialTyped
<1>3. ArcTypeOK
  BY <1>2 DEF ArcTypeOK, Buffers
<1>4. CountersExact
  BY <1>1 DEF CountersExact, ListExact
<1>5. \A l \in Lists : Held(arc)[l] = Listed(arc.lists[l])
  BY DEF Held
<1>6. \A l \in Resident :
        KeysIn(arc.lists[l]) = {k \in DOMAIN arc.buffers : arc.buffers[k].list = l}
  <2> SUFFICES ASSUME NEW l \in Resident
               PROVE  KeysIn(arc.lists[l])
                        = {k \in DOMAIN arc.buffers : arc.buffers[k].list = l}
    OBVIOUS
  <2>1. l \in Lists
    BY DEF Lists
  <2>2. \A e \in Held(arc)[l] : e.key \in DOMAIN arc.buffers /\ arc.buffers[e.key].list = l
    BY <1>1 DEF Books
  <2>3. ASSUME NEW k \in DOMAIN arc.buffers, arc.buffers[k].list = l
        PROVE  k \in KeysIn(arc.lists[l])
    <3>1. Entry(k, arc.buffers[k].size) \in Held(arc)[l]
      BY <1>1, <2>3 DEF Books
    <3>2. Entry(k, arc.buffers[k].size).key = k
      BY DEF Entry
    <3> QED
      BY <1>5, <2>1, <3>1, <3>2 DEF KeysIn
  <2> QED
    BY <1>5, <2>1, <2>2, <2>3 DEF KeysIn
<1>7. \A l \in Phantom :
        KeysIn(arc.lists[l]) = {k \in DOMAIN arc.phantoms : arc.phantoms[k] = l}
  <2> SUFFICES ASSUME NEW l \in Phantom
               PROVE  KeysIn(arc.lists[l])
                        = {k \in DOMAIN arc.phantoms : arc.phantoms[k] = l}
    OBVIOUS
  <2>1. l \in Lists
    BY DEF Lists
  <2>2. \A e \in Held(arc)[l] : e.key \in DOMAIN arc.phantoms /\ arc.phantoms[e.key] = l
    BY <1>1 DEF Books
  <2>3. ASSUME NEW k \in DOMAIN arc.phantoms, arc.phantoms[k] = l
        PROVE  k \in KeysIn(arc.lists[l])
    <3>1. \E e \in Held(arc)[l] : e.key = k
      BY <1>1, <2>3 DEF Books
    <3> QED
      BY <1>5, <2>1, <3>1 DEF KeysIn
  <2> QED
    BY <1>5, <2>1, <2>2, <2>3 DEF KeysIn
<1>8. \A l \in Lists : \A i, j \in DOMAIN arc.lists[l].list :
        arc.lists[l].list[i].key = arc.lists[l].list[j].key => i = j
  BY <1>1 DEF ListExact
<1>9. DOMAIN arc.buffers \intersect DOMAIN arc.phantoms = {}
  BY <1>1 DEF Books
<1>10. MapsAgree
  <2>1. \A l \in Lists : l \in Resident \/ (l \notin Resident /\ l \in Phantom)
    BY DEF Lists
  <2> QED
    BY <1>6, <1>7, <1>8, <1>9, <2>1 DEF MapsAgree
<1>11. WithinMemory
  BY DEF ArcInv, Fits, WithinMemory
<1> QED
  BY <1>3, <1>4, <1>10, <1>11 DEF BooksExact

(* Under the lock of the in-memory cache every operation finds and leaves     *)
(* lists, maps and byte counters that agree, in no more memory than the cache *)
(* was given: for every set of keys, of buffer sizes and every capacity.      *)
THEOREM ArcBooksCorrect == ArcSpec => []BooksExact
<1> QED
  BY ArcSafe, ArcBooks, PTL

-----------------------------------------------------------------------------
(* What a caller would find.                                                  *)
CachedIn(c) == [k \in DOMAIN c.buffers |-> c.buffers[k].size]

Taken(was, now, key, size) ==
    \E keep \in SUBSET (DOMAIN was \union {key}) :
      now = [k \in keep |-> [i \in DOMAIN was \union {key} |->
                                IF i = key THEN size ELSE was[i]][k]]

LEMMA GivenIsTaken ==
    ASSUME NEW c, NEW d, NEW key, NEW size, Given(c, d, key, size)
    PROVE  Taken(CachedIn(c), CachedIn(d), key, size)
<1> DEFINE was == CachedIn(c)
           now == CachedIn(d)
           bound == [i \in DOMAIN was \union {key} |->
                       IF i = key THEN size ELSE was[i]]
           keep == DOMAIN d.buffers
<1>1. /\ DOMAIN was = DOMAIN c.buffers
      /\ \A k \in DOMAIN c.buffers : was[k] = c.buffers[k].size
  BY DEF CachedIn
<1>2. now = [k \in keep |-> d.buffers[k].size]
  BY DEF CachedIn
<1> HIDE DEF was, now
<1>3. ASSUME NEW k \in keep
      PROVE  k \in DOMAIN was \union {key} /\ bound[k] = d.buffers[k].size
  <2>1. CASE k = key
    BY <2>1 DEF Given
  <2>2. CASE k # key
    BY <1>1, <2>2 DEF Given
  <2> QED
    BY <2>1, <2>2
<1> HIDE DEF bound, keep
<1>4. keep \in SUBSET (DOMAIN was \union {key})
  BY <1>3
<1>5. now = [k \in keep |-> bound[k]]
  BY <1>2, <1>3
<1> QED
  BY <1>4, <1>5 DEF was, now, bound, Taken

LEMMA PromisedStarts == ArcInit => Promised!Init
<1> SUFFICES ASSUME ArcInit PROVE Promised!Init
  OBVIOUS
<1>1. arc.buffers = [k \in {} |-> 0] /\ putting = {}
  BY DEF ArcInit, EmptyCache
<1>2. DOMAIN arc.buffers = {}
  BY <1>1
<1>3. [k \in DOMAIN arc.buffers |-> arc.buffers[k].size] = [k \in {} |-> 0]
  BY <1>2
<1> QED
  BY <1>1, <1>3 DEF Promised!Init

(* A get moves a buffer and keeps it, a removal and every eviction forget.    *)
LEMMA PromisedStep ==
    ArcInv /\ [ArcNext]_arcVars
      => [Promised!Next]_<<[k \in DOMAIN arc.buffers |-> arc.buffers[k].size], putting>>
<1> SUFFICES ASSUME ArcInv, [ArcNext]_arcVars
             PROVE  [Promised!Next]_<<[k \in DOMAIN arc.buffers |-> arc.buffers[k].size],
                                      putting>>
  OBVIOUS
<1>1. PICK c, d : c = arc /\ d = arc'
  OBVIOUS
<1>2. Consistent(c) /\ Fits(c)
  BY <1>1 DEF ArcInv
<1> DEFINE was == [k \in DOMAIN arc.buffers |-> arc.buffers[k].size]
<1>3. was = CachedIn(c)
  BY <1>1 DEF CachedIn
<1>4. was' = CachedIn(d)
  BY <1>1 DEF CachedIn
<1>5. ASSUME NEW keep \in SUBSET DOMAIN c.buffers,
             DOMAIN d.buffers = keep,
             \A k \in keep : d.buffers[k].size = c.buffers[k].size
      PROVE  Promised!Forget
  <2>1. keep \in SUBSET DOMAIN was
    BY <1>1
  <2>2. \A k \in keep : was[k] = d.buffers[k].size
    BY <1>1, <1>5
  <2>3. was' = [k \in keep |-> d.buffers[k].size]
    BY <1>4, <1>5 DEF CachedIn
  <2> HIDE DEF was
  <2>4. was' = [k \in keep |-> was[k]]
    BY <2>2, <2>3
  <2> QED
    BY <2>1, <2>4 DEF Promised!Forget, Promised!Only, was
<1>6. ASSUME NEW key \in EntryKeys, TryGet(key) PROVE Promised!Next
  <2>1. d = (IF key \in DOMAIN c.buffers THEN AfterGet(c, key) ELSE c) /\ putting' = {}
    BY <1>1, <1>6 DEF TryGet
  <2>2. /\ DOMAIN d.buffers = DOMAIN c.buffers
        /\ \A k \in DOMAIN c.buffers : d.buffers[k].size = c.buffers[k].size
    BY <1>2, <2>1, GetKeeps
  <2>3. Promised!Forget
    BY <1>5, <2>2
  <2> QED
    BY <2>1, <2>3 DEF Promised!Next
<1>7. ASSUME NEW key \in EntryKeys, Remove(key) PROVE Promised!Next
  <2>1. key \in DOMAIN c.buffers /\ d = AfterRemove(c, key) /\ putting' = {}
    BY <1>1, <1>7 DEF Remove
  <2>2. d.buffers = Drop(c.buffers, key)
    BY <1>2, <2>1, RemoveKeeps
  <2>3. /\ DOMAIN d.buffers = DOMAIN c.buffers \ {key}
        /\ \A k \in DOMAIN c.buffers \ {key} : d.buffers[k].size = c.buffers[k].size
    BY <2>2 DEF Drop
  <2>4. Promised!Forget
    BY <1>5, <2>3
  <2> QED
    BY <2>1, <2>4 DEF Promised!Next
<1>8. ASSUME NEW key \in EntryKeys, NEW size \in Sizes, PutBuffer(key, size)
      PROVE  Promised!Next
  <2>1. d \in AfterPut(c, key, size) /\ putting' = {<<key, size>>}
    BY <1>1, <1>8 DEF PutBuffer
  <2>2. d = c \/ Given(c, d, key, size)
    BY <1>2, <2>1, PutKeeps
  <2>3. putting' \subseteq EntryKeys \X Sizes
    BY <2>1
  <2>4. CASE d = c
    <3>1. Promised!Forget
      BY <1>5, <2>4
    <3> QED
      BY <2>3, <3>1 DEF Promised!Next
  <2>5. CASE Given(c, d, key, size)
    <3>1. Promised!Take(key, size)
      <4>1. Taken(CachedIn(c), CachedIn(d), key, size)
        BY <2>5, GivenIsTaken
      <4> HIDE DEF was
      <4>2. Taken(was, was', key, size)
        BY <1>3, <1>4, <4>1
      <4> QED
        BY <4>2 DEF Taken, Promised!Take, Promised!Only, Promised!Bound, was
    <3>2. PICK p : p = <<key, size>> /\ p \in putting'
      BY <2>1
    <3>3. p[1] = key /\ p[2] = size
      BY <3>2
    <3>4. Promised!Take(p[1], p[2])
      BY <3>1, <3>3
    <3> QED
      BY <2>3, <3>2, <3>4 DEF Promised!Next
  <2> QED
    BY <2>2, <2>4, <2>5
<1>9. CASE UNCHANGED arcVars
  BY <1>9 DEF arcVars
<1> QED
  BY <1>6, <1>7, <1>8, <1>9 DEF ArcNext

(* Moving entries between four lists and two maps neither swaps, revives nor  *)
(* makes up a buffer: the in-memory cache implements the abstract cache.      *)
THEOREM ArcRefinementCorrect == ArcSpec => RefinesAbstractCache
<1> QED
  BY ArcSafe, PromisedStarts, PromisedStep, PTL
     DEF ArcSpec, RefinesAbstractCache, Promised!Spec
=============================================================================
