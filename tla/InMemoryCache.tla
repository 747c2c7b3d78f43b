---------------------------- MODULE InMemoryCache ----------------------------
(* The cache server's first level, an ARC cache of entries of different       *)
(* sizes: src/yadcc/cache/in_memory_cache.{h,cc}.                             *)
(*                                                                            *)
(* The structure is one value, `arc'; what the code does to it under lock_ is *)
(* an operator from structures to structures, so that the lists, the two maps *)
(* and the byte counters can be held against each other after every call.     *)
(* Buffers are told apart by their sizes.                                     *)
EXTENDS Integers, Sequences, FiniteSets

SeqOps == INSTANCE SequencesExt

CONSTANTS
    EntryKeys,
    Sizes,      \* of the buffers that are put
    MaxSize     \* max_size_in_bytes_

ASSUME ArcAssumption == Sizes \subseteq Nat /\ MaxSize \in Nat \ {0}

VARIABLES
    arc,        \* the lists, the maps and adaptive_size_of_once_
    putting     \* the call of Put that was just served, if it was one

arcVars == <<arc, putting>>

(* t1, b1, t2, b2 in the comments of the code.                                *)
Resident == {"hit_once", "more_than_once"}
Phantom == {"hit_once_phantom", "more_than_once_phantom"}
Lists == Resident \union Phantom

PhantomOf(l) == IF l = "hit_once" THEN "hit_once_phantom"
                ELSE "more_than_once_phantom"

(* std::list entries: the front is the most recently used.                    *)
Entry(key, size) == [key |-> key, size |-> size]

Listed(l) == SeqOps!ToSet(l.list)
KeysIn(l) == {e.key : e \in Listed(l)}

(* The entry_iter that a map keeps for a key.                                 *)
Position(l, key) == CHOOSE i \in DOMAIN l.list : l.list[i].key = key

Drop(f, key) == [k \in DOMAIN f \ {key} |-> f[k]]

Bind(f, key, v) == [k \in DOMAIN f \union {key} |-> IF k = key THEN v ELSE f[k]]

InMemory(c) == c.lists["hit_once"].size + c.lists["more_than_once"].size

Remembered(c) == c.lists["hit_once_phantom"].size
                   + c.lists["more_than_once_phantom"].size

Back(c, l) == SeqOps!Last(c.lists[l].list)

With(c, lists, buffers, phantoms) ==
    [lists |-> lists, adaptive |-> c.adaptive, buffers |-> buffers,
     phantoms |-> phantoms]

NowIn(buffers, key, size, l) == Bind(buffers, key, [size |-> size, list |-> l])

-----------------------------------------------------------------------------
(* UnsafePutEntryIntoList.  `from' is the entry's belonging_list, if any.     *)

(* Mutant: the counter is lowered by the new size.                            *)
LeaveByNewSize(l, key, size) ==
    [size |-> l.size - size, list |-> SeqOps!RemoveAt(l.list, Position(l, key))]

Leave(l, key, size) ==
    [size |-> l.size - l.list[Position(l, key)].size,
     list |-> SeqOps!RemoveAt(l.list, Position(l, key))]

PushFront(l, key, size) ==
    [size |-> l.size + size, list |-> <<Entry(key, size)>> \o l.list]

UnsafePutEntryIntoList(lists, key, size, from, to) ==
    LET left == [l \in Lists |-> IF l \in from THEN Leave(lists[l], key, size)
                                 ELSE lists[l]]
    IN  [left EXCEPT ![to] = PushFront(left[to], key, size)]

(* EvictHitOnceToPhantom and EvictMoreThanOnceToPhantom.                      *)
EvictToPhantom(c, l) ==
    LET key == Back(c, l).key
    IN  With(c, UnsafePutEntryIntoList(c.lists, key, c.buffers[key].size, {l},
                                       PhantomOf(l)),
             Drop(c.buffers, key), Bind(c.phantoms, key, PhantomOf(l)))

UnsafeAdaptiveAdjust(c, index) ==
    LET once == c.lists["hit_once"].size
        more == c.lists["more_than_once"].size
    IN  IF once > c.adaptive \/ (index = 2 /\ once >= c.adaptive)
          THEN IF once > 0 THEN EvictToPhantom(c, "hit_once") ELSE c
          ELSE IF more > 0 /\ more >= MaxSize - c.adaptive
                 THEN EvictToPhantom(c, "more_than_once") ELSE c

(* A loop over the structure, with a bound on its rounds: an entry can be     *)
(* evicted to a phantom list and dropped from there.                          *)
Count(c, kind) == Len(c.lists[kind].list)

Rounds(c) == 2 * (Count(c, "hit_once") + Count(c, "more_than_once"))
             + Count(c, "hit_once_phantom") + Count(c, "more_than_once_phantom")

Round(Goes(_), Body(_), r) == IF Goes(r) THEN Body(r) ELSE r

While(Goes(_), Body(_), bound, start) ==
    LET run[n \in 0 .. bound] ==
          IF n = 0 THEN start ELSE Round(Goes, Body, run[n - 1])
    IN  run[bound]

(* The last entry leaves a list: the counter, and pop_back.                   *)
Lowered(l, size) == [size |-> l.size - size, list |-> l.list]
Popped(l) == [size |-> l.size, list |-> SeqOps!Front(l.list)]

(* One round of UnsafeTryEvict: `desired' bytes are still wanted.             *)
EvictBack(r, l) ==
    LET c == r.c
        back == Back(c, l)
        less == [c.lists EXCEPT ![l] = Lowered(c.lists[l], back.size)]
        known == IF l \in Resident
                   THEN With(c, less, Drop(c.buffers, back.key), c.phantoms)
                   ELSE UnsafeAdaptiveAdjust(
                     With(c, less, c.buffers, Drop(c.phantoms, back.key)), 1)
    IN  [c |-> With(known, [known.lists EXCEPT ![l] = Popped(known.lists[l])],
                    known.buffers, known.phantoms),
         desired |-> IF r.desired > back.size THEN r.desired - back.size ELSE 0]

UnsafeTryEvict(c, l, desired) ==
    While(LAMBDA r : r.desired > 0 /\ r.c.lists[l].size > 0,
          LAMBDA r : EvictBack(r, l),
          Rounds(c), [c |-> c, desired |-> desired])

(* EvictMemoryOverflow: what is kept, then what is remembered of each half.   *)
EvictResident(c) ==
    While(LAMBDA d : InMemory(d) > MaxSize,
          LAMBDA d : EvictToPhantom(d,
            IF d.lists["hit_once"].size > d.adaptive THEN "hit_once"
            ELSE "more_than_once"),
          Rounds(c), c)

ForgetBack(c, p) ==
    LET back == Back(c, p)
    IN  With(c, [c.lists EXCEPT ![p] = Popped(Lowered(c.lists[p], back.size))],
             c.buffers, Drop(c.phantoms, back.key))

TrimPhantom(c, l) ==
    While(LAMBDA d : d.lists[l].size + d.lists[PhantomOf(l)].size > MaxSize,
          LAMBDA d : ForgetBack(d, PhantomOf(l)),
          Rounds(c), c)

EvictMemoryOverflow(c) ==
    TrimPhantom(TrimPhantom(EvictResident(c), "hit_once"), "more_than_once")

-----------------------------------------------------------------------------
(* Put.                                                                       *)

(* Mutant: the buffer at the front of the list is overwritten.                *)
FrontBuffer(f, c, l, key, size) ==
    [f EXCEPT ![Head(c.lists[l].list).key].size = size]

(* buffer_desc.buffer = buffer.                                              *)
NewBuffer(f, c, l, key, size) == [f EXCEPT ![key].size = size]

(* Only a larger buffer makes room for itself.                                *)
UnsafeOverwrite(c, key, size) ==
    LET l == c.buffers[key].list
        at == Position(c.lists[l], key)
        was == c.lists[l].list[at].size
        new == [size |-> c.lists[l].size - was + size,
                list |-> SeqOps!ReplaceAt(c.lists[l].list, at, Entry(key, size))]
        over == With(c, [c.lists EXCEPT ![l] = new],
                     NewBuffer(c.buffers, c, l, key, size), c.phantoms)
    IN  IF size > was THEN EvictMemoryOverflow(over) ELSE over

Least(a, b) == IF a < b THEN a ELSE b

(* What adaptive_size_of_once_ may become.  buffer_size * ratio is computed   *)
(* in floating point and truncated; with a phantom list of empty entries the  *)
(* ratio is infinite, which no integer represents.                            *)
Scaled(size, larger, smaller) ==
    IF larger <= smaller THEN {size}
    ELSE IF smaller = 0 THEN 0 .. MaxSize
    ELSE {(size * larger) \div smaller}

Adapted(c, index, size) ==
    LET once == c.lists["hit_once_phantom"].size
        more == c.lists["more_than_once_phantom"].size
    IN  IF index = 1
          THEN {Least(c.adaptive + s, MaxSize) : s \in Scaled(size, more, once)}
          ELSE {IF c.adaptive > s THEN c.adaptive - s ELSE 0 :
                  s \in Scaled(size, once, more)}

Index(l) == IF l = "hit_once_phantom" THEN 1 ELSE 2

(* The outcomes of UnsafeCacheInPhantom.                                      *)
UnsafeCacheInPhantom(c, key, size) ==
    LET l == c.phantoms[key]
        Enter(a) ==
          LET d == UnsafeAdaptiveAdjust([c EXCEPT !.adaptive = a], Index(l))
          IN  With(d, UnsafePutEntryIntoList(d.lists, key, size, {l},
                                             "more_than_once"),
                   NowIn(d.buffers, key, size, "more_than_once"),
                   Drop(d.phantoms, key))
    IN  {Enter(a) : a \in Adapted(c, Index(l), size)}

(* b1, then t1, when the half of entries seen once is full.                   *)
MakeRoomInOnce(c, size) ==
    IF c.lists["hit_once"].size + c.lists["hit_once_phantom"].size + size > MaxSize
      THEN LET r == UnsafeTryEvict(c, "hit_once_phantom", size)
           IN  UnsafeTryEvict(r.c, "hit_once", r.desired)
      ELSE [c |-> c, desired |-> size]

(* b2, then t2, when the whole directory is.                                  *)
MakeRoomInMore(r) ==
    LET total == InMemory(r.c) + Remembered(r.c) + r.desired
    IN  IF r.desired = 0 \/ total <= MaxSize THEN r.c
        ELSE IF total >= 2 * MaxSize
          THEN LET q == UnsafeTryEvict(r.c, "more_than_once_phantom", r.desired)
               IN  UnsafeTryEvict(q.c, "more_than_once", q.desired).c
          ELSE UnsafeAdaptiveAdjust(r.c, 1)

UnsafeCacheIfMiss(c, key, size) ==
    LET roomy == IF InMemory(c) + size > MaxSize
                   THEN MakeRoomInMore(MakeRoomInOnce(c, size)) ELSE c
    IN  With(roomy, UnsafePutEntryIntoList(roomy.lists, key, size, {}, "hit_once"),
             NowIn(roomy.buffers, key, size, "hit_once"), roomy.phantoms)

(* The structures Put may leave behind.                                       *)
AfterPut(c, key, size) ==
    IF size > MaxSize THEN {c}
    ELSE IF key \in DOMAIN c.buffers THEN {UnsafeOverwrite(c, key, size)}
    ELSE IF key \in DOMAIN c.phantoms
      THEN {EvictMemoryOverflow(d) : d \in UnsafeCacheInPhantom(c, key, size)}
    ELSE {EvictMemoryOverflow(UnsafeCacheIfMiss(c, key, size))}

PutBuffer(key, size) ==
    /\ arc' \in AfterPut(arc, key, size)
    /\ putting' = {<<key, size>>}

-----------------------------------------------------------------------------
(* TryGet: a hit makes the entry one that was hit more than once.             *)
AfterGet(c, key) ==
    LET e == c.buffers[key]
    IN  With(c, UnsafePutEntryIntoList(c.lists, key, e.size, {e.list},
                                       "more_than_once"),
             NowIn(c.buffers, key, e.size, "more_than_once"), c.phantoms)

TryGet(key) ==
    /\ arc' = IF key \in DOMAIN arc.buffers THEN AfterGet(arc, key) ELSE arc
    /\ putting' = {}

(* A list holds a key once: remove_if takes what the entry_iter points to.    *)
AfterRemove(c, key) ==
    LET e == c.buffers[key]
        l == c.lists[e.list]
        new == [size |-> l.size - e.size, list |-> Leave(l, key, e.size).list]
    IN  With(c, [c.lists EXCEPT ![e.list] = new], Drop(c.buffers, key), c.phantoms)

Remove(key) ==
    /\ key \in DOMAIN arc.buffers
    /\ arc' = AfterRemove(arc, key)
    /\ putting' = {}

EmptyCache ==
    [lists |-> [l \in Lists |-> [size |-> 0, list |-> <<>>]], adaptive |-> 0,
     buffers |-> [k \in {} |-> 0], phantoms |-> [k \in {} |-> 0]]

ArcInit == arc = EmptyCache /\ putting = {}

ArcNext == \E key \in EntryKeys : \/ TryGet(key)
                                  \/ Remove(key)
                                  \/ \E size \in Sizes : PutBuffer(key, size)

ArcSpec == ArcInit /\ [][ArcNext]_arcVars

-----------------------------------------------------------------------------
(* Every entry has that many bytes of its own.                                *)
Total(entries) == Cardinality(UNION {{e} \X (1 .. e.size) : e \in entries})

ArcTypeOK ==
    /\ arc.adaptive \in 0 .. MaxSize
    /\ \A k \in DOMAIN arc.buffers : arc.buffers[k].list \in Resident
    /\ \A k \in DOMAIN arc.phantoms : arc.phantoms[k] \in Phantom

(* The byte counter of each list is the sum of the sizes recorded in it: it   *)
(* is kept by additions and subtractions of unsigned numbers in six places.   *)
CountersExact ==
    \A l \in Lists : arc.lists[l].size = Total(Listed(arc.lists[l]))

(* Every key is in the list its map says it is in, once, and in no other: no  *)
(* entry_iter of a map dangles, and no listed key is unknown to the maps.     *)
MapsAgree ==
    /\ DOMAIN arc.buffers \intersect DOMAIN arc.phantoms = {}
    /\ \A l \in Lists :
         /\ KeysIn(arc.lists[l]) = IF l \in Resident
              THEN {k \in DOMAIN arc.buffers : arc.buffers[k].list = l}
              ELSE {k \in DOMAIN arc.phantoms : arc.phantoms[k] = l}
         /\ \A i, j \in DOMAIN arc.lists[l].list :
              arc.lists[l].list[i].key = arc.lists[l].list[j].key => i = j

(* The buffers never take more than what the cache was given, and what is     *)
(* remembered of evicted ones at most doubles the directory, for entries of   *)
(* any size.                                                                  *)
WithinMemory ==
    /\ InMemory(arc) <= MaxSize
    /\ InMemory(arc) + Remembered(arc) <= 2 * MaxSize

(* What every operation under the cache's lock finds and leaves.              *)
BooksExact == ArcTypeOK /\ CountersExact /\ MapsAgree /\ WithinMemory

Promised == INSTANCE AbstractCache WITH
    Keys <- EntryKeys, Values <- Sizes,
    cached <- [k \in DOMAIN arc.buffers |-> arc.buffers[k].size]

(* Nothing is found under a key but what a Put has left there: moving entries *)
(* between four lists and two maps neither swaps nor revives a buffer.        *)
RefinesAbstractCache == Promised!Spec
=============================================================================
