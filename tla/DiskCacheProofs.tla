--------------------------- MODULE DiskCacheProofs ---------------------------
(* Proofs about the on-disk cache (DiskCache), for every number of keys,      *)
(* sizes, shards, fibers and crashes.                                         *)
EXTENDS DiskCache, TLAPS

USE DiskCacheAssumption

Values == [key : Keys, size : Sizes]
Bodies == [key : Keys \union {Junk}, size : Sizes]
Files == [sum : Values \union {None}, body : Bodies \union {None}, lately : BOOLEAN]

Listed == [key : Keys, size : Nat, lately : BOOLEAN]

DiskTyped ==
    /\ up \in {"down", "loading", "serving"}
    /\ home \in Homes
    /\ file \in [1 .. Shards -> [Keys -> Files \union {None}]]
    /\ entries \in [Keys -> {NoSize, 0, HeaderSize} \union {HeaderSize + n : n \in Sizes}]
    /\ load \in [at : 1 .. Shards, left : SUBSET Keys, action : Actions]
    /\ strays \subseteq Keys

FibersTyped ==
    /\ reader \in [Readers -> [at : {"idle", "reading"}, key : Keys \union {None},
                               orphan : Files \union {None}]]
    /\ writer \in [Writers -> [at : {"idle", "locked", "opened", "headed"},
                               key : Keys \union {None}, size : Sizes \union {0}]]
    /\ purge \in [at : 0 .. Shards, list : SUBSET Listed, bare : Keys \union {None}]
    /\ \A r \in Readers : reader[r].at # "idle" => reader[r].key \in Keys
    /\ \A w \in Writers : writer[w].at # "idle" => /\ writer[w].key \in Keys
                                                   /\ writer[w].size \in Sizes

(* A header is of its own key, and comes first.                               *)
Headed(k, f) ==
    /\ f.sum # None => f.sum.key = k
    /\ f.body # None => f.sum # None

HeadersGenuine ==
    /\ \A s \in 1 .. Shards, k \in Keys : file[s][k] # None => Headed(k, file[s][k])
    /\ \A r \in Readers : reader[r].orphan # None => Headed(reader[r].key, reader[r].orphan)

(* Nobody but a serving process has fibers.                                   *)
OnlyServing ==
    up # "serving" =>
      /\ \A r \in Readers : reader[r].at = "idle"
      /\ \A w \in Writers : writer[w].at = "idle"
      /\ purge.at = 0 /\ strays = {}

(* dir_lock.                                                                  *)
OneWriter ==
    \A v, w \in Writers : writer[v].at # "idle" /\ writer[w].at # "idle" /\ v # w
                            => writer[v].key # writer[w].key

ReadersHaveFile ==
    \A r \in Readers : reader[r].at = "reading" /\ reader[r].orphan = None
                         => file[home[reader[r].key]][reader[r].key] # None

(* What is being written is as far as its writer is.                          *)
WritersProgress ==
    \A w \in Writers : writer[w].at \in {"opened", "headed"} =>
      LET f == file[home[writer[w].key]][writer[w].key]
      IN  /\ f # None => f.body = None /\ (f.sum # None <=> writer[w].at = "headed")
          /\ writer[w].key \notin strays => f # None

(* What is enumerated, to purge or to load, is there.                         *)
ListsThere ==
    /\ purge.at = 0 => purge.list = {} /\ purge.bare = None
    /\ \A e \in purge.list :
         file[purge.at][e.key] # None /\ (purge.bare # None => e.key # purge.bare)
    /\ \A e, o \in purge.list : e.key = o.key => e = o
    /\ purge.bare # None => file[purge.at][purge.bare] # None
    /\ up = "loading" => \A k \in load.left : file[load.at][k] # None

(* A file found without entry has got one only under the eyes of strays.      *)
BareWatched ==
    purge.bare # None /\ purge.at = home[purge.bare] =>
      \/ purge.bare \in strays
      \/ entries[purge.bare] = NoSize /\ ~Writing(purge.bare)

EntriesTrue ==
    \A k \in Keys : entries[k] # NoSize /\ ~Writing(k) =>
      /\ file[home[k]][k] # None => entries[k] = Size(file[home[k]][k])
      /\ file[home[k]][k] = None => k \in strays

LoadedPast(k) == home[k] < load.at \/ (home[k] = load.at /\ k \notin load.left)

(* What the constructor has been through has its entry.                       *)
LoadedSoFar ==
    /\ up = "down" => \A k \in Keys : entries[k] = NoSize
    /\ up = "loading" =>
         \A k \in Keys : file[home[k]][k] # None /\ LoadedPast(k) => entries[k] # NoSize

DiskInv ==
    /\ DiskTyped /\ FibersTyped
    /\ HeadersGenuine /\ OnlyServing /\ OneWriter /\ ReadersHaveFile
    /\ WritersProgress /\ ListsThere /\ BareWatched /\ EntriesTrue /\ LoadedSoFar

-----------------------------------------------------------------------------
(* None is no file, no value and no body.                                     *)
LEMMA NoneApart ==
    /\ \A f \in Files : f # None
    /\ \A v \in Values : v # None
    /\ \A b \in Bodies : b # None
    /\ EmptyFile # None
  BY DEF None, Files, Values, Bodies, EmptyFile

LEMMA HomeShard == DiskTyped => \A k \in Keys : home[k] \in 1 .. Shards
  BY DEF DiskTyped

(* One file is replaced, and no other.                                        *)
LEMMA FileEdit ==
    ASSUME DiskTyped, NEW s \in 1 .. Shards, NEW k \in Keys,
           NEW f \in Files \union {None}, file' = [file EXCEPT ![s][k] = f]
    PROVE  /\ file' \in [1 .. Shards -> [Keys -> Files \union {None}]]
           /\ file'[s][k] = f
           /\ \A t \in 1 .. Shards, q \in Keys :
                t # s \/ q # k => file'[t][q] = file[t][q]
  BY DEF DiskTyped

(* What a Put writes is a header or a body of its key.                        *)
LEMMA PartWritten ==
    ASSUME DiskTyped, NEW k \in Keys, NEW n \in Sizes, NEW f \in Files
    PROVE  /\ Value(k, n) \in Values /\ Value(k, n) \in Bodies
           /\ [f EXCEPT !.sum = Value(k, n), !.lately = TRUE] \in Files
           /\ [f EXCEPT !.body = Value(k, n), !.lately = TRUE] \in Files
<1>1. Value(k, n) \in Values /\ Value(k, n) \in Bodies
    BY DEF Value, Values, Bodies
<1> QED  BY <1>1 DEF Files

LEMMA WrittenSum ==
    ASSUME DiskTyped, NEW k \in Keys, NEW n \in Sizes, file[home[k]][k] # None
    PROVE  Written(k, "sum", n) =
             [file EXCEPT ![home[k]][k] = [file[home[k]][k] EXCEPT
                                             !.sum = Value(k, n), !.lately = TRUE]]
  BY HomeShard DEF Written, DiskTyped, Files

LEMMA WrittenBody ==
    ASSUME DiskTyped, NEW k \in Keys, NEW n \in Sizes, file[home[k]][k] # None
    PROVE  Written(k, "body", n) =
             [file EXCEPT ![home[k]][k] = [file[home[k]][k] EXCEPT
                                             !.body = Value(k, n), !.lately = TRUE]]
  BY HomeShard DEF Written, DiskTyped, Files

(* Files that differ in when they were used, or in what the disk lost.        *)
Alike(f, g) ==
    /\ f = None <=> g = None
    /\ f # None => /\ f.sum = g.sum /\ (f.body = None <=> g.body = None)
                   /\ Size(f) = Size(g)

LEMMA AlikeEdit ==
    ASSUME DiskTyped, NEW s \in 1 .. Shards, NEW k \in Keys, NEW f \in Files,
           file' = [file EXCEPT ![s][k] = f], Alike(file[s][k], f)
    PROVE  /\ file' \in [1 .. Shards -> [Keys -> Files \union {None}]]
           /\ \A t \in 1 .. Shards, q \in Keys : Alike(file[t][q], file'[t][q])
<1>1. ASSUME NEW t \in 1 .. Shards, NEW q \in Keys
      PROVE  Alike(file[t][q], file'[t][q])
  <2>1. CASE t = s /\ q = k
      BY <2>1, FileEdit
  <2>2. CASE t # s \/ q # k
    <3>1. file'[t][q] = file[t][q]
        BY <2>2, FileEdit
    <3> QED  BY <3>1 DEF Alike
  <2> QED  BY <2>1, <2>2
<1> QED  BY <1>1, FileEdit

LEMMA AlikeEdits ==
    ASSUME DiskTyped,
           \/ \E r \in Readers, k \in Keys : OpenToRead(r, k)
           \/ \E s \in 1 .. Shards, k \in Keys : Corrupt(s, k)
           \/ TimePasses
    PROVE  /\ file' \in [1 .. Shards -> [Keys -> Files \union {None}]]
           /\ \A s \in 1 .. Shards, k \in Keys : Alike(file[s][k], file'[s][k])
<1>1. ASSUME NEW r \in Readers, NEW k \in Keys, OpenToRead(r, k)
      PROVE  /\ file' \in [1 .. Shards -> [Keys -> Files \union {None}]]
             /\ \A s \in 1 .. Shards, q \in Keys : Alike(file[s][q], file'[s][q])
  <2>1. home[k] \in 1 .. Shards
      BY HomeShard
  <2>2. PICK f \in Files : f = file[home[k]][k]
      BY <1>1, <2>1 DEF OpenToRead, DiskTyped
  <2>3. file' = [file EXCEPT ![home[k]][k] = [f EXCEPT !.lately = TRUE]]
      BY <1>1, <2>1, <2>2 DEF OpenToRead, DiskTyped
  <2>4. [f EXCEPT !.lately = TRUE] \in Files
      BY DEF Files
  <2>5. Alike(f, [f EXCEPT !.lately = TRUE])
      BY <2>4, NoneApart DEF Alike, Size, Files
  <2> QED  BY <2>1, <2>2, <2>3, <2>4, <2>5, AlikeEdit
<1>2. ASSUME NEW s \in 1 .. Shards, NEW k \in Keys, Corrupt(s, k)
      PROVE  /\ file' \in [1 .. Shards -> [Keys -> Files \union {None}]]
             /\ \A t \in 1 .. Shards, q \in Keys : Alike(file[t][q], file'[t][q])
  <2>1. PICK f \in Files : f = file[s][k] /\ f.body # None
      BY <1>2 DEF Corrupt, DiskTyped
  <2>2. PICK b \in Bodies : b = f.body
      BY <2>1 DEF Files
  <2> DEFINE c == [b EXCEPT !.key = Junk]
             g == [f EXCEPT !.body = c]
  <2>3. c \in Bodies /\ c.size = b.size
      BY DEF Bodies
  <2>4. g \in Files
      BY <2>3 DEF Files
  <2>5. file' = [file EXCEPT ![s][k] = g]
      BY <1>2, <2>1, <2>2 DEF Corrupt, DiskTyped
  <2>6. g.sum = f.sum /\ g.body = c
      BY DEF Files
  <2>7. Alike(f, g)
    <3> HIDE DEF c, g
    <3> QED  BY <2>1, <2>2, <2>3, <2>4, <2>6, NoneApart DEF Alike, Size
  <2> HIDE DEF c, g
  <2> QED  BY <2>1, <2>4, <2>5, <2>7, AlikeEdit
<1>3. CASE TimePasses
  <2>1. \A s \in 1 .. Shards, k \in Keys :
          file'[s][k] = IF file[s][k] = None THEN None
                        ELSE [file[s][k] EXCEPT !.lately = FALSE]
      BY <1>3 DEF TimePasses
  <2>2. \A f \in Files : LET g == [f EXCEPT !.lately = FALSE]
                         IN g \in Files /\ g.sum = f.sum /\ g.body = f.body
      BY DEF Files
  <2>3. \A f \in Files : Alike(f, [f EXCEPT !.lately = FALSE])
      BY <2>2, NoneApart DEF Alike, Size
  <2>4. \A s \in 1 .. Shards, k \in Keys : file[s][k] # None => file[s][k] \in Files
      BY DEF DiskTyped
  <2>5. file' \in [1 .. Shards -> [Keys -> Files \union {None}]]
      BY <1>3, <2>2, <2>4 DEF TimePasses
  <2>6. ASSUME NEW s \in 1 .. Shards, NEW k \in Keys
        PROVE  Alike(file[s][k], file'[s][k])
    <3>1. CASE file[s][k] = None
        BY <2>1, <3>1 DEF Alike
    <3>2. CASE file[s][k] # None
      <4>1. file'[s][k] = [file[s][k] EXCEPT !.lately = FALSE]
          BY <2>1, <3>2
      <4>2. Alike(file[s][k], [file[s][k] EXCEPT !.lately = FALSE])
          BY <2>3, <2>4, <3>2
      <4> QED  BY <4>1, <4>2
    <3> QED  BY <3>1, <3>2
  <2> QED  BY <2>5, <2>6
<1> QED  BY <1>1, <1>2, <1>3

(* Sizes that EntryDesc may report.                                           *)
LEMMA SizeTyped ==
    ASSUME NEW k, NEW f \in Files, Headed(k, f)
    PROVE  /\ Size(f) \in {0, HeaderSize} \union {HeaderSize + n : n \in Sizes}
           /\ Size(f) \in Nat /\ Size(f) # NoSize
<1>1. f.body # None => f.body.size \in Sizes
    BY DEF Files, Bodies
<1>2. CASE f.body = None
    BY <1>2 DEF Size, HeaderSize, NoSize
<1>3. CASE f.body # None
  <2>1. Size(f) = HeaderSize + f.body.size
      BY <1>1, <1>3 DEF Headed, Size, HeaderSize
  <2>2. PICK n \in Sizes : n = f.body.size /\ n \in Nat
      BY <1>1, <1>3
  <2>3. Size(f) = HeaderSize + n
      BY <2>1, <2>2
  <2>4. Size(f) \in {HeaderSize + m : m \in Sizes}
      BY <2>3
  <2>5. Size(f) \in Nat /\ Size(f) # NoSize
      BY <2>2, <2>3 DEF HeaderSize, NoSize
  <2> QED  BY <2>4, <2>5
<1> QED  BY <1>2, <1>3

-----------------------------------------------------------------------------
(* Types.                                                                     *)

LEMMA DiskTypedStep ==
    ASSUME DiskTyped, FibersTyped, HeadersGenuine, ListsThere, [Next]_vars
    PROVE  DiskTyped'
<1>h. \A k \in Keys : home[k] \in 1 .. Shards
    BY HomeShard
<1>1. ASSUME NEW r \in Readers, NEW k \in Keys, OpenToRead(r, k) PROVE DiskTyped'
    BY <1>1, AlikeEdits DEF OpenToRead, DiskTyped
<1>2. ASSUME NEW s \in 1 .. Shards, NEW k \in Keys, Corrupt(s, k) PROVE DiskTyped'
    BY <1>2, AlikeEdits DEF Corrupt, DiskTyped
<1>3. CASE TimePasses
    BY <1>3, AlikeEdits DEF TimePasses, DiskTyped
<1>4. ASSUME NEW r \in Readers, Read(r) PROVE DiskTyped'
    BY <1>4 DEF Read, DiskTyped
<1>5. ASSUME NEW w \in Writers, NEW k \in Keys, NEW n \in Sizes, LockDir(w, k, n)
      PROVE  DiskTyped'
  <2>1. entries' \in [Keys -> {NoSize, 0, HeaderSize} \union {HeaderSize + m : m \in Sizes}]
      BY <1>5 DEF LockDir, DiskTyped
  <2>2. strays' \subseteq Keys
      BY <1>5 DEF LockDir, DiskTyped
  <2> QED  BY <1>5, <2>1, <2>2 DEF LockDir, DiskTyped
<1>6. ASSUME NEW w \in Writers, OpenToWrite(w) PROVE DiskTyped'
  <2>1. writer[w].key \in Keys
      BY <1>6 DEF OpenToWrite, FibersTyped
  <2>2. EmptyFile \in Files
      BY DEF EmptyFile, Files
  <2>3. file' \in [1 .. Shards -> [Keys -> Files \union {None}]]
      BY <1>6, <1>h, <2>1, <2>2, FileEdit DEF OpenToWrite
  <2> QED  BY <1>6, <2>3 DEF OpenToWrite, DiskTyped
<1>7. ASSUME NEW w \in Writers, OpenFails(w) PROVE DiskTyped'
  <2>1. entries' \in [Keys -> {NoSize, 0, HeaderSize} \union {HeaderSize + m : m \in Sizes}]
      BY <1>7 DEF OpenFails, DiskTyped
  <2> QED  BY <1>7, <2>1 DEF OpenFails, DiskTyped
<1>w. ASSUME NEW k \in Keys, NEW n \in Sizes, NEW part \in {"sum", "body"}
      PROVE  Written(k, part, n) \in [1 .. Shards -> [Keys -> Files \union {None}]]
  <2>1. CASE file[home[k]][k] = None
      BY <2>1 DEF Written, DiskTyped
  <2>2. CASE file[home[k]][k] # None
    <3>1. PICK f \in Files : f = file[home[k]][k]
        BY <1>h, <2>2 DEF DiskTyped
    <3>2. PICK g \in Files : Written(k, part, n) = [file EXCEPT ![home[k]][k] = g]
      <4>1. CASE part = "sum"
          BY <2>2, <3>1, <4>1, PartWritten, WrittenSum
      <4>2. CASE part = "body"
          BY <2>2, <3>1, <4>2, PartWritten, WrittenBody
      <4> QED  BY <4>1, <4>2
    <3> QED  BY <1>h, <3>2 DEF DiskTyped
  <2> QED  BY <2>1, <2>2
<1>8. ASSUME NEW w \in Writers, WriteFileHeader(w) PROVE DiskTyped'
  <2>1. writer[w].key \in Keys /\ writer[w].size \in Sizes
      BY <1>8 DEF WriteFileHeader, FibersTyped
  <2>2. file' \in [1 .. Shards -> [Keys -> Files \union {None}]]
      BY <1>8, <1>w, <2>1 DEF WriteFileHeader
  <2> QED  BY <1>8, <2>2 DEF WriteFileHeader, DiskTyped
<1>9. ASSUME NEW w \in Writers, WriteBody(w) PROVE DiskTyped'
  <2>1. writer[w].key \in Keys /\ writer[w].size \in Sizes
      BY <1>9 DEF WriteBody, FibersTyped
  <2>2. file' \in [1 .. Shards -> [Keys -> Files \union {None}]]
      BY <1>9, <1>w, <2>1 DEF WriteBody
  <2>3. entries' \in [Keys -> {NoSize, 0, HeaderSize} \union {HeaderSize + m : m \in Sizes}]
      BY <1>9, <2>1 DEF WriteBody, FileSize, DiskTyped
  <2> QED  BY <1>9, <2>2, <2>3 DEF WriteBody, DiskTyped
<1>10. CASE EnumerateToPurge \/ PurgeReturns \/ (\E e \in purge.list : FindBare(e))
    BY <1>10 DEF EnumerateToPurge, PurgeReturns, FindBare, DiskTyped
<1>u. ASSUME NEW s \in 1 .. Shards, NEW k \in Keys, Unlink(s, k)
      PROVE  file' \in [1 .. Shards -> [Keys -> Files \union {None}]]
    BY <1>u, FileEdit DEF Unlink
<1>11. ASSUME NEW e \in purge.list, PurgeOne(e) PROVE DiskTyped'
  <2>1. purge.at \in 1 .. Shards /\ e.key \in Keys
      BY <1>11 DEF PurgeOne, Oldest, FibersTyped, Listed
  <2>2. file' \in [1 .. Shards -> [Keys -> Files \union {None}]]
      BY <1>11, <1>u, <2>1 DEF PurgeOne
  <2>3. entries' \in [Keys -> {NoSize, 0, HeaderSize} \union {HeaderSize + m : m \in Sizes}]
      BY <1>11 DEF PurgeOne, EraseEntry, DiskTyped
  <2> QED  BY <1>11, <2>2, <2>3 DEF PurgeOne, DiskTyped
<1>12. CASE UnlinkBare
  <2>1. purge.at \in 1 .. Shards /\ purge.bare \in Keys
      BY <1>12 DEF UnlinkBare, FibersTyped, ListsThere
  <2>2. file' \in [1 .. Shards -> [Keys -> Files \union {None}]]
      BY <1>12, <1>u, <2>1 DEF UnlinkBare
  <2> QED  BY <1>12, <2>2 DEF UnlinkBare, DiskTyped
<1>13. ASSUME NEW h \in Homes, NEW action \in Actions, Start(h, action) PROVE DiskTyped'
  <2>1. load' \in [at : 1 .. Shards, left : SUBSET Keys, action : Actions]
    <3>1. InShard(1) \subseteq Keys /\ 1 \in 1 .. Shards
        BY DEF InShard
    <3> QED  BY <1>13, <3>1 DEF Start
  <2> QED  BY <1>13, <2>1 DEF Start, DiskTyped
<1>14. ASSUME NEW k \in Keys, LoadFile(k) PROVE DiskTyped'
  <2>1. PICK f \in Files : f = file[load.at][k] /\ load.at \in 1 .. Shards
      BY <1>14 DEF LoadFile, DiskTyped, ListsThere
  <2>2. Size(f) \in {0, HeaderSize} \union {HeaderSize + m : m \in Sizes}
    <3>1. Headed(k, f)
        BY <2>1, NoneApart DEF HeadersGenuine
    <3> QED  BY <3>1, SizeTyped
  <2>3. load' \in [at : 1 .. Shards, left : SUBSET Keys, action : Actions]
      BY <1>14 DEF LoadFile, DiskTyped
  <2>4. file' \in [1 .. Shards -> [Keys -> Files \union {None}]]
        /\ entries' \in [Keys -> {NoSize, 0, HeaderSize} \union {HeaderSize + m : m \in Sizes}]
    <3>1. CASE LoadInPlace(load.at, k)
        BY <2>1, <2>2, <3>1 DEF LoadInPlace, DiskTyped
    <3>2. CASE MoveMisplaced(load.at, k)
      <4>1. file' \in [1 .. Shards -> [Keys -> Files \union {None}]]
          BY <1>h, <2>1, <3>2 DEF MoveMisplaced, DiskTyped
      <4> QED  BY <2>1, <2>2, <3>2, <4>1 DEF MoveMisplaced, MovedEntry, DiskTyped
    <3>3. CASE DeleteMisplaced(load.at, k)
        BY <2>1, <3>3, FileEdit DEF DeleteMisplaced, DiskTyped
    <3>4. CASE IgnoreMisplaced(load.at, k)
        BY <3>4 DEF IgnoreMisplaced, DiskTyped
    <3> QED  BY <1>14, <3>1, <3>2, <3>3, <3>4 DEF LoadFile
  <2> QED  BY <1>14, <2>3, <2>4 DEF LoadFile, DiskTyped
<1>15. CASE LoadNextShard
  <2>1. load' \in [at : 1 .. Shards, left : SUBSET Keys, action : Actions]
    <3>1. \A s : InShard(s) \subseteq Keys
        BY DEF InShard
    <3>2. CASE load.at < Shards
      <4>1. load' = [load EXCEPT !.at = load.at + 1, !.left = InShard(load.at + 1)]
          BY <1>15, <3>2 DEF LoadNextShard
      <4>2. load.at + 1 \in 1 .. Shards
          BY <3>2 DEF DiskTyped
      <4> QED  BY <3>1, <4>1, <4>2 DEF DiskTyped
    <3>3. CASE ~(load.at < Shards)
        BY <1>15, <3>3 DEF LoadNextShard, IdleLoad, Actions
    <3> QED  BY <3>2, <3>3
  <2> QED  BY <1>15, <2>1 DEF LoadNextShard, DiskTyped
<1>16. CASE Crash
  <2>1. load' \in [at : 1 .. Shards, left : SUBSET Keys, action : Actions]
      BY <1>16 DEF Crash, IdleLoad, Actions
  <2> QED  BY <1>16, <2>1 DEF Crash, DiskTyped
<1>17. CASE UNCHANGED vars
    BY <1>17 DEF vars, DiskTyped
<1> QED  BY <1>1, <1>2, <1>3, <1>4, <1>5, <1>6, <1>7, <1>8, <1>9, <1>10, <1>11,
            <1>12, <1>13, <1>14, <1>15, <1>16, <1>17 DEF Next, Put

ReaderType == [at : {"idle", "reading"}, key : Keys \union {None},
               orphan : Files \union {None}]
WriterType == [at : {"idle", "locked", "opened", "headed"},
               key : Keys \union {None}, size : Sizes \union {0}]
PurgeType == [at : 0 .. Shards, list : SUBSET Listed, bare : Keys \union {None}]

ReadersTyped == /\ reader \in [Readers -> ReaderType]
                /\ \A r \in Readers : reader[r].at # "idle" => reader[r].key \in Keys
WritersTyped == /\ writer \in [Writers -> WriterType]
                /\ \A w \in Writers : writer[w].at # "idle" => /\ writer[w].key \in Keys
                                                               /\ writer[w].size \in Sizes
PurgeTyped == purge \in PurgeType

LEMMA FibersParts == FibersTyped <=> ReadersTyped /\ WritersTyped /\ PurgeTyped
  BY DEF FibersTyped, ReadersTyped, WritersTyped, PurgeTyped, ReaderType, WriterType,
         PurgeType

(* What Purge has found is in a shard.                                        *)
LEMMA FoundFiles ==
    ASSUME FibersTyped, ListsThere
    PROVE  /\ \A e \in purge.list : /\ purge.at \in 1 .. Shards /\ e.key \in Keys
                                    /\ file[purge.at][e.key] # None
           /\ purge.bare # None => /\ purge.at \in 1 .. Shards /\ purge.bare \in Keys
                                   /\ file[purge.at][purge.bare] # None
<1>1. purge.at \in 0 .. Shards /\ purge.list \subseteq Listed
      /\ purge.bare \in Keys \union {None}
    BY DEF FibersTyped
<1>2. purge.list # {} \/ purge.bare # None => purge.at # 0
    BY DEF ListsThere
<1>3. \A e \in purge.list : e.key \in Keys
    BY <1>1 DEF Listed
<1>4. purge.at # 0 => purge.at \in 1 .. Shards
    BY <1>1
<1>5. ASSUME NEW e \in purge.list
      PROVE  purge.at \in 1 .. Shards /\ e.key \in Keys /\ file[purge.at][e.key] # None
  <2>1. purge.list # {}
      OBVIOUS
  <2>2. file[purge.at][e.key] # None
      BY DEF ListsThere
  <2> QED  BY <1>2, <1>3, <1>4, <2>1, <2>2
<1>6. ASSUME purge.bare # None
      PROVE  purge.at \in 1 .. Shards /\ purge.bare \in Keys
             /\ file[purge.at][purge.bare] # None
  <2>1. file[purge.at][purge.bare] # None
      BY <1>6 DEF ListsThere
  <2>2. purge.bare \in Keys
      BY <1>1, <1>6
  <2> QED  BY <1>2, <1>4, <1>6, <2>1, <2>2
<1> QED  BY <1>5, <1>6

(* What a purge does to the readers of a file.                                *)
LEMMA UnlinkReaders ==
    ASSUME DiskTyped, ReadersTyped, NEW s \in 1 .. Shards, NEW k \in Keys, Unlink(s, k),
           file[s][k] # None
    PROVE  /\ ReadersTyped'
           /\ \A r \in Readers : /\ reader'[r].at = reader[r].at
                                 /\ reader'[r].key = reader[r].key
                                 /\ \/ reader'[r].orphan = reader[r].orphan
                                    \/ /\ reader[r].at = "reading" /\ reader[r].key = k
                                       /\ s = home[k] /\ reader[r].orphan = None
                                       /\ reader'[r].orphan = file[s][k]
           /\ \A r \in Readers : reader'[r].at = "reading" /\ reader'[r].orphan = None
                                   => reader[r].orphan = None
                                      /\ ~(reader[r].key = k /\ s = home[k])
<1>1. PICK f \in Files : f = file[s][k]
    BY DEF DiskTyped
<1>2. f # None
    BY NoneApart
<1>3. \A r \in Readers :
        reader'[r] = IF reader[r].at = "reading" /\ reader[r].key = k /\ s = home[k]
                          /\ reader[r].orphan = None
                       THEN [reader[r] EXCEPT !.orphan = f] ELSE reader[r]
    BY <1>1 DEF Unlink
<1>4. \A r \in Readers : reader[r] \in ReaderType
    BY DEF ReadersTyped
<1>5. \A x \in ReaderType : LET y == [x EXCEPT !.orphan = f]
                            IN y \in ReaderType /\ y.at = x.at /\ y.key = x.key /\ y.orphan = f
    BY DEF ReaderType
<1>6. DOMAIN reader' = Readers /\ reader' = [r \in Readers |-> reader'[r]]
    BY DEF Unlink
<1>7. reader' \in [Readers -> ReaderType]
    BY <1>3, <1>4, <1>5, <1>6
<1> DEFINE Loses(r) == /\ reader[r].at = "reading" /\ reader[r].key = k
                       /\ s = home[k] /\ reader[r].orphan = None
<1>8. ASSUME NEW r \in Readers
      PROVE  /\ reader'[r].at = reader[r].at /\ reader'[r].key = reader[r].key
             /\ reader'[r].orphan = reader[r].orphan \/ (Loses(r) /\ reader'[r].orphan = f)
             /\ reader'[r].at = "reading" /\ reader'[r].orphan = None =>
                  reader[r].orphan = None /\ ~(reader[r].key = k /\ s = home[k])
  <2>1. CASE Loses(r)
    <3>1. reader'[r] = [reader[r] EXCEPT !.orphan = f]
        BY <1>3, <2>1
    <3>2. /\ reader'[r].at = reader[r].at /\ reader'[r].key = reader[r].key
          /\ reader'[r].orphan = f
        BY <1>4, <1>5, <3>1
    <3> QED  BY <1>2, <2>1, <3>2
  <2>2. CASE ~Loses(r)
    <3>1. reader'[r] = reader[r]
        BY <1>3, <2>2
    <3> QED  BY <2>2, <3>1
  <2> QED  BY <2>1, <2>2
<1>10. ReadersTyped'
    BY <1>7, <1>8 DEF ReadersTyped
<1> QED  BY <1>1, <1>8, <1>10

LEMMA PurgeSteps ==
    ASSUME DiskTyped, FibersTyped, HeadersGenuine, ListsThere
    PROVE  /\ EnumerateToPurge => PurgeTyped'
           /\ PurgeReturns => PurgeTyped'
           /\ UnlinkBare => PurgeTyped'
           /\ \A e \in purge.list : PurgeOne(e) \/ FindBare(e) => PurgeTyped'
<1>t. PurgeTyped
    BY FibersParts
<1>1. ASSUME EnumerateToPurge PROVE PurgeTyped'
  <2>1. PICK s \in 1 .. Shards : s = purge.at + 1
      BY <1>1, <1>t DEF EnumerateToPurge, PurgeTyped, PurgeType
  <2>2. EnumerateCacheEntries(s) \subseteq Listed
    <3>1. ASSUME NEW k \in InShard(s)
          PROVE  [key |-> k, size |-> Size(file[s][k]), lately |-> file[s][k].lately]
                   \in Listed
      <4>1. PICK f \in Files : f = file[s][k] /\ k \in Keys
          BY DEF InShard, DiskTyped
      <4>2. Headed(k, f)
          BY <4>1, NoneApart DEF HeadersGenuine
      <4>3. Size(f) \in Nat /\ f.lately \in BOOLEAN
          BY <4>2, SizeTyped DEF Files
      <4> QED  BY <4>1, <4>3 DEF Listed
    <3> QED  BY <3>1 DEF EnumerateCacheEntries
  <2>3. purge' = [at |-> s, list |-> EnumerateCacheEntries(s), bare |-> None]
      BY <1>1, <2>1 DEF EnumerateToPurge
  <2>4. s \in 0 .. Shards
      OBVIOUS
  <2> QED  BY <2>2, <2>3, <2>4 DEF PurgeTyped, PurgeType
<1>2. ASSUME PurgeReturns PROVE PurgeTyped'
    BY <1>2 DEF PurgeReturns, IdlePurge, PurgeTyped, PurgeType
<1>3. ASSUME UnlinkBare PROVE PurgeTyped'
    BY <1>3, <1>t DEF UnlinkBare, PurgeTyped, PurgeType
<1>4. ASSUME NEW e \in purge.list, PurgeOne(e) \/ FindBare(e) PROVE PurgeTyped'
  <2>1. e.key \in Keys
      BY <1>t DEF PurgeTyped, PurgeType, Listed
  <2> QED  BY <1>4, <1>t, <2>1 DEF PurgeOne, FindBare, PurgeTyped, PurgeType
<1> QED  BY <1>1, <1>2, <1>3, <1>4

LEMMA FibersTypedStep ==
    ASSUME DiskTyped, FibersTyped, HeadersGenuine, ListsThere, [Next]_vars
    PROVE  FibersTyped'
<1>t. ReadersTyped /\ WritersTyped /\ PurgeTyped
    BY FibersParts
<1> SUFFICES ReadersTyped' /\ WritersTyped' /\ PurgeTyped'
  <2>1. FibersTyped' <=> ReadersTyped' /\ WritersTyped' /\ PurgeTyped'
      BY FibersParts, PTL
  <2> QED  BY <2>1
<1>r. ASSUME UNCHANGED reader PROVE ReadersTyped'
    BY <1>r, <1>t DEF ReadersTyped
<1>w. ASSUME UNCHANGED writer PROVE WritersTyped'
    BY <1>w, <1>t DEF WritersTyped
<1>p. ASSUME UNCHANGED purge PROVE PurgeTyped'
    BY <1>p, <1>t DEF PurgeTyped
<1>1. ASSUME NEW r \in Readers, NEW k \in Keys, OpenToRead(r, k)
      PROVE  ReadersTyped' /\ WritersTyped' /\ PurgeTyped'
  <2>1. [at |-> "reading", key |-> k, orphan |-> None] \in ReaderType
      BY DEF ReaderType
  <2>2. ReadersTyped'
      BY <1>1, <1>t, <2>1 DEF OpenToRead, ReadersTyped
  <2> QED  BY <1>1, <1>w, <1>p, <2>2 DEF OpenToRead
<1>2. ASSUME NEW r \in Readers, Read(r)
      PROVE  ReadersTyped' /\ WritersTyped' /\ PurgeTyped'
  <2>1. IdleReader \in ReaderType /\ IdleReader.at = "idle"
      BY DEF IdleReader, ReaderType
  <2>2. ReadersTyped'
      BY <1>2, <1>t, <2>1 DEF Read, ReadersTyped
  <2> QED  BY <1>2, <1>w, <1>p, <2>2 DEF Read
<1>3. ASSUME NEW w \in Writers, NEW k \in Keys, NEW n \in Sizes, LockDir(w, k, n)
      PROVE  ReadersTyped' /\ WritersTyped' /\ PurgeTyped'
  <2>1. [at |-> "locked", key |-> k, size |-> n] \in WriterType
      BY DEF WriterType
  <2>2. WritersTyped'
      BY <1>3, <1>t, <2>1 DEF LockDir, WritersTyped
  <2> QED  BY <1>3, <1>r, <1>p, <2>2 DEF LockDir
<1>4. ASSUME NEW w \in Writers, OpenToWrite(w) \/ WriteFileHeader(w)
      PROVE  ReadersTyped' /\ WritersTyped' /\ PurgeTyped'
  <2>1. PICK at \in {"opened", "headed"} :
          writer' = [writer EXCEPT ![w].at = at] /\ writer[w].at # "idle"
      BY <1>4 DEF OpenToWrite, WriteFileHeader
  <2>2. PICK x \in WriterType : x = writer[w]
      BY <1>t DEF WritersTyped
  <2>3. [x EXCEPT !.at = at] \in WriterType
      BY DEF WriterType
  <2>4. writer' = [writer EXCEPT ![w] = [x EXCEPT !.at = at]]
      BY <1>t, <2>1, <2>2 DEF WritersTyped
  <2>5. WritersTyped'
      BY <1>t, <2>1, <2>2, <2>3, <2>4 DEF WritersTyped, WriterType
  <2> QED  BY <1>4, <1>r, <1>p, <2>5 DEF OpenToWrite, WriteFileHeader
<1>5. ASSUME NEW w \in Writers, OpenFails(w) \/ WriteBody(w)
      PROVE  ReadersTyped' /\ WritersTyped' /\ PurgeTyped'
  <2>1. IdleWriter \in WriterType /\ IdleWriter.at = "idle"
      BY DEF IdleWriter, WriterType
  <2>2. WritersTyped'
      BY <1>5, <1>t, <2>1 DEF OpenFails, WriteBody, WritersTyped
  <2> QED  BY <1>5, <1>r, <1>p, <2>2 DEF OpenFails, WriteBody
<1>6. CASE EnumerateToPurge \/ PurgeReturns \/ \E e \in purge.list : FindBare(e)
  <2>1. UNCHANGED <<reader, writer>>
      BY <1>6 DEF EnumerateToPurge, PurgeReturns, FindBare
  <2> QED  BY <1>6, <1>r, <1>w, <2>1, PurgeSteps
<1>7. ASSUME NEW e \in purge.list, PurgeOne(e)
      PROVE  ReadersTyped' /\ WritersTyped' /\ PurgeTyped'
  <2>1. purge.at \in 1 .. Shards /\ e.key \in Keys /\ file[purge.at][e.key] # None
      BY FoundFiles
  <2>2. ReadersTyped'
      BY <1>7, <1>t, <2>1, UnlinkReaders DEF PurgeOne
  <2> QED  BY <1>7, <1>w, <2>2, PurgeSteps DEF PurgeOne
<1>8. CASE UnlinkBare
  <2>1. purge.at \in 1 .. Shards /\ purge.bare \in Keys /\ file[purge.at][purge.bare] # None
      BY <1>8, FoundFiles DEF UnlinkBare
  <2>2. ReadersTyped'
      BY <1>8, <1>t, <2>1, UnlinkReaders DEF UnlinkBare
  <2> QED  BY <1>8, <1>w, <2>2, PurgeSteps DEF UnlinkBare
<1>9. CASE Crash
  <2>1. IdleReader \in ReaderType /\ IdleReader.at = "idle"
      BY DEF IdleReader, ReaderType
  <2>2. IdleWriter \in WriterType /\ IdleWriter.at = "idle"
      BY DEF IdleWriter, WriterType
  <2>3. IdlePurge \in PurgeType
      BY DEF IdlePurge, PurgeType
  <2> QED  BY <1>9, <2>1, <2>2, <2>3 DEF Crash, ReadersTyped, WritersTyped, PurgeTyped
<1>10. ASSUME UNCHANGED <<reader, writer, purge>>
       PROVE  ReadersTyped' /\ WritersTyped' /\ PurgeTyped'
    BY <1>10, <1>r, <1>w, <1>p
<1> QED  BY <1>1, <1>2, <1>3, <1>4, <1>5, <1>6, <1>7, <1>8, <1>9, <1>10
         DEF Next, Put, Start, LoadFile, LoadNextShard, Corrupt, TimePasses, vars

-----------------------------------------------------------------------------
(* The rest of the invariant, action by action.                               *)

Typed == DiskTyped /\ FibersTyped
Rest == /\ HeadersGenuine /\ OnlyServing /\ OneWriter /\ ReadersHaveFile
        /\ WritersProgress /\ ListsThere /\ BareWatched /\ EntriesTrue /\ LoadedSoFar

(* Readers come and go; files are used and lost, and keep their shape.        *)
LEMMA RestAlike ==
    ASSUME Typed, Rest, Typed',
           UNCHANGED <<up, home, entries, load, writer, purge, strays>>,
           \A s \in 1 .. Shards, k \in Keys : Alike(file[s][k], file'[s][k]),
           \A r \in Readers :
             \/ reader'[r] = reader[r]
             \/ reader'[r] = IdleReader
             \/ /\ up = "serving" /\ reader'[r].orphan = None
                /\ file[home[reader'[r].key]][reader'[r].key] # None
    PROVE  Rest'
<1> USE DEF Typed, Rest
<1>h. \A k \in Keys : home[k] \in 1 .. Shards
    BY HomeShard
<1>i. IdleReader.at = "idle" /\ IdleReader.orphan = None
    BY DEF IdleReader
<1>1. HeadersGenuine'
    BY <1>i DEF HeadersGenuine, Headed, Alike
<1>2. OnlyServing' /\ OneWriter'
    BY <1>i DEF OnlyServing, OneWriter
<1>3. ReadersHaveFile'
  <2> SUFFICES ASSUME NEW r \in Readers, reader'[r].at = "reading",
                      reader'[r].orphan = None
               PROVE  file'[home[reader'[r].key]][reader'[r].key] # None
      BY DEF ReadersHaveFile
  <2>1. reader'[r].key \in Keys
      BY DEF FibersTyped
  <2>2. file[home[reader'[r].key]][reader'[r].key] # None
      BY <1>i DEF ReadersHaveFile
  <2> QED  BY <1>h, <2>1, <2>2 DEF Alike
<1>4. WritersProgress'
  <2> SUFFICES ASSUME NEW w \in Writers, writer[w].at \in {"opened", "headed"}
               PROVE  LET f == file'[home[writer[w].key]][writer[w].key]
                      IN /\ f # None => /\ f.body = None
                                        /\ f.sum # None <=> writer[w].at = "headed"
                         /\ writer[w].key \notin strays => f # None
      BY DEF WritersProgress
  <2>1. writer[w].key \in Keys
      BY DEF FibersTyped
  <2> QED  BY <1>h, <2>1 DEF WritersProgress, Alike
<1>5. ListsThere'
  <2>1. \A e \in purge.list : purge.at \in 1 .. Shards /\ e.key \in Keys
      BY DEF FibersTyped, ListsThere, Listed
  <2>2. purge.bare # None => purge.at \in 1 .. Shards /\ purge.bare \in Keys
      BY DEF FibersTyped, ListsThere
  <2>3. load.at \in 1 .. Shards /\ load.left \subseteq Keys
      BY DEF DiskTyped
  <2> QED  BY <2>1, <2>2, <2>3 DEF ListsThere, Alike
<1>6. BareWatched'
    BY DEF BareWatched, Writing
<1>7. EntriesTrue'
    BY <1>h DEF EntriesTrue, Writing, Alike
<1>8. LoadedSoFar'
    BY <1>h DEF LoadedSoFar, LoadedPast, Alike
<1> QED  BY <1>1, <1>2, <1>3, <1>4, <1>5, <1>6, <1>7, <1>8

(* No file is touched, and no reader.                                         *)
LEMMA FilesKept ==
    ASSUME Rest, UNCHANGED <<home, file, reader>>
    PROVE  HeadersGenuine' /\ ReadersHaveFile'
  BY DEF Rest, HeadersGenuine, ReadersHaveFile

LEMMA RestLockDir ==
    ASSUME Typed, Rest, Typed', NEW w \in Writers, NEW k \in Keys, NEW n \in Sizes,
           LockDir(w, k, n)
    PROVE  Rest'
<1> USE DEF Typed, Rest
<1>1. /\ up = "serving" /\ writer[w].at = "idle"
      /\ writer'[w] = [at |-> "locked", key |-> k, size |-> n]
      /\ \A v \in Writers \ {w} : writer'[v] = writer[v]
      /\ UNCHANGED <<up, home, file, load, reader, purge>>
    BY DEF LockDir, FibersTyped
<1>2. \A v \in Writers : writer[v].at # "idle" => writer[v].key # k
    BY DEF LockDir, DirFree, Path
<1>3. /\ entries'[k] = IF entries[k] = NoSize THEN 0 ELSE entries[k]
      /\ \A q \in Keys \ {k} : entries'[q] = entries[q]
    BY DEF LockDir, DiskTyped
<1>4. /\ strays \ {k} \subseteq strays' /\ strays' \subseteq strays \union {k}
      /\ purge.at = home[k] /\ purge.bare = k => k \in strays'
    BY DEF LockDir
<1>5. OnlyServing'
    BY <1>1 DEF OnlyServing
<1>6. OneWriter'
    BY <1>1, <1>2 DEF OneWriter
<1>7. WritersProgress'
    BY <1>1, <1>2, <1>4 DEF WritersProgress
<1>8. ListsThere'
    BY <1>1 DEF ListsThere
<1>9. \A q \in Keys : Writing(q)' <=> Writing(q) \/ q = k
    BY <1>1 DEF Writing
<1>10. BareWatched'
    BY <1>1, <1>3, <1>4, <1>9 DEF BareWatched, FibersTyped
<1>11. EntriesTrue'
    BY <1>1, <1>3, <1>4, <1>9 DEF EntriesTrue
<1>12. LoadedSoFar'
    BY <1>1 DEF LoadedSoFar
<1> QED  BY <1>1, <1>5, <1>6, <1>7, <1>8, <1>10, <1>11, <1>12, FilesKept

LEMMA RestOpenFails ==
    ASSUME Typed, Rest, Typed', NEW w \in Writers, OpenFails(w)
    PROVE  Rest'
<1> USE DEF Typed, Rest
<1>i. IdleWriter.at = "idle"
    BY DEF IdleWriter
<1>1. /\ writer[w].at = "locked" /\ writer'[w] = IdleWriter
      /\ \A v \in Writers \ {w} : writer'[v] = writer[v]
      /\ UNCHANGED <<up, home, file, load, reader, purge, strays>>
    BY DEF OpenFails, FibersTyped
<1>2. PICK k \in Keys : k = writer[w].key
    BY <1>1 DEF FibersTyped
<1>3. entries'[k] = NoSize /\ \A q \in Keys \ {k} : entries'[q] = entries[q]
    BY <1>2 DEF OpenFails, DiskTyped
<1>s. up = "serving"
    BY <1>1 DEF OnlyServing
<1>4. OnlyServing' /\ OneWriter' /\ WritersProgress' /\ ListsThere' /\ LoadedSoFar'
    BY <1>i, <1>1, <1>s DEF OnlyServing, OneWriter, WritersProgress, ListsThere,
                            LoadedSoFar
<1>5. \A q \in Keys : q # k => (Writing(q)' <=> Writing(q))
    BY <1>i, <1>1, <1>2 DEF Writing
<1>6. Writing(k)
    BY <1>1, <1>2 DEF Writing
<1>7. BareWatched'
    BY <1>1, <1>3, <1>5, <1>6 DEF BareWatched, FibersTyped
<1>8. EntriesTrue'
    BY <1>1, <1>3, <1>5 DEF EntriesTrue
<1> QED  BY <1>1, <1>4, <1>7, <1>8, FilesKept

(* A Put writes to the file of its key, and to no other.                      *)
LEMMA RestWrites ==
    ASSUME Typed, Rest, Typed', NEW w \in Writers, NEW k \in Keys, k = writer[w].key,
           writer[w].at # "idle", writer'[w].key = k \/ writer'[w].at = "idle",
           \A v \in Writers \ {w} : writer'[v] = writer[v],
           \A s \in 1 .. Shards, q \in Keys :
             s # home[k] \/ q # k => file'[s][q] = file[s][q],
           file[home[k]][k] # None => file'[home[k]][k] # None,
           file'[home[k]][k] # None => Headed(k, file'[home[k]][k]),
           UNCHANGED <<up, home, load, reader, purge, strays>>
    PROVE  HeadersGenuine' /\ OnlyServing' /\ OneWriter' /\ ReadersHaveFile'
           /\ ListsThere' /\ LoadedSoFar'
<1> USE DEF Typed, Rest
<1>h. \A q \in Keys : home[q] \in 1 .. Shards
    BY HomeShard
<1>s. up = "serving"
    BY DEF OnlyServing
<1>1. HeadersGenuine'
    BY DEF HeadersGenuine
<1>2. OnlyServing' /\ LoadedSoFar'
    BY <1>s DEF OnlyServing, LoadedSoFar
<1>3. OneWriter'
    BY DEF OneWriter
<1>4. \A s \in 1 .. Shards, q \in Keys : file[s][q] # None => file'[s][q] # None
    OBVIOUS
<1>5. ReadersHaveFile'
  <2> SUFFICES ASSUME NEW r \in Readers, reader[r].at = "reading",
                      reader[r].orphan = None
               PROVE  file'[home[reader[r].key]][reader[r].key] # None
      BY DEF ReadersHaveFile
  <2>1. reader[r].key \in Keys
      BY DEF FibersTyped
  <2> QED  BY <1>h, <1>4, <2>1 DEF ReadersHaveFile
<1>6. ListsThere'
  <2>1. \A e \in purge.list : purge.at \in 1 .. Shards /\ e.key \in Keys
      BY DEF FibersTyped, ListsThere, Listed
  <2>2. purge.bare # None => purge.at \in 1 .. Shards /\ purge.bare \in Keys
      BY DEF FibersTyped, ListsThere
  <2> QED  BY <1>4, <1>s, <2>1, <2>2 DEF ListsThere
<1> QED  BY <1>1, <1>2, <1>3, <1>5, <1>6

LEMMA RestOpenToWrite ==
    ASSUME Typed, Rest, Typed', NEW w \in Writers, OpenToWrite(w)
    PROVE  Rest'
<1> USE DEF Typed
<1>1. PICK k \in Keys : k = writer[w].key
    BY DEF OpenToWrite, FibersTyped
<1>2. home[k] \in 1 .. Shards /\ EmptyFile \in Files /\ EmptyFile # None
      /\ EmptyFile.sum = None /\ EmptyFile.body = None
    BY HomeShard, NoneApart DEF EmptyFile, Files
<1>3. /\ file'[home[k]][k] = EmptyFile
      /\ \A s \in 1 .. Shards, q \in Keys :
           s # home[k] \/ q # k => file'[s][q] = file[s][q]
  <2>1. file' = [file EXCEPT ![home[k]][k] = EmptyFile]
      BY <1>1 DEF OpenToWrite
  <2>2. DiskTyped
      OBVIOUS
  <2> QED  BY <1>2, <2>1 DEF DiskTyped
<1>4. /\ writer[w].at = "locked" /\ writer'[w].at = "opened" /\ writer'[w].key = k
      /\ \A v \in Writers \ {w} : writer'[v] = writer[v]
      /\ UNCHANGED <<up, home, entries, load, reader, purge, strays>>
    BY <1>1 DEF OpenToWrite, FibersTyped
<1>5. HeadersGenuine' /\ OnlyServing' /\ OneWriter' /\ ReadersHaveFile'
      /\ ListsThere' /\ LoadedSoFar'
  <2>1. Headed(k, file'[home[k]][k])
      BY <1>2, <1>3 DEF Headed
  <2> QED  BY <1>1, <1>2, <1>3, <1>4, <2>1, RestWrites
<1> USE DEF Rest
<1>6. WritersProgress'
  <2> SUFFICES ASSUME NEW v \in Writers, writer'[v].at \in {"opened", "headed"}
               PROVE  LET f == file'[home[writer'[v].key]][writer'[v].key]
                      IN /\ f # None => /\ f.body = None
                                        /\ f.sum # None <=> writer'[v].at = "headed"
                         /\ writer'[v].key \notin strays => f # None
      BY <1>4 DEF WritersProgress
  <2>1. CASE v = w
      BY <1>2, <1>3, <1>4, <2>1
  <2>2. CASE v # w
    <3>1. writer'[v] = writer[v] /\ writer[v].key # k /\ writer[v].key \in Keys
        BY <1>1, <1>4, <2>2 DEF OneWriter, FibersTyped
    <3>2. file'[home[writer[v].key]][writer[v].key] = file[home[writer[v].key]][writer[v].key]
        BY <1>3, <3>1, HomeShard
    <3> QED  BY <3>1, <3>2 DEF WritersProgress
  <2> QED  BY <2>1, <2>2
<1>7. \A q \in Keys : Writing(q)' <=> Writing(q)
    BY <1>1, <1>4 DEF Writing
<1>8. BareWatched'
    BY <1>4, <1>7 DEF BareWatched, FibersTyped
<1>9. EntriesTrue'
  <2>1. Writing(k)
      BY <1>1, <1>4 DEF Writing
  <2> QED  BY <1>3, <1>4, <1>7, <2>1, HomeShard DEF EntriesTrue
<1> QED  BY <1>5, <1>6, <1>8, <1>9

(* What a step of a Put makes of its file.                                    *)
LEMMA WrittenFile ==
    ASSUME Typed, NEW k \in Keys, NEW n \in Sizes,
           file' = Written(k, "sum", n) \/ file' = Written(k, "body", n)
    PROVE  LET f == file[home[k]][k]
               g == file'[home[k]][k]
           IN  /\ \A s \in 1 .. Shards, q \in Keys :
                    s # home[k] \/ q # k => file'[s][q] = file[s][q]
               /\ f = None => g = None
               /\ f # None => g # None
               /\ f # None /\ file' = Written(k, "sum", n)
                    => g.sum # None /\ g.sum.key = k /\ g.body = f.body
               /\ f # None /\ file' = Written(k, "body", n)
                    => g.sum = f.sum /\ g.body # None /\ g.body.size = n
<1> USE DEF Typed
<1>h. home[k] \in 1 .. Shards
    BY HomeShard
<1>v. Value(k, n) \in Values /\ Value(k, n) # None /\ Value(k, n).key = k
      /\ Value(k, n).size = n
    BY NoneApart DEF Value, Values
<1>1. CASE file[home[k]][k] = None
    BY <1>1 DEF Written
<1>2. CASE file[home[k]][k] # None
  <2>1. PICK f \in Files : f = file[home[k]][k]
      BY <1>2, <1>h DEF DiskTyped
  <2> DEFINE hs == [f EXCEPT !.sum = Value(k, n), !.lately = TRUE]
             hb == [f EXCEPT !.body = Value(k, n), !.lately = TRUE]
  <2>2. hs \in Files /\ hb \in Files
      BY PartWritten
  <2>3. hs # None /\ hb # None
      BY <2>2, NoneApart
  <2>4. hs.sum = Value(k, n) /\ hs.body = f.body /\ hb.sum = f.sum /\ hb.body = Value(k, n)
      BY DEF Files
  <2>5. Written(k, "sum", n) = [file EXCEPT ![home[k]][k] = hs]
      BY <1>2, <2>1, WrittenSum
  <2>6. Written(k, "body", n) = [file EXCEPT ![home[k]][k] = hb]
      BY <1>2, <2>1, WrittenBody
  <2> HIDE DEF hs, hb
  <2>7. ASSUME file' = Written(k, "sum", n)
        PROVE  /\ file'[home[k]][k] = hs
               /\ \A s \in 1 .. Shards, q \in Keys :
                    s # home[k] \/ q # k => file'[s][q] = file[s][q]
      BY <1>h, <2>2, <2>5, <2>7, FileEdit
  <2>8. ASSUME file' = Written(k, "body", n)
        PROVE  /\ file'[home[k]][k] = hb
               /\ \A s \in 1 .. Shards, q \in Keys :
                    s # home[k] \/ q # k => file'[s][q] = file[s][q]
      BY <1>h, <2>2, <2>6, <2>8, FileEdit
  <2> QED  BY <1>2, <1>v, <2>1, <2>3, <2>4, <2>7, <2>8
<1> QED  BY <1>1, <1>2

LEMMA RestWriteHeader ==
    ASSUME Typed, Rest, Typed', NEW w \in Writers, WriteFileHeader(w)
    PROVE  Rest'
<1> USE DEF Typed
<1>1. PICK k \in Keys, n \in Sizes : k = writer[w].key /\ n = writer[w].size
    BY DEF WriteFileHeader, FibersTyped
<1>h. home[k] \in 1 .. Shards
    BY HomeShard
<1>2. file' = Written(k, "sum", n)
    BY <1>1 DEF WriteFileHeader
<1>3. /\ \A s \in 1 .. Shards, q \in Keys :
           s # home[k] \/ q # k => file'[s][q] = file[s][q]
      /\ file[home[k]][k] = None <=> file'[home[k]][k] = None
      /\ file[home[k]][k] # None =>
           /\ file'[home[k]][k].sum # None /\ file'[home[k]][k].sum.key = k
           /\ file'[home[k]][k].body = file[home[k]][k].body
    BY <1>2, WrittenFile
<1>4. /\ writer[w].at = "opened" /\ writer'[w].at = "headed" /\ writer'[w].key = k
      /\ \A v \in Writers \ {w} : writer'[v] = writer[v]
      /\ UNCHANGED <<up, home, entries, load, reader, purge, strays>>
    BY <1>1 DEF WriteFileHeader, FibersTyped
<1>5. HeadersGenuine' /\ OnlyServing' /\ OneWriter' /\ ReadersHaveFile'
      /\ ListsThere' /\ LoadedSoFar'
  <2>1. file'[home[k]][k] # None => Headed(k, file'[home[k]][k])
      BY <1>3 DEF Headed
  <2> QED  BY <1>1, <1>3, <1>4, <2>1, RestWrites
<1> USE DEF Rest
<1>6. WritersProgress'
  <2> SUFFICES ASSUME NEW v \in Writers, writer'[v].at \in {"opened", "headed"}
               PROVE  LET f == file'[home[writer'[v].key]][writer'[v].key]
                      IN /\ f # None => /\ f.body = None
                                        /\ f.sum # None <=> writer'[v].at = "headed"
                         /\ writer'[v].key \notin strays => f # None
      BY <1>4 DEF WritersProgress
  <2>1. CASE v = w
      BY <1>1, <1>3, <1>4, <2>1 DEF WritersProgress
  <2>2. CASE v # w
    <3>1. writer'[v] = writer[v] /\ writer[v].key # k /\ writer[v].key \in Keys
        BY <1>1, <1>4, <2>2 DEF OneWriter, FibersTyped
    <3>2. file'[home[writer[v].key]][writer[v].key] = file[home[writer[v].key]][writer[v].key]
        BY <1>3, <3>1, HomeShard
    <3> QED  BY <3>1, <3>2 DEF WritersProgress
  <2> QED  BY <2>1, <2>2
<1>7. \A q \in Keys : Writing(q)' <=> Writing(q)
    BY <1>1, <1>4 DEF Writing
<1>8. BareWatched'
    BY <1>4, <1>7 DEF BareWatched, FibersTyped
<1>9. EntriesTrue'
  <2>1. Writing(k)
      BY <1>1, <1>4 DEF Writing
  <2> QED  BY <1>3, <1>4, <1>7, <2>1, HomeShard DEF EntriesTrue
<1> QED  BY <1>5, <1>6, <1>8, <1>9

LEMMA RestWriteBody ==
    ASSUME Typed, Rest, Typed', NEW w \in Writers, WriteBody(w)
    PROVE  Rest'
<1> USE DEF Typed
<1>i. IdleWriter.at = "idle"
    BY DEF IdleWriter
<1>1. PICK k \in Keys, n \in Sizes : k = writer[w].key /\ n = writer[w].size
    BY DEF WriteBody, FibersTyped
<1>h. home[k] \in 1 .. Shards
    BY HomeShard
<1>2. file' = Written(k, "body", n)
    BY <1>1 DEF WriteBody
<1>3. /\ \A s \in 1 .. Shards, q \in Keys :
           s # home[k] \/ q # k => file'[s][q] = file[s][q]
      /\ file[home[k]][k] = None <=> file'[home[k]][k] = None
      /\ file[home[k]][k] # None =>
           /\ file'[home[k]][k].sum = file[home[k]][k].sum
           /\ file'[home[k]][k].body # None /\ file'[home[k]][k].body.size = n
    BY <1>2, WrittenFile
<1>4. /\ writer[w].at = "headed" /\ writer'[w].at = "idle"
      /\ \A v \in Writers \ {w} : writer'[v] = writer[v]
      /\ UNCHANGED <<up, home, load, reader, purge, strays>>
    BY <1>1, <1>i DEF WriteBody, FibersTyped
<1>e. /\ entries'[k] = HeaderSize + n
      /\ \A q \in Keys \ {k} : entries'[q] = entries[q]
    BY <1>1 DEF WriteBody, FileSize, DiskTyped
<1>5. file[home[k]][k] # None => file[home[k]][k].sum # None
    BY <1>1, <1>4 DEF Rest, WritersProgress
<1>6. HeadersGenuine' /\ OnlyServing' /\ OneWriter' /\ ReadersHaveFile'
      /\ ListsThere' /\ LoadedSoFar'
  <2>1. file'[home[k]][k] # None => Headed(k, file'[home[k]][k])
      BY <1>h, <1>3, <1>5 DEF Rest, HeadersGenuine, Headed
  <2> QED  BY <1>1, <1>3, <1>4, <2>1, RestWrites
<1> USE DEF Rest
<1>7. WritersProgress'
  <2> SUFFICES ASSUME NEW v \in Writers, writer'[v].at \in {"opened", "headed"}
               PROVE  LET f == file'[home[writer'[v].key]][writer'[v].key]
                      IN /\ f # None => /\ f.body = None
                                        /\ f.sum # None <=> writer'[v].at = "headed"
                         /\ writer'[v].key \notin strays => f # None
      BY <1>4 DEF WritersProgress
  <2>1. writer'[v] = writer[v] /\ writer[v].key # k /\ writer[v].key \in Keys
      BY <1>1, <1>4 DEF OneWriter, FibersTyped
  <2>2. file'[home[writer[v].key]][writer[v].key] = file[home[writer[v].key]][writer[v].key]
      BY <1>3, <2>1, HomeShard
  <2> QED  BY <2>1, <2>2 DEF WritersProgress
<1>8. \A q \in Keys : q # k => (Writing(q)' <=> Writing(q))
    BY <1>1, <1>4 DEF Writing
<1>9. Writing(k)
    BY <1>1, <1>4 DEF Writing
<1>10. BareWatched'
    BY <1>4, <1>e, <1>8, <1>9 DEF BareWatched, FibersTyped
<1>11. EntriesTrue'
  <2>1. file'[home[k]][k] = None => k \in strays
      BY <1>1, <1>3, <1>4 DEF WritersProgress
  <2>2. file'[home[k]][k] # None => Size(file'[home[k]][k]) = HeaderSize + n
      BY <1>3, <1>5 DEF Size
  <2>3. ASSUME NEW q \in Keys, entries'[q] # NoSize, ~Writing(q)'
        PROVE  /\ file'[home[q]][q] # None => entries'[q] = Size(file'[home[q]][q])
               /\ file'[home[q]][q] = None => q \in strays
    <3>1. CASE q = k
        BY <1>e, <2>1, <2>2, <2>3, <3>1
    <3>2. CASE q # k
        BY <1>3, <1>e, <1>8, <2>3, <3>2, HomeShard DEF EntriesTrue
    <3> QED  BY <3>1, <3>2
  <2> QED  BY <1>4, <2>3 DEF EntriesTrue
<1> QED  BY <1>6, <1>7, <1>10, <1>11

(* Purge looks at a shard, is done with the last, or finds a bare file.       *)
LEMMA RestPurgeLists ==
    ASSUME Typed, Rest, Typed',
           EnumerateToPurge \/ PurgeReturns \/ \E e \in purge.list : FindBare(e)
    PROVE  Rest'
<1> USE DEF Typed, Rest
<1>1. UNCHANGED <<up, home, file, entries, load, reader, writer, strays>>
    BY DEF EnumerateToPurge, PurgeReturns, FindBare
<1>2. OneWriter' /\ WritersProgress' /\ EntriesTrue' /\ LoadedSoFar'
    BY <1>1 DEF OneWriter, WritersProgress, EntriesTrue, LoadedSoFar, LoadedPast, Writing
<1>3. CASE EnumerateToPurge
  <2>1. PICK s \in 1 .. Shards : s = purge.at + 1
      BY <1>3 DEF EnumerateToPurge, FibersTyped
  <2>2. purge' = [at |-> s, list |-> EnumerateCacheEntries(s), bare |-> None]
      BY <1>3, <2>1 DEF EnumerateToPurge
  <2>3. up = "serving"
      BY <1>3 DEF EnumerateToPurge
  <2>4. \A e \in EnumerateCacheEntries(s) :
          /\ file[s][e.key] # None
          /\ e = [key |-> e.key, size |-> Size(file[s][e.key]),
                  lately |-> file[s][e.key].lately]
      BY DEF EnumerateCacheEntries, InShard
  <2>5. \A e, o \in EnumerateCacheEntries(s) : e.key = o.key => e = o
      BY <2>4
  <2>6. ListsThere'
      BY <1>1, <2>2, <2>3, <2>4, <2>5 DEF ListsThere
  <2>7. OnlyServing' /\ BareWatched'
      BY <1>1, <2>2, <2>3 DEF OnlyServing, BareWatched
  <2> QED  BY <1>1, <1>2, <2>6, <2>7, FilesKept
<1>4. CASE PurgeReturns
  <2>1. purge'.at = 0 /\ purge'.list = {} /\ purge'.bare = None
      BY <1>4 DEF PurgeReturns, IdlePurge
  <2>2. ListsThere' /\ OnlyServing' /\ BareWatched'
      BY <1>1, <2>1 DEF ListsThere, OnlyServing, BareWatched
  <2> QED  BY <1>1, <1>2, <2>2, FilesKept
<1>5. ASSUME NEW e \in purge.list, FindBare(e) PROVE Rest'
  <2>1. /\ purge'.at = purge.at /\ purge'.list = purge.list \ {e}
        /\ purge'.bare = e.key /\ purge.at # 0 /\ e.key \in Keys
    <3>1. e.key \in Keys /\ purge.at # 0
        BY <1>5, FoundFiles DEF FindBare, Oldest
    <3>2. purge' = [purge EXCEPT !.list = purge.list \ {e}, !.bare = e.key]
        BY <1>5 DEF FindBare
    <3> QED  BY <3>1, <3>2 DEF FibersTyped
  <2>2. ListsThere'
    <3>1. \A o \in purge'.list : /\ file'[purge'.at][o.key] # None
                                 /\ o.key # purge'.bare
      <4>1. \A o \in purge'.list : o \in purge.list /\ o # e
          BY <2>1
      <4>2. \A o \in purge.list : file[purge.at][o.key] # None
          BY FoundFiles
      <4>3. \A o \in purge.list : o # e => o.key # e.key
          BY DEF ListsThere
      <4> QED  BY <1>1, <2>1, <4>1, <4>2, <4>3
    <3>2. \A d, o \in purge'.list : d.key = o.key => d = o
        BY <2>1 DEF ListsThere
    <3>3. file'[purge'.at][purge'.bare] # None
        BY <1>1, <2>1, FoundFiles
    <3>4. up' = "loading" => \A k \in load'.left : file'[load'.at][k] # None
        BY <1>1 DEF ListsThere
    <3> QED  BY <2>1, <3>1, <3>2, <3>3, <3>4 DEF ListsThere
  <2>3. OnlyServing'
      BY <1>1, <2>1 DEF OnlyServing
  <2>4. BareWatched'
    <3> SUFFICES ASSUME purge.at = home[e.key]
                 PROVE  entries[e.key] = NoSize /\ ~Writing(e.key)
        BY <1>1, <2>1 DEF BareWatched, Writing
    <3>1. entries[e.key] = NoSize
        BY <1>5 DEF FindBare, HasEntry
    <3>2. ~Writing(e.key)
        BY <1>5 DEF FindBare, Oldest, DirFree, Path, Writing
    <3> QED  BY <3>1, <3>2
  <2> QED  BY <1>1, <1>2, <2>2, <2>3, <2>4, FilesKept
<1> QED  BY <1>3, <1>4, <1>5

(* A file goes: nobody is writing it, or who does is a stray.                 *)
LEMMA RestUnlink ==
    ASSUME Typed, Rest, Typed', NEW s \in 1 .. Shards, NEW k \in Keys, Unlink(s, k),
           UNCHANGED <<up, home, load, writer, strays>>,
           s = purge.at, file[s][k] # None,
           s = home[k] => k \in strays \/ (entries'[k] = NoSize /\ ~Writing(k)),
           s # home[k] => entries'[k] = entries[k],
           \A q \in Keys \ {k} : entries'[q] = entries[q],
           purge'.at = purge.at, purge'.list \subseteq purge.list,
           \A e \in purge'.list : e.key # k,
           purge'.bare = None
    PROVE  Rest'
<1> USE DEF Typed, Rest
<1>h. \A q \in Keys : home[q] \in 1 .. Shards
    BY HomeShard
<1>s. up = "serving"
    BY DEF OnlyServing
<1>t. ReadersTyped
    BY FibersParts
<1>1. /\ file'[s][k] = None
      /\ \A t \in 1 .. Shards, q \in Keys : t # s \/ q # k => file'[t][q] = file[t][q]
    BY DEF Unlink, DiskTyped
<1>2. HeadersGenuine'
  <2>1. \A t \in 1 .. Shards, q \in Keys :
          file'[t][q] # None => Headed(q, file'[t][q])
      BY <1>1 DEF HeadersGenuine
  <2>2. ASSUME NEW r \in Readers, reader'[r].orphan # None
        PROVE  Headed(reader'[r].key, reader'[r].orphan)
      BY <1>t, <2>2, UnlinkReaders DEF HeadersGenuine
  <2> QED  BY <2>1, <2>2 DEF HeadersGenuine
<1>3. OnlyServing' /\ OneWriter' /\ LoadedSoFar' /\ BareWatched'
    BY <1>s DEF OnlyServing, OneWriter, LoadedSoFar, BareWatched
<1>4. ReadersHaveFile'
  <2> SUFFICES ASSUME NEW r \in Readers, reader'[r].at = "reading",
                      reader'[r].orphan = None
               PROVE  file'[home[reader'[r].key]][reader'[r].key] # None
      BY DEF ReadersHaveFile
  <2>1. /\ reader[r].at = "reading" /\ reader[r].orphan = None
        /\ reader'[r].key = reader[r].key /\ ~(reader[r].key = k /\ s = home[k])
      BY <1>t, UnlinkReaders
  <2>2. reader[r].key \in Keys
      BY <2>1 DEF FibersTyped
  <2> QED  BY <1>1, <1>h, <2>1, <2>2 DEF ReadersHaveFile
<1>5. WritersProgress'
  <2> SUFFICES ASSUME NEW w \in Writers, writer[w].at \in {"opened", "headed"}
               PROVE  LET f == file'[home[writer[w].key]][writer[w].key]
                      IN /\ f # None => /\ f.body = None
                                        /\ f.sum # None <=> writer[w].at = "headed"
                         /\ writer[w].key \notin strays => f # None
      BY DEF WritersProgress
  <2>1. writer[w].key \in Keys
      BY DEF FibersTyped
  <2>2. CASE writer[w].key = k /\ s = home[k]
    <3>1. Writing(k)
        BY <2>2 DEF Writing
    <3> QED  BY <1>1, <2>2, <3>1
  <2>3. CASE ~(writer[w].key = k /\ s = home[k])
    <3>1. file'[home[writer[w].key]][writer[w].key]
            = file[home[writer[w].key]][writer[w].key]
        BY <1>1, <1>h, <2>1, <2>3
    <3> QED  BY <3>1 DEF WritersProgress
  <2> QED  BY <2>2, <2>3
<1>6. ListsThere'
  <2>1. \A e \in purge.list : e.key \in Keys
      BY DEF FibersTyped, Listed
  <2> QED  BY <1>1, <1>s, <2>1 DEF ListsThere
<1>7. EntriesTrue'
  <2> SUFFICES ASSUME NEW q \in Keys, entries'[q] # NoSize, ~Writing(q)
               PROVE  /\ file'[home[q]][q] # None => entries'[q] = Size(file'[home[q]][q])
                      /\ file'[home[q]][q] = None => q \in strays
      BY DEF EntriesTrue, Writing
  <2>1. CASE q = k /\ s = home[k]
      BY <1>1, <2>1
  <2>2. CASE ~(q = k /\ s = home[k])
    <3>1. entries'[q] = entries[q]
        BY <2>2
    <3>2. file'[home[q]][q] = file[home[q]][q]
        BY <1>1, <1>h, <2>2
    <3> QED  BY <3>1, <3>2 DEF EntriesTrue
  <2> QED  BY <2>1, <2>2
<1> QED  BY <1>2, <1>3, <1>4, <1>5, <1>6, <1>7

LEMMA RestPurgeOne ==
    ASSUME Typed, Rest, Typed', NEW e \in purge.list, PurgeOne(e)
    PROVE  Rest'
<1>1. /\ purge.at \in 1 .. Shards /\ e.key \in Keys /\ purge.bare = None
      /\ file[purge.at][e.key] # None
    BY FoundFiles DEF Typed, Rest, PurgeOne, Oldest
<1>2. purge'.at = purge.at /\ purge'.bare = None /\ purge'.list = purge.list \ {e}
    BY <1>1 DEF Typed, FibersTyped, PurgeOne
<1>3. \A o \in purge'.list : o.key # e.key
    BY <1>2 DEF Rest, ListsThere
<1>4. /\ purge.at = home[e.key] /\ entries'[e.key] = NoSize
      /\ \A q \in Keys \ {e.key} : entries'[q] = entries[q]
    BY <1>1 DEF PurgeOne, HasEntry, EraseEntry, Typed, DiskTyped
<1>5. ~Writing(e.key)
    BY <1>4 DEF PurgeOne, Oldest, DirFree, Path, Writing
<1>6. Unlink(purge.at, e.key) /\ UNCHANGED <<up, home, load, writer, strays>>
    BY DEF PurgeOne
<1> QED  BY <1>1, <1>2, <1>3, <1>4, <1>5, <1>6, RestUnlink

LEMMA RestUnlinkBare ==
    ASSUME Typed, Rest, Typed', UnlinkBare
    PROVE  Rest'
<1>1. /\ purge.at \in 1 .. Shards /\ purge.bare \in Keys /\ purge.bare # None
      /\ file[purge.at][purge.bare] # None
    BY FoundFiles DEF Typed, Rest, UnlinkBare
<1>2. purge'.at = purge.at /\ purge'.bare = None /\ purge'.list = purge.list
    BY DEF Typed, FibersTyped, UnlinkBare
<1>3. \A o \in purge'.list : o.key # purge.bare
    BY <1>1, <1>2 DEF Rest, ListsThere
<1>4. purge.at = home[purge.bare] =>
        purge.bare \in strays \/ (entries[purge.bare] = NoSize /\ ~Writing(purge.bare))
    BY <1>1 DEF Rest, BareWatched
<1>5. Unlink(purge.at, purge.bare) /\ UNCHANGED <<up, home, entries, load, writer, strays>>
    BY DEF UnlinkBare
<1> QED  BY <1>1, <1>2, <1>3, <1>4, <1>5, RestUnlink

(* Nobody is at work before the process serves, and after it has died.        *)
Quiet ==
    /\ \A r \in Readers : reader[r].at = "idle"
    /\ \A w \in Writers : writer[w].at = "idle"
    /\ purge.at = 0 /\ purge.list = {} /\ purge.bare = None /\ strays = {}

LEMMA RestQuiet ==
    ASSUME Rest, Quiet'
    PROVE  OnlyServing' /\ OneWriter' /\ ReadersHaveFile' /\ WritersProgress'
           /\ BareWatched'
  BY DEF Quiet, OnlyServing, OneWriter, ReadersHaveFile, WritersProgress, BareWatched

LEMMA RestStart ==
    ASSUME Typed, Rest, Typed', NEW h \in Homes, NEW action \in Actions, Start(h, action)
    PROVE  Rest'
<1> USE DEF Rest
<1>1. /\ up = "down" /\ up' = "loading"
      /\ load'.at = 1 /\ load'.left = InShard(1)
      /\ UNCHANGED <<file, entries, reader, writer, purge, strays>>
    BY DEF Start
<1>2. Quiet'
    BY <1>1 DEF OnlyServing, ListsThere, Quiet
<1>3. HeadersGenuine'
    BY <1>1 DEF HeadersGenuine
<1>4. \A k \in Keys : entries[k] = NoSize
    BY <1>1 DEF LoadedSoFar
<1>5. ListsThere'
    BY <1>1, <1>2 DEF Quiet, ListsThere, InShard
<1>6. EntriesTrue'
    BY <1>1, <1>4 DEF EntriesTrue
<1>7. LoadedSoFar'
  <2>1. \A k \in Keys : home'[k] \in 1 .. Shards
      BY DEF Typed, DiskTyped
  <2>2. ASSUME NEW k \in Keys, LoadedPast(k)' PROVE file'[home'[k]][k] = None
    <3>1. home'[k] = 1 /\ k \notin InShard(1)
        BY <1>1, <2>1, <2>2 DEF LoadedPast
    <3> QED  BY <1>1, <3>1 DEF InShard
  <2> QED  BY <1>1, <2>2 DEF LoadedSoFar
<1> QED  BY <1>2, <1>3, <1>5, <1>6, <1>7, RestQuiet

(* A file is found: whatever is done about it, the others are left alone.     *)
LEMMA RestLoadFile ==
    ASSUME Typed, Rest, Typed', NEW k \in Keys, LoadFile(k)
    PROVE  Rest'
<1> USE DEF Typed, Rest
<1>h. \A q \in Keys : home[q] \in 1 .. Shards
    BY HomeShard
<1>1. PICK s \in 1 .. Shards, f \in Files :
        s = load.at /\ f = file[s][k] /\ f # None /\ Headed(k, f)
  <2>1. load.at \in 1 .. Shards /\ file[load.at][k] # None
      BY DEF LoadFile, DiskTyped, ListsThere
  <2>2. file[load.at][k] \in Files
      BY <2>1 DEF DiskTyped
  <2> QED  BY <2>1, <2>2 DEF HeadersGenuine
<1>2. /\ up = "loading" /\ k \in load.left
      /\ load'.at = s /\ load'.left = load.left \ {k}
      /\ UNCHANGED <<up, home, reader, writer, purge, strays>>
    BY <1>1 DEF LoadFile, DiskTyped
<1>3. Size(f) # NoSize
    BY <1>1, SizeTyped
<1>4. /\ \A t \in 1 .. Shards, q \in Keys \ {k} : file'[t][q] = file[t][q]
      /\ \A t \in 1 .. Shards : file'[t][k] \in {file[t][k], f, None}
      /\ \A q \in Keys \ {k} : entries'[q] = entries[q]
      /\ \/ file'[home[k]][k] = f /\ entries'[k] = Size(f)
         \/ /\ home[k] # s
            /\ file'[home[k]][k] = file[home[k]][k] /\ entries'[k] = entries[k]
  <2>1. CASE LoadInPlace(s, k)
      BY <1>1, <2>1 DEF LoadInPlace, DiskTyped
  <2>2. CASE MoveMisplaced(s, k)
    <3>1. home[k] # s /\ file' = [file EXCEPT ![home[k]][k] = f, ![s][k] = None]
        BY <1>1, <2>2 DEF MoveMisplaced
    <3>2. file'[home[k]][k] = f
        BY <1>h, <3>1 DEF DiskTyped
    <3>3. \A t \in 1 .. Shards : file'[t][k] \in {file[t][k], f, None}
        BY <1>h, <3>1 DEF DiskTyped
    <3>4. \A t \in 1 .. Shards, q \in Keys \ {k} : file'[t][q] = file[t][q]
        BY <1>h, <3>1 DEF DiskTyped
    <3>5. entries' = [entries EXCEPT ![k] = Size(f)]
        BY <1>1, <2>2 DEF MoveMisplaced, MovedEntry
    <3>6. entries'[k] = Size(f) /\ \A q \in Keys \ {k} : entries'[q] = entries[q]
        BY <3>5 DEF DiskTyped
    <3> QED  BY <3>2, <3>3, <3>4, <3>6
  <2>3. CASE DeleteMisplaced(s, k)
    <3>1. home[k] # s /\ file' = [file EXCEPT ![s][k] = None] /\ entries' = entries
        BY <2>3 DEF DeleteMisplaced
    <3>2. /\ file'[s][k] = None
          /\ \A t \in 1 .. Shards, q \in Keys : t # s \/ q # k => file'[t][q] = file[t][q]
        BY <3>1 DEF DiskTyped
    <3> QED  BY <1>h, <3>1, <3>2
  <2>4. CASE IgnoreMisplaced(s, k)
      BY <2>4 DEF IgnoreMisplaced
  <2> QED  BY <1>1, <2>1, <2>2, <2>3, <2>4 DEF LoadFile
<1>5. Quiet'
    BY <1>2 DEF OnlyServing, ListsThere, Quiet
<1>6. HeadersGenuine'
    BY <1>1, <1>2, <1>4 DEF HeadersGenuine
<1>7. ListsThere'
  <2>1. \A q \in load'.left : q \in load.left /\ q \in Keys \ {k}
      BY <1>2 DEF DiskTyped
  <2>2. \A q \in load'.left : file'[load'.at][q] # None
      BY <1>1, <1>2, <1>4, <2>1 DEF ListsThere
  <2> QED  BY <1>5, <2>2 DEF Quiet, ListsThere
<1>8. EntriesTrue'
  <2> SUFFICES ASSUME NEW q \in Keys, entries'[q] # NoSize
               PROVE  file'[home[q]][q] # None /\ entries'[q] = Size(file'[home[q]][q])
      BY <1>2 DEF EntriesTrue
  <2>0. strays = {}
      BY <1>2 DEF OnlyServing
  <2>1. ~Writing(q)
      BY <1>2 DEF OnlyServing, Writing
  <2> QED  BY <1>1, <1>4, <1>h, <2>0, <2>1 DEF EntriesTrue
<1>9. LoadedSoFar'
  <2> SUFFICES ASSUME NEW q \in Keys, file'[home[q]][q] # None, LoadedPast(q)'
               PROVE  entries'[q] # NoSize
      BY <1>2 DEF LoadedSoFar
  <2>1. CASE q # k
    <3>1. LoadedPast(q)
        BY <1>1, <1>2, <2>1 DEF LoadedPast
    <3> QED  BY <1>2, <1>4, <1>h, <2>1, <3>1 DEF LoadedSoFar
  <2>2. CASE q = k /\ home[k] # s
    <3>1. LoadedPast(k)
        BY <1>1, <1>2, <2>2 DEF LoadedPast
    <3> QED  BY <1>2, <1>3, <1>4, <2>2, <3>1 DEF LoadedSoFar
  <2>3. CASE q = k /\ home[k] = s
      BY <1>3, <1>4, <2>3
  <2> QED  BY <2>1, <2>2, <2>3
<1> QED  BY <1>5, <1>6, <1>7, <1>8, <1>9, RestQuiet

LEMMA RestLoadNextShard ==
    ASSUME Typed, Rest, Typed', LoadNextShard
    PROVE  Rest'
<1> USE DEF Typed, Rest
<1>1. /\ up = "loading" /\ load.left = {}
      /\ UNCHANGED <<home, file, entries, reader, writer, purge, strays>>
    BY DEF LoadNextShard
<1>2. Quiet'
    BY <1>1 DEF OnlyServing, ListsThere, Quiet
<1>3. HeadersGenuine' /\ EntriesTrue'
    BY <1>1 DEF HeadersGenuine, EntriesTrue, Writing
<1>4. CASE load.at < Shards
  <2>1. /\ up' = "loading" /\ load'.at = load.at + 1
        /\ load'.left = InShard(load.at + 1)
      BY <1>1, <1>4 DEF LoadNextShard, DiskTyped
  <2>2. ListsThere'
      BY <1>1, <1>2, <2>1 DEF Quiet, ListsThere, InShard
  <2>3. ASSUME NEW k \in Keys, file[home[k]][k] # None, LoadedPast(k)'
        PROVE  LoadedPast(k)
    <3>1. home[k] \in Nat /\ load.at \in Nat
        BY HomeShard DEF DiskTyped
    <3>2. ~(home[k] = load.at + 1 /\ k \notin InShard(load.at + 1))
        BY <2>3 DEF InShard
    <3> QED  BY <1>1, <2>1, <2>3, <3>1, <3>2 DEF LoadedPast
  <2>4. LoadedSoFar'
      BY <1>1, <2>1, <2>3 DEF LoadedSoFar
  <2> QED  BY <1>2, <1>3, <2>2, <2>4, RestQuiet
<1>5. CASE ~(load.at < Shards)
  <2>1. up' = "serving"
      BY <1>5 DEF LoadNextShard
  <2>2. ListsThere' /\ LoadedSoFar'
      BY <1>2, <2>1 DEF Quiet, ListsThere, LoadedSoFar
  <2> QED  BY <1>2, <1>3, <2>2, RestQuiet
<1> QED  BY <1>4, <1>5

LEMMA RestCrash ==
    ASSUME Typed, Rest, Typed', Crash
    PROVE  Rest'
<1>1. Quiet'
    BY DEF Crash, IdleReader, IdleWriter, IdlePurge, Quiet
<1>2. /\ up' = "down" /\ UNCHANGED <<home, file>>
      /\ \A k \in Keys : entries'[k] = NoSize
      /\ \A r \in Readers : reader'[r].orphan = None
    BY DEF Crash, IdleReader
<1>3. HeadersGenuine'
    BY <1>2 DEF Rest, HeadersGenuine
<1>4. ListsThere' /\ EntriesTrue' /\ LoadedSoFar'
    BY <1>1, <1>2 DEF Quiet, ListsThere, EntriesTrue, LoadedSoFar
<1> QED  BY <1>1, <1>3, <1>4, RestQuiet DEF Rest

-----------------------------------------------------------------------------
LEMMA DiskParts == DiskInv <=> Typed /\ Rest
  BY DEF DiskInv, Typed, Rest

LEMMA DiskInit ==
    ASSUME Init
    PROVE  DiskInv
<1>1. DiskTyped
  <2>1. IdleLoad \in [at : 1 .. Shards, left : SUBSET Keys, action : Actions]
      BY DEF IdleLoad, Actions
  <2> QED  BY <2>1 DEF Init, DiskTyped
<1>2. FibersTyped
  <2>1. IdleReader \in ReaderType /\ IdleReader.at = "idle"
      BY DEF IdleReader, ReaderType
  <2>2. IdleWriter \in WriterType /\ IdleWriter.at = "idle"
      BY DEF IdleWriter, WriterType
  <2>3. IdlePurge \in PurgeType
      BY DEF IdlePurge, PurgeType
  <2>4. ReadersTyped /\ WritersTyped /\ PurgeTyped
      BY <2>1, <2>2, <2>3 DEF Init, ReadersTyped, WritersTyped, PurgeTyped
  <2> QED  BY <2>4, FibersParts
<1>3. /\ up = "down" /\ strays = {}
      /\ \A s \in 1 .. Shards, k \in Keys : file[s][k] = None
      /\ \A k \in Keys : entries[k] = NoSize
      /\ \A r \in Readers : reader[r].at = "idle" /\ reader[r].orphan = None
      /\ \A w \in Writers : writer[w].at = "idle"
      /\ purge.at = 0 /\ purge.list = {} /\ purge.bare = None
    BY DEF Init, IdleReader, IdleWriter, IdlePurge
<1>4. Rest
    BY <1>3 DEF Rest, HeadersGenuine, OnlyServing, OneWriter, ReadersHaveFile,
                WritersProgress, ListsThere, BareWatched, EntriesTrue, LoadedSoFar
<1> QED  BY <1>1, <1>2, <1>4 DEF DiskInv, Rest

LEMMA DiskStep ==
    ASSUME DiskInv, [Next]_vars
    PROVE  DiskInv'
<1>1. Typed /\ Rest
    BY DiskParts
<1>2. Typed'
    BY <1>1, DiskTypedStep, FibersTypedStep DEF Typed, Rest
<1>3. ASSUME NEW r \in Readers, NEW k \in Keys, OpenToRead(r, k) PROVE Rest'
  <2>1. \A s \in 1 .. Shards, q \in Keys : Alike(file[s][q], file'[s][q])
      BY <1>1, <1>3, AlikeEdits DEF Typed
  <2>2. \A o \in Readers :
          \/ reader'[o] = reader[o]
          \/ /\ up = "serving" /\ reader'[o].orphan = None
             /\ file[home[reader'[o].key]][reader'[o].key] # None
      BY <1>1, <1>3 DEF OpenToRead, Typed, FibersTyped
  <2>3. UNCHANGED <<up, home, entries, load, writer, purge, strays>>
      BY <1>3 DEF OpenToRead
  <2> QED  BY <1>1, <1>2, <2>1, <2>2, <2>3, RestAlike
<1>4. ASSUME NEW r \in Readers, Read(r) PROVE Rest'
  <2>1. \A o \in Readers : reader'[o] = reader[o] \/ reader'[o] = IdleReader
      BY <1>1, <1>4 DEF Read, Typed, FibersTyped
  <2>2. UNCHANGED <<up, home, file, entries, load, writer, purge, strays>>
      BY <1>4 DEF Read
  <2>3. \A s \in 1 .. Shards, q \in Keys : Alike(file[s][q], file'[s][q])
      BY <2>2 DEF Alike
  <2> QED  BY <1>1, <1>2, <2>1, <2>2, <2>3, RestAlike
<1>5. ASSUME (\E s \in 1 .. Shards, k \in Keys : Corrupt(s, k)) \/ TimePasses
      PROVE  Rest'
  <2>1. \A s \in 1 .. Shards, q \in Keys : Alike(file[s][q], file'[s][q])
      BY <1>1, <1>5, AlikeEdits DEF Typed
  <2>2. UNCHANGED <<up, home, entries, load, reader, writer, purge, strays>>
      BY <1>5 DEF Corrupt, TimePasses
  <2> QED  BY <1>1, <1>2, <2>1, <2>2, RestAlike
<1>6. ASSUME UNCHANGED vars PROVE Rest'
  <2>1. UNCHANGED <<up, home, file, entries, load, reader, writer, purge, strays>>
      BY <1>6 DEF vars
  <2>2. \A s \in 1 .. Shards, q \in Keys : Alike(file[s][q], file'[s][q])
      BY <2>1 DEF Alike
  <2> QED  BY <1>1, <1>2, <2>1, <2>2, RestAlike
<1>7. ASSUME NEW w \in Writers, Put(w) PROVE Rest'
    BY <1>1, <1>2, <1>7, RestOpenToWrite, RestOpenFails, RestWriteHeader,
       RestWriteBody DEF Put
<1>8. ASSUME NEW w \in Writers, NEW k \in Keys, NEW n \in Sizes, LockDir(w, k, n)
      PROVE  Rest'
    BY <1>1, <1>2, <1>8, RestLockDir
<1>9. ASSUME EnumerateToPurge \/ PurgeReturns \/ UnlinkBare
             \/ \E e \in purge.list : PurgeOne(e) \/ FindBare(e)
      PROVE  Rest'
    BY <1>1, <1>2, <1>9, RestPurgeLists, RestUnlinkBare, RestPurgeOne
<1>10. ASSUME NEW h \in Homes, NEW action \in Actions, Start(h, action) PROVE Rest'
    BY <1>1, <1>2, <1>10, RestStart
<1>11. ASSUME NEW k \in Keys, LoadFile(k) PROVE Rest'
    BY <1>1, <1>2, <1>11, RestLoadFile
<1>12. ASSUME LoadNextShard \/ Crash PROVE Rest'
    BY <1>1, <1>2, <1>12, RestLoadNextShard, RestCrash
<1>13. Rest'
    BY <1>3, <1>4, <1>5, <1>6, <1>7, <1>8, <1>9, <1>10, <1>11, <1>12 DEF Next
<1> QED  BY <1>2, <1>13 DEF DiskInv, Typed, Rest

LEMMA DiskInvariant == Spec => []DiskInv
<1>1. Init => DiskInv
    BY DiskInit
<1>2. DiskInv /\ [Next]_vars => DiskInv'
    BY DiskStep
<1> QED  BY <1>1, <1>2, PTL DEF Spec

(* TryGet gives a reader only what was put under the key it asked for, and    *)
(* the whole of it (VerifyEntryAndCutHeader), though fibers put, read and     *)
(* purge at once, the process dies in between, and the disk loses data.       *)
THEOREM ReadsGenuineCorrect == Spec => []ReadsGenuine
<1>1. DiskInv => ReadsGenuine
  <2> SUFFICES ASSUME DiskInv, NEW r \in Readers, reader[r].at = "reading",
                      VerifyEntryAndCutHeader(Content(r))
               PROVE  \E n \in Sizes : Content(r).body = Value(reader[r].key, n)
      BY DEF ReadsGenuine
  <2>1. reader[r].key \in Keys /\ home[reader[r].key] \in 1 .. Shards
      BY HomeShard DEF DiskInv, FibersTyped
  <2>2. Content(r) \in Files /\ Headed(reader[r].key, Content(r))
    <3>1. CASE reader[r].orphan # None
        BY <3>1 DEF DiskInv, FibersTyped, HeadersGenuine, Content
    <3>2. CASE reader[r].orphan = None
      <4>1. file[home[reader[r].key]][reader[r].key] # None
          BY <3>2 DEF DiskInv, ReadersHaveFile
      <4> QED  BY <2>1, <3>2, <4>1 DEF DiskInv, DiskTyped, HeadersGenuine, Content
    <3> QED  BY <3>1, <3>2
  <2>3. PICK v \in Values : v = Content(r).sum /\ v.key = reader[r].key
                            /\ v = Content(r).body
      BY <2>2 DEF VerifyEntryAndCutHeader, Headed, Files
  <2>4. v = Value(reader[r].key, v.size) /\ v.size \in Sizes
      BY <2>3 DEF Value, Values
  <2> QED  BY <2>3, <2>4
<1> QED  BY <1>1, DiskInvariant, PTL

(* Whatever the interleaving of Put, TryGet and Purge: Purge finds the files  *)
(* it is to unlink, an entry that has a file has its size, and the only       *)
(* entries without file, on which TryGet aborts, are of keys that were put    *)
(* between Purge's letting go of dir_lock and its unlink of a file without    *)
(* entry (disk_cache.cc:594).                                                 *)
THEOREM IndexExactCorrect == Spec => []IndexExact
<1>1. DiskInv => IndexExact
  <2> SUFFICES ASSUME DiskInv PROVE IndexExact
      OBVIOUS
  <2>1. TypeOK
      BY DEF DiskInv, DiskTyped, FibersTyped, TypeOK
  <2>2. ChecksHold
      BY DEF DiskInv, EntriesTrue, ListsThere, ChecksHold
  <2>3. SizesExact
      BY DEF DiskInv, EntriesTrue, SizesExact
  <2> QED  BY <2>1, <2>2, <2>3 DEF IndexExact
<1> QED  BY <1>1, DiskInvariant, PTL

(* The constructor loads what is where its key belongs after any change of    *)
(* shards and nothing else, and Purge leaves a shard alone that is within its *)
(* limit, and one that was not when it has become so.                         *)
THEOREM DiskFollowedCorrect == Spec => DiskFollowed
<1> DEFINE Loads == up = "loading" /\ up' = "serving"
                      => GetKeys' = {k \in Keys : file'[home'[k]][k] # None}
           Purges ==
             /\ purge'.list # purge.list /\ purge'.at = purge.at
                  => ~(TotalUsed(purge.list) * 20 < Limit * 19)
             /\ purge.at # 0 /\ purge'.at # purge.at /\ up' = "serving"
                  => TotalUsed(purge.list) * 20 < Limit * 19 \/ purge.list = {}
<1>1. ASSUME DiskInv, Next PROVE Loads
  <2> SUFFICES ASSUME up = "loading", up' = "serving"
               PROVE  GetKeys' = {k \in Keys : file'[home'[k]][k] # None}
      OBVIOUS
  <2>1. LoadNextShard
      BY <1>1 DEF Next, OpenToRead, Read, Put, LockDir, OpenToWrite, OpenFails,
         WriteFileHeader, WriteBody, EnumerateToPurge, PurgeReturns, UnlinkBare,
         PurgeOne, FindBare, Start, LoadFile, Crash, Corrupt, TimePasses
  <2>2. load.left = {} /\ ~(load.at < Shards) /\ UNCHANGED <<home, file, entries>>
      BY <2>1 DEF LoadNextShard
  <2>3. ASSUME NEW k \in Keys
        PROVE  entries[k] # NoSize <=> file[home[k]][k] # None
    <3>1. ~Writing(k) /\ strays = {}
        BY <1>1 DEF DiskInv, OnlyServing, Writing
    <3>2. entries[k] # NoSize => file[home[k]][k] # None
        BY <1>1, <3>1 DEF DiskInv, EntriesTrue
    <3>3. home[k] \in 1 .. Shards /\ load.at \in 1 .. Shards
        BY <1>1, HomeShard DEF DiskInv, DiskTyped
    <3>4. LoadedPast(k)
        BY <2>2, <3>3 DEF LoadedPast
    <3>5. file[home[k]][k] # None => entries[k] # NoSize
        BY <1>1, <3>4 DEF DiskInv, LoadedSoFar
    <3> QED  BY <3>2, <3>5
  <2> QED  BY <2>2, <2>3 DEF GetKeys
<1>2. ASSUME DiskInv, Next PROVE Purges
  <2>t. purge \in [at : 0 .. Shards, list : SUBSET Listed, bare : Keys \union {None}]
      BY <1>2 DEF DiskInv, FibersTyped
  <2>1. CASE EnumerateToPurge
    <3>1. purge'.at = purge.at + 1
        BY <2>1 DEF EnumerateToPurge
    <3>2. purge'.at # purge.at
        BY <2>t, <3>1
    <3> QED  BY <2>1, <3>2 DEF EnumerateToPurge, Enough
  <2>2. CASE PurgeReturns
    <3>1. purge'.at # purge.at
        BY <2>2 DEF PurgeReturns, IdlePurge
    <3> QED  BY <2>2, <3>1 DEF PurgeReturns, Enough
  <2>3. ASSUME NEW e \in purge.list, PurgeOne(e) \/ FindBare(e) PROVE Purges
    <3>1. purge'.at = purge.at
        BY <2>t, <2>3 DEF PurgeOne, FindBare
    <3>2. ~Enough(TotalUsed(purge.list))
        BY <2>3 DEF PurgeOne, FindBare, Oldest
    <3> QED  BY <3>1, <3>2 DEF Enough
  <2>4. CASE UnlinkBare
    <3>1. purge'.at = purge.at /\ purge'.list = purge.list
        BY <2>t, <2>4 DEF UnlinkBare
    <3> QED  BY <3>1
  <2>5. CASE Crash
    <3>1. up' # "serving" /\ purge'.at = 0 /\ purge'.list = {}
        BY <2>5 DEF Crash, IdlePurge
    <3>2. purge.at = 0 => purge.list = {}
        BY <1>2 DEF DiskInv, ListsThere
    <3> QED  BY <3>1, <3>2
  <2>6. CASE UNCHANGED purge
      BY <2>6
  <2> QED  BY <1>2, <2>1, <2>2, <2>3, <2>4, <2>5, <2>6 DEF Next, OpenToRead, Read,
         Put, LockDir, OpenToWrite, OpenFails, WriteFileHeader, WriteBody, Start,
         LoadFile, LoadNextShard, Corrupt, TimePasses
<1>3. ASSUME DiskInv, [Next]_vars PROVE [Loads]_vars /\ [Purges]_vars
  <2>1. CASE Next
      BY <1>1, <1>2, <1>3, <2>1
  <2>2. CASE UNCHANGED vars
      BY <2>2
  <2> QED  BY <1>3, <2>1, <2>2
<1> QED  BY <1>3, DiskInvariant, PTL DEF Spec, DiskFollowed, LoadFindsAll,
                                         PurgesJustEnough
=============================================================================
