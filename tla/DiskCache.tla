------------------------------ MODULE DiskCache -------------------------------
(* The on-disk cache: src/yadcc/common/disk_cache.{h,cc}, behind              *)
(* src/yadcc/cache/disk_cache_engine.cc.  Calls come from many fibers at      *)
(* once, the process may die at any point, and the next one, perhaps with     *)
(* other shards, loads what it finds.                                         *)
(*                                                                            *)
(* The file system: a file is at most its header and its body; it is used     *)
(* lately or not (mtime, compared for order only).  A file that is unlinked   *)
(* stays readable to who has it open.  Foreign files are not modelled.        *)
(*                                                                            *)
(* Locks are not variables: a Put has dir_lock to itself from its first step  *)
(* to its last, a TryGet that is reading shares the entry_lock of its entry,  *)
(* and what else happens under dir_lock is one action.                        *)
EXTENDS Integers, FiniteSetsExt

CONSTANTS
    Keys,
    Sizes,      \* of the values that are put
    Shards,     \* how many shards are configured; they are numbered
    Sub,        \* the subdirectory of a key: GetSubdirsFor of its hash
    Homes,      \* what GetNode may map the keys to, by the sizes configured
    Limit,      \* bytes a shard may take
    Readers, Writers   \* fibers

ASSUME DiskCacheAssumption ==
    /\ Sizes \subseteq Nat /\ Limit \in Nat /\ Shards \in Nat \ {0}
    /\ Homes \subseteq [Keys -> 1 .. Shards]

None == [none |-> TRUE]
NoSize == -1
Junk == "junk"

HeaderSize == 1

Actions == {"Delete", "Move", "Ignore"}

VARIABLES
    up,         \* "down", "loading", "serving"
    home,       \* the shard of each key
    file,       \* by shard and key, what the directories hold
    entries,    \* by key, the file_size of its EntryDesc, or NoSize
    load,       \* the constructor: its shard, the keys enumerated, the option
    reader,     \* TryGet: what it reads, and that once it is unlinked
    writer,     \* Put
    purge,      \* Purge: its shard, the files enumerated, the one without entry
    strays      \* history: keys put while Purge was to unlink their file

vars == <<up, home, file, entries, load, reader, writer, purge, strays>>

IdleReader == [at |-> "idle", key |-> None, orphan |-> None]
IdleWriter == [at |-> "idle", key |-> None, size |-> 0]
IdleLoad == [at |-> 1, left |-> {}, action |-> "Delete"]
IdlePurge == [at |-> 0, list |-> {}, bare |-> None]

-----------------------------------------------------------------------------
(* Files.                                                                     *)

Value(k, n) == [key |-> k, size |-> n]

EmptyFile == [sum |-> None, body |-> None, lately |-> TRUE]

Size(f) == (IF f.sum = None THEN 0 ELSE HeaderSize)
             + (IF f.body = None THEN 0 ELSE f.body.size)

(* Mutant: a header will do.                                                  *)
HasHeader(f) == f.sum # None

(* The header is there, and its checksum is that of the rest of the file.     *)
VerifyEntryAndCutHeader(f) == f.sum # None /\ f.sum = f.body

Path(k) == <<home[k], Sub[k]>>

InShard(s) == {k \in Keys : file[s][k] # None}

-----------------------------------------------------------------------------
(* Locks.                                                                     *)

DirFree(s, k) ==
    \A w \in Writers : writer[w].at # "idle" => Path(writer[w].key) # <<s, Sub[k]>>

EntryFree(k) ==
    \A r \in Readers : ~(/\ reader[r].at = "reading" /\ reader[r].key = k
                         /\ reader[r].orphan = None)

-----------------------------------------------------------------------------
(* TryGet.  A miss changes nothing; a file that cannot be opened aborts the   *)
(* process: Crash.                                                            *)

OpenToRead(r, k) ==
    /\ up = "serving"
    /\ reader[r].at = "idle"
    /\ DirFree(home[k], k)
    /\ entries[k] # NoSize
    /\ file[home[k]][k] # None
    /\ reader' = [reader EXCEPT
                    ![r] = [at |-> "reading", key |-> k, orphan |-> None]]
    /\ file' = [file EXCEPT ![home[k]][k].lately = TRUE]
    /\ UNCHANGED <<up, home, entries, load, writer, purge, strays>>

Content(r) == IF reader[r].orphan # None THEN reader[r].orphan
              ELSE file[home[reader[r].key]][reader[r].key]

(* The file is read and verified, or cannot be read; entry_lock is released.  *)
Read(r) ==
    /\ reader[r].at = "reading"
    /\ reader' = [reader EXCEPT ![r] = IdleReader]
    /\ UNCHANGED <<up, home, file, entries, load, writer, purge, strays>>

-----------------------------------------------------------------------------
(* Put.                                                                       *)

(* CreateEntryLocked takes dir_lock and sees to the entry ...                 *)
LockDir(w, k, n) ==
    /\ up = "serving"
    /\ writer[w].at = "idle"
    /\ DirFree(home[k], k)
    /\ writer' = [writer EXCEPT
                    ![w] = [at |-> "locked", key |-> k, size |-> n]]
    /\ entries' = [entries EXCEPT ![k] = IF @ = NoSize THEN 0 ELSE @]
    /\ strays' = IF purge.at = home[k] /\ purge.bare = k THEN strays \union {k}
                 ELSE strays \ {k}
    /\ UNCHANGED <<up, home, file, load, reader, purge>>

(* ... waits for those who read it, and truncates the file.                   *)
OpenToWrite(w) ==
    LET k == writer[w].key
    IN  /\ writer[w].at = "locked"
        /\ EntryFree(k)
        /\ file' = [file EXCEPT ![home[k]][k] = EmptyFile]
        /\ writer' = [writer EXCEPT ![w].at = "opened"]
        /\ UNCHANGED <<up, home, entries, load, reader, purge, strays>>

(* The entry goes, though a file of that name may be there.  It goes while    *)
(* its entry_lock is held: what unlocking it then does is undefined, and in   *)
(* the worst case a Crash.                                                    *)
OpenFails(w) ==
    /\ writer[w].at = "locked"
    /\ EntryFree(writer[w].key)
    /\ entries' = [entries EXCEPT ![writer[w].key] = NoSize]
    /\ writer' = [writer EXCEPT ![w] = IdleWriter]
    /\ UNCHANGED <<up, home, file, load, reader, purge, strays>>

(* What is written to a file that Purge has unlinked meanwhile is lost; a     *)
(* write that fails aborts the process: Crash.                                *)
Written(k, part, n) ==
    IF file[home[k]][k] = None THEN file
    ELSE [file EXCEPT ![home[k]][k][part] = Value(k, n),
                      ![home[k]][k].lately = TRUE]

WriteFileHeader(w) ==
    LET k == writer[w].key
    IN  /\ writer[w].at = "opened"
        /\ file' = Written(k, "sum", writer[w].size)
        /\ writer' = [writer EXCEPT ![w].at = "headed"]
        /\ UNCHANGED <<up, home, entries, load, reader, purge, strays>>

FileSize(n) == HeaderSize + n

WriteBody(w) ==
    LET k == writer[w].key
    IN  /\ writer[w].at = "headed"
        /\ file' = Written(k, "body", writer[w].size)
        /\ entries' = [entries EXCEPT ![k] = FileSize(writer[w].size)]
        /\ writer' = [writer EXCEPT ![w] = IdleWriter]
        /\ UNCHANGED <<up, home, load, reader, purge, strays>>

Put(w) == OpenToWrite(w) \/ OpenFails(w) \/ WriteFileHeader(w) \/ WriteBody(w)

-----------------------------------------------------------------------------
(* Purge: PurgeCacheAt for one shard after the other.                         *)

EnumerateCacheEntries(s) ==
    {[key |-> k, size |-> Size(file[s][k]), lately |-> file[s][k].lately] :
        k \in InShard(s)}

TotalUsed(list) == MapThenSumSet(LAMBDA e : e.size, list)

(* kDiscardThreshold.                                                         *)
Enough(used) == used * 20 < Limit * 19

(* No lock is held.                                                           *)
EnumerateToPurge ==
    /\ up = "serving"
    /\ purge.at < Shards
    /\ purge.bare = None
    /\ purge.at = 0 \/ purge.list = {} \/ Enough(TotalUsed(purge.list))
    /\ purge' = [at |-> purge.at + 1,
                 list |-> EnumerateCacheEntries(purge.at + 1), bare |-> None]
    /\ UNCHANGED <<up, home, file, entries, load, reader, writer, strays>>

(* Who reads the file keeps it; the entry, with its entry_lock, is gone.      *)
Unlink(s, k) ==
    /\ file' = [file EXCEPT ![s][k] = None]
    /\ reader' = [r \in Readers |->
         IF reader[r].at = "reading" /\ reader[r].key = k /\ s = home[k]
              /\ reader[r].orphan = None
           THEN [reader[r] EXCEPT !.orphan = file[s][k]] ELSE reader[r]]

(* Mutant: the entry of the file stays.                                       *)
KeepEntry(s, k) == entries

EraseEntry(s, k) == [entries EXCEPT ![k] = NoSize]

HasEntry(s, k) == s = home[k] /\ entries[k] # NoSize

(* The oldest of the files, while they are too many.                          *)
Oldest(e) ==
    /\ purge.at # 0 /\ purge.bare = None
    /\ e \in purge.list
    /\ ~Enough(TotalUsed(purge.list))
    /\ \A o \in purge.list : e.lately => o.lately
    /\ DirFree(purge.at, e.key)

PurgeOne(e) ==
    /\ Oldest(e)
    /\ HasEntry(purge.at, e.key)
    /\ Unlink(purge.at, e.key)
    /\ entries' = EraseEntry(purge.at, e.key)
    /\ purge' = [purge EXCEPT !.list = @ \ {e}]
    /\ UNCHANGED <<up, home, load, writer, strays>>

(* A file that has no entry: dir_lock is released ...                         *)
FindBare(e) ==
    /\ Oldest(e)
    /\ ~HasEntry(purge.at, e.key)
    /\ purge' = [purge EXCEPT !.list = @ \ {e}, !.bare = e.key]
    /\ UNCHANGED <<up, home, file, entries, load, reader, writer, strays>>

(* ... before the file goes.  One who began to read it in between keeps an    *)
(* entry_lock that the model forgets, with the file.                          *)
UnlinkBare ==
    /\ purge.bare # None
    /\ Unlink(purge.at, purge.bare)
    /\ purge' = [purge EXCEPT !.bare = None]
    /\ UNCHANGED <<up, home, entries, load, writer, strays>>

PurgeReturns ==
    /\ purge.at = Shards
    /\ purge.bare = None
    /\ purge.list = {} \/ Enough(TotalUsed(purge.list))
    /\ purge' = IdlePurge
    /\ UNCHANGED <<up, home, file, entries, load, reader, writer, strays>>

-----------------------------------------------------------------------------
(* The constructor.                                                           *)

Start(h, action) ==
    /\ up = "down"
    /\ up' = "loading"
    /\ home' = h
    /\ load' = [at |-> 1, left |-> InShard(1), action |-> action]
    /\ UNCHANGED <<file, entries, reader, writer, purge, strays>>

LoadInPlace(s, k) ==
    /\ home[k] = s
    /\ entries' = [entries EXCEPT ![k] = Size(file[s][k])]
    /\ UNCHANGED file

(* Mutant: the entry goes to the directory that the file has left.            *)
EntryStays(k, n) == entries

MovedEntry(k, n) == [entries EXCEPT ![k] = n]

(* rename(2), which replaces what is there.  From one drive to another it     *)
(* fails, and the process aborts: Crash.                                      *)
MoveMisplaced(s, k) ==
    /\ home[k] # s /\ load.action = "Move"
    /\ file' = [file EXCEPT ![home[k]][k] = file[s][k], ![s][k] = None]
    /\ entries' = MovedEntry(k, Size(file[s][k]))

DeleteMisplaced(s, k) ==
    /\ home[k] # s /\ load.action = "Delete"
    /\ file' = [file EXCEPT ![s][k] = None]
    /\ UNCHANGED entries

IgnoreMisplaced(s, k) ==
    /\ home[k] # s /\ load.action = "Ignore"
    /\ UNCHANGED <<file, entries>>

LoadFile(k) ==
    /\ up = "loading"
    /\ k \in load.left
    /\ \/ LoadInPlace(load.at, k) \/ MoveMisplaced(load.at, k)
       \/ DeleteMisplaced(load.at, k) \/ IgnoreMisplaced(load.at, k)
    /\ load' = [load EXCEPT !.left = @ \ {k}]
    /\ UNCHANGED <<up, home, reader, writer, purge, strays>>

LoadNextShard ==
    /\ up = "loading"
    /\ load.left = {}
    /\ IF load.at < Shards
         THEN /\ load' = [load EXCEPT !.at = @ + 1, !.left = InShard(load.at + 1)]
              /\ UNCHANGED up
         ELSE up' = "serving" /\ load' = IdleLoad
    /\ UNCHANGED <<home, file, entries, reader, writer, purge, strays>>

(* The process dies: what is on disk stays.                                   *)
Crash ==
    /\ up # "down"
    /\ up' = "down"
    /\ entries' = [k \in Keys |-> NoSize]
    /\ load' = IdleLoad
    /\ reader' = [r \in Readers |-> IdleReader]
    /\ writer' = [w \in Writers |-> IdleWriter]
    /\ purge' = IdlePurge
    /\ strays' = {}
    /\ UNCHANGED <<home, file>>

-----------------------------------------------------------------------------
(* The disk loses what was written; time passes.                              *)
Corrupt(s, k) ==
    /\ file[s][k] # None /\ file[s][k].body # None
    /\ file' = [file EXCEPT ![s][k].body.key = Junk]
    /\ UNCHANGED <<up, home, entries, load, reader, writer, purge, strays>>

TimePasses ==
    /\ file' = [s \in 1 .. Shards |-> [k \in Keys |->
         IF file[s][k] = None THEN None
         ELSE [file[s][k] EXCEPT !.lately = FALSE]]]
    /\ UNCHANGED <<up, home, entries, load, reader, writer, purge, strays>>

Init ==
    /\ up = "down"
    /\ home \in Homes
    /\ file = [s \in 1 .. Shards |-> [k \in Keys |-> None]]
    /\ entries = [k \in Keys |-> NoSize]
    /\ load = IdleLoad
    /\ reader = [r \in Readers |-> IdleReader]
    /\ writer = [w \in Writers |-> IdleWriter]
    /\ purge = IdlePurge
    /\ strays = {}

Next ==
    \/ \E r \in Readers : Read(r) \/ \E k \in Keys : OpenToRead(r, k)
    \/ \E w \in Writers :
         Put(w) \/ \E k \in Keys, n \in Sizes : LockDir(w, k, n)
    \/ EnumerateToPurge \/ PurgeReturns \/ UnlinkBare
    \/ \E e \in purge.list : PurgeOne(e) \/ FindBare(e)
    \/ \E h \in Homes, action \in Actions : Start(h, action)
    \/ \E k \in Keys : LoadFile(k)
    \/ LoadNextShard \/ Crash
    \/ \E s \in 1 .. Shards, k \in Keys : Corrupt(s, k)
    \/ TimePasses

Spec == Init /\ [][Next]_vars

-----------------------------------------------------------------------------
TypeOK ==
    /\ up \in {"down", "loading", "serving"}
    /\ home \in Homes
    /\ entries \in [Keys -> {NoSize, 0, HeaderSize}
                             \union {HeaderSize + n : n \in Sizes}]
    /\ purge.at \in 0 .. Shards

Writing(k) == \E w \in Writers : writer[w].at # "idle" /\ writer[w].key = k

(* The calls on files that may not fail: whoever looks up an entry finds its  *)
(* file (TryGet aborts if it cannot be opened), but for a stray: one that was *)
(* put after Purge had let go of dir_lock to unlink a file that a failed open *)
(* had left without entry.  Purge itself finds the files it has enumerated    *)
(* when their turn comes, strays or not (it aborts if unlink fails).          *)
ChecksHold ==
    up = "serving" =>
      /\ \A k \in Keys \ strays : entries[k] # NoSize /\ ~Writing(k)
                           => file[home[k]][k] # None
      /\ \A e \in purge.list : file[purge.at][e.key] # None
      /\ purge.bare # None => file[purge.at][purge.bare] # None

(* What a reader is given for a key was put under that key and is whole,      *)
(* whatever was overwritten, purged, left half written by a process that died *)
(* or lost by the disk.                                                       *)
ReadsGenuine ==
    \A r \in Readers : reader[r].at = "reading"
        /\ VerifyEntryAndCutHeader(Content(r))
      => \E n \in Sizes : Content(r).body = Value(reader[r].key, n)

(* file_size is the size of the file, for every file that was loaded, moved   *)
(* or put and that Purge has not taken from a stray: what is reported as used *)
(* is what is used.                                                           *)
SizesExact ==
    up = "serving" => \A k \in Keys :
      entries[k] # NoSize /\ ~Writing(k) /\ file[home[k]][k] # None
        => entries[k] = Size(file[home[k]][k])

(* What the index says of a file is so, or the file is being written.         *)
IndexExact == TypeOK /\ ChecksHold /\ SizesExact

(* GetKeys.                                                                   *)
GetKeys == {k \in Keys : entries[k] # NoSize}

(* A process serves, once it has loaded, every file that is where its key     *)
(* belongs, and no other, after any change of shards.                         *)
LoadFindsAll ==
    [][up = "loading" /\ up' = "serving"
         => GetKeys' = {k \in Keys : file'[home'[k]][k] # None}]_vars

(* A shard that Purge found within 95% of its limit is left alone; one that   *)
(* was not is so when Purge is done with it, as far as it was enumerated.     *)
PurgesJustEnough ==
    [][/\ purge'.list # purge.list /\ purge'.at = purge.at
           => ~(TotalUsed(purge.list) * 20 < Limit * 19)
       /\ purge.at # 0 /\ purge'.at # purge.at /\ up' = "serving"
           => TotalUsed(purge.list) * 20 < Limit * 19 \/ purge.list = {}]_vars

(* Loading and purging follow what is on the disk.                            *)
DiskFollowed == LoadFindsAll /\ PurgesJustEnough
=============================================================================
