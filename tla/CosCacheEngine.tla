--------------------------- MODULE CosCacheEngine ----------------------------
(* The second level of the cache, kept in an object store:                    *)
(* src/yadcc/cache/cos_cache_engine.{h,cc}.                                   *)
(*                                                                            *)
(* The store is listed a directory and a batch at a time while it changes;    *)
(* every such listing (for the Bloom filter, or for whoever inspects the      *)
(* engine) marks what is beyond the capacity, and the purge timer deletes     *)
(* what was marked by then, batch by batch.  Calls of the store fail.         *)
(*                                                                            *)
(* Keys are numbers in the store's (lexicographic) order.  A time stamp is    *)
(* the number of its second: objects written in one second share it.          *)
EXTENDS Integers, FiniteSets, FiniteSetsExt

CONSTANTS
    Objects,        \* the keys: numbers from 1 on
    SubDirs,        \* kSubDirs
    Size,           \* the size of each object
    Capacity,       \* capacity_
    MaxEntries,     \* kMaxEntries
    ListBatch,      \* objects in one answer of the store
    DeleteBatch,    \* kBatchSize
    Listers,        \* who may list the store at a time
    MaxPuts,        \* bound: objects written
    MaxFaults       \* bound: calls of the store that fail, retries included

ASSUME CosAssumption ==
    /\ Objects \subseteq Nat \ {0} /\ IsFiniteSet(Objects)
    /\ MaxPuts \in Nat
    /\ {SubDirs, Capacity, ListBatch, DeleteBatch} \subseteq Nat \ {0}
    /\ Size \in [Objects -> Nat \ {0}]

Dirs == 0 .. SubDirs - 1

VARIABLES
    objects,    \* the store: entries with their keys and time stamps
    written,    \* when each object was written last, or 0 (of the model)
    listing,    \* GetEntries of each lister
    pending,    \* pending_removal_ (with the time stamp seen, of the model)
    purging,    \* what Purge has still to delete
    puts, faults

storeVars == <<objects, written>>
cosVars == <<objects, written, listing, pending, purging, puts, faults>>

Entries == [key : Objects, timestamp : 1 .. MaxPuts]

(* The sum of their sizes: every entry has that many bytes of its own.        *)
Bytes(entries) == Cardinality(UNION {{e} \X (1 .. Size[e.key]) : e \in entries})

(* XxHash is external.                                                        *)
MakeObjectKey(key) == key % SubDirs

-----------------------------------------------------------------------------
Latest == Max({written[k] : k \in Objects})

Put(key) ==
    /\ puts < MaxPuts
    /\ puts' = puts + 1
    /\ \E now \in {Latest, Latest + 1} \ {0} :
         /\ objects' = {e \in objects : e.key # key}
                         \union {[key |-> key, timestamp |-> now]}
         /\ written' = [written EXCEPT ![key] = now]
    /\ UNCHANGED <<listing, pending, purging, faults>>

PutFails ==
    /\ faults < MaxFaults /\ puts < MaxPuts
    /\ faults' = faults + 1 /\ puts' = puts + 1
    /\ UNCHANGED <<storeVars, listing, pending, purging>>

-----------------------------------------------------------------------------
(* GetEntries: the directories are listed concurrently.  A marker is the last *)
(* key of the batch before; Done once the directory is listed.                *)

Done == -1
NotListing == [at |-> "idle", marker |-> [d \in Dirs |-> 0], entries |-> {}]

BeginListing(l) ==
    /\ listing[l].at = "idle"
    /\ listing' = [listing EXCEPT ![l].at = "listing"]
    /\ UNCHANGED <<storeVars, pending, purging, puts, faults>>

(* The store's answer: the next objects of the directory after the marker.    *)
Beyond(d, marker) ==
    {e \in objects : MakeObjectKey(e.key) = d /\ e.key > marker}

Batch(d, marker) ==
    LET all == Beyond(d, marker)
    IN  {e \in all : Cardinality({f \in all : f.key < e.key}) < ListBatch}

(* Mutant: one answer of the store is taken for the whole directory.          *)
FirstAnswer(d, marker) == FALSE

Truncated(d, marker) == Beyond(d, marker) # Batch(d, marker)

GetEntriesIn(l, d) ==
    LET marker == listing[l].marker[d]
        batch == Batch(d, marker)
        entries == listing[l].entries \union batch
        count == Cardinality({e \in entries : MakeObjectKey(e.key) = d})
    IN  /\ listing[l].at = "listing" /\ marker # Done
        /\ listing' = [listing EXCEPT
             ![l].entries = entries,
             ![l].marker[d] = IF Truncated(d, marker) /\ count <= MaxEntries
                                THEN Max({e.key : e \in batch}) ELSE Done]
        /\ UNCHANGED <<storeVars, pending, purging, puts, faults>>

(* After its retries the directory is left as far as it was listed.           *)
ListingFails(l, d) ==
    /\ listing[l].at = "listing" /\ listing[l].marker[d] # Done
    /\ faults < MaxFaults
    /\ faults' = faults + 1
    /\ listing' = [listing EXCEPT ![l].marker[d] = Done]
    /\ UNCHANGED <<storeVars, pending, purging, puts>>

(* Mutant: the entries are sorted the other way round.                        *)
OldestFirst(e, f) == e.timestamp =< f.timestamp

NewestFirst(e, f) == e.timestamp >= f.timestamp

(* What may be kept of the entries: the newest ones, until together they fill *)
(* the capacity.  The sort leaves equal time stamps in any order.             *)
Keeps(entries) ==
    {kept \in SUBSET entries :
       /\ \A e \in kept, f \in entries \ kept : NewestFirst(e, f)
       /\ kept # entries => Bytes(kept) >= Capacity
       /\ kept # {} => \E last \in kept :
                         /\ \A e \in kept : NewestFirst(e, last)
                         /\ Bytes(kept \ {last}) < Capacity}

GetEntries(l) ==
    LET entries == listing[l].entries
    IN  /\ listing[l].at = "listing"
        /\ \A d \in Dirs : listing[l].marker[d] = Done
        /\ \E kept \in Keeps(entries) : pending' = pending \union (entries \ kept)
        /\ listing' = [listing EXCEPT ![l] = NotListing]
        /\ UNCHANGED <<storeVars, purging, puts, faults>>

-----------------------------------------------------------------------------
(* Purge takes the keys marked so far, ...                                    *)
BeginPurge ==
    /\ purging = {} /\ pending # {}
    /\ purging' = pending
    /\ pending' = {}
    /\ UNCHANGED <<storeVars, listing, puts, faults>>

Chosen(keys) ==
    {b \in SUBSET keys :
       Cardinality(b) =< DeleteBatch /\ (Cardinality(b) < DeleteBatch => b = keys)}

(* ... and deletes them by name, whatever has been written since.             *)
Purge ==
    /\ purging # {}
    /\ \E batch \in Chosen(purging) :
         /\ purging' = purging \ batch
         /\ objects' = {e \in objects : \A b \in batch : b.key # e.key}
    /\ UNCHANGED <<written, listing, pending, puts, faults>>

(* What could not be deleted waits for the next listing to mark it again.     *)
PurgeFails ==
    /\ purging # {}
    /\ faults < MaxFaults
    /\ faults' = faults + 1
    /\ \E batch \in Chosen(purging) : purging' = purging \ batch
    /\ UNCHANGED <<storeVars, listing, pending, puts>>

-----------------------------------------------------------------------------
CosInit ==
    /\ objects = {} /\ pending = {} /\ purging = {}
    /\ written = [k \in Objects |-> 0]
    /\ listing = [l \in Listers |-> NotListing]
    /\ puts = 0 /\ faults = 0

GetKeys(l) ==
    BeginListing(l) \/ (\E d \in Dirs : GetEntriesIn(l, d)) \/ GetEntries(l)

OnPurgeTimer == BeginPurge \/ Purge

CosNext ==
    \/ \E k \in Objects : Put(k)
    \/ \E l \in Listers : GetKeys(l) \/ \E d \in Dirs : ListingFails(l, d)
    \/ OnPurgeTimer \/ PutFails \/ PurgeFails

CosSpec == CosInit /\ [][CosNext]_cosVars

-----------------------------------------------------------------------------
CosTypeOK ==
    /\ objects \subseteq Entries
    /\ pending \subseteq Entries /\ purging \subseteq Entries
    /\ \A l \in Listers : listing[l].entries \subseteq Entries

(* The other objects written in the same second as entry e or since.          *)
Newer(e) == {[key |-> k, timestamp |-> written[k]] :
               k \in {i \in Objects \ {e.key} : written[i] >= e.timestamp}}

(* What is deleted was, when it was listed, beyond the capacity: a capacity's *)
(* worth of other objects has been written in the same second or since,       *)
(* however the listing raced with writers, with the purge and with the other  *)
(* lister.  In particular nothing is lost while everything fits.              *)
PurgesOldest ==
    /\ CosTypeOK
    /\ \A e \in pending \union purging : Capacity <= Bytes(Newer(e))

(* When writers pause, the store comes down to its capacity (but for the one  *)
(* object that crosses it), in spite of partial listings and failed deletes.  *)
OverflowPurged ==
    <>[](objects # {} => \E last \in objects : Bytes(objects \ {last}) < Capacity)
=============================================================================
