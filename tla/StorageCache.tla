---------------------------- MODULE StorageCache ----------------------------
(***************************************************************************)
(* StorageManager over the in-memory provider with its LRU cache             *)
(* (core/storage): one table, whose records are versions.  A call of the     *)
(* manager is asynchronous, and nothing serialises its callers: the awaits   *)
(* of two calls interleave.  The provider writes a record and its cache      *)
(* entry without an await in between; the next record of the same call, and  *)
(* what the manager does to the cache, come later, in steps of their own.    *)
(*                                                                           *)
(* An order of keys is the set of the pairs of a key and itself or a later   *)
(* one.                                                                      *)
(***************************************************************************)
EXTENDS Absent, Integers, FiniteSets

CONSTANTS
  Keys,          (* record ids (randomUUID)                                  *)
  Callers,       (* bound: calls of the manager in flight                    *)
  Filtered,      (* the sets of records that filters match                   *)
  MaxVersion,    (* bound: versions of each record                           *)
  MaxSize,       (* LRUCacheConfig.maxSize                                   *)
  MemoryLimit,   (* maxMemoryMb                                              *)
  BytesOf        (* getMemoryUsage() of a set of records                     *)

Versions == Nat \ {0}
CacheEntries == UNION {{<<k, v>> : v \in 1..MaxVersion[k]} : k \in Keys}
CacheCalls == [what : {"cache"}, key : Keys, version : Versions]
              \cup [what : {"update", "delete", "forget"}, keys : SUBSET Keys]

(* The memory usage is a sum over the entries: more entries need no less.    *)
ASSUME StorageAssumption ==
  /\ IsFiniteSet(Keys) /\ MaxSize \in Nat \ {0} /\ MemoryLimit \in Nat
  /\ MaxVersion \in [Keys -> Nat \ {0}] /\ Filtered \subseteq SUBSET Keys
  /\ BytesOf \in [SUBSET CacheEntries -> Nat] /\ BytesOf[{}] <= MemoryLimit
  /\ \A es \in SUBSET CacheEntries : \A fewer \in SUBSET es : BytesOf[fewer] <= BytesOf[es]
  /\ NoRow \notin Versions \cup CacheCalls

VARIABLES
  records,     (* MemoryTable.records                                        *)
  entries,     (* LRUCache.entries: the cached version of each key           *)
  recency,     (* the insertion order of that Map, least recently used first *)
  cacheCalls,  (* what a call in flight has still to do                      *)
  usedLast,    (* history: keys ever used, in the order of their last use    *)
  overtaken,   (* history: keys written while a read of them was in flight   *)
  grown        (* history: an entry was replaced by a larger one since the   *)
               (* last insertion                                             *)

cacheVars == <<entries, recency, usedLast, grown>>
storageVars == <<records, cacheCalls, overtaken, cacheVars>>

StorageInit ==
  /\ records = [k \in Keys |-> NoRow]
  /\ entries = [k \in Keys |-> NoRow] /\ recency = {} /\ usedLast = {} /\ grown = FALSE
  /\ cacheCalls = [c \in Callers |-> NoRow]
  /\ overtaken = {}

-----------------------------------------------------------------------------
(* LRUCache                                                                  *)

Cached(k) == entries[k] # NoRow
CachedKeys == {k \in Keys : Cached(k)}
Used(k) == <<k, k>> \in usedLast

Within(order, ks) == {p \in order : p[1] \in ks /\ p[2] \in ks}

(* markRecentlyUsed(): k is, or becomes, the last.                           *)
MarkRecentlyUsed(order, k) ==
  LET others == {p \in order : p[1] # k /\ p[2] # k} IN
  others \cup {<<a, k>> : a \in {p[1] : p \in others} \cup {k}}

Bytes(es, ks) == BytesOf[{<<k, es[k]>> : k \in ks}]

(* set(): one entry too many, the least recently used, is evicted.           *)
SizeEvicted(order, ks) ==
  IF Cardinality(ks) <= MaxSize THEN {ks}
  ELSE {ks \ {old} : old \in {a \in ks : \A b \in ks : <<a, b>> \in order}}

(* evictByMemory(): of the rest as many of the latest as fit.                *)
Latest(order, ks) == {some \in SUBSET ks : \A p \in Within(order, ks) : p[1] \in some => p[2] \in some}
MemoryEvicted(order, es, ks) ==
  LET fit == {some \in Latest(order, ks) : Bytes(es, some) <= MemoryLimit} IN
  {some \in fit : \A other \in fit : other \subseteq some}

(* set() of a new entry                                                      *)
Inserted(k, version) ==
  LET order == MarkRecentlyUsed(recency, k)
      es == [entries EXCEPT ![k] = version]
  IN  \E most \in SizeEvicted(order, CachedKeys \cup {k}) : \E kept \in MemoryEvicted(order, es, most) :
        /\ recency' = Within(order, kept)
        /\ entries' = [e \in Keys |-> IF e \in kept THEN es[e] ELSE NoRow]
        /\ grown' = FALSE

(* set() of an entry that exists: nothing is evicted.                        *)
Replaced(k, version) ==
  LET es == [entries EXCEPT ![k] = version] IN
  /\ recency' = MarkRecentlyUsed(recency, k)
  /\ entries' = es
  /\ grown' = (grown \/ Bytes(es, CachedKeys) > Bytes(entries, CachedKeys))

CacheSet(k, version) ==
  /\ (~Cached(k) /\ Inserted(k, version)) \/ (Cached(k) /\ Replaced(k, version))
  /\ usedLast' = MarkRecentlyUsed(usedLast, k)

CacheDelete(k) ==
  /\ recency' = Within(recency, CachedKeys \ {k})
  /\ entries' = [entries EXCEPT ![k] = NoRow]
  /\ UNCHANGED <<usedLast, grown>>

-----------------------------------------------------------------------------
(* The manager and the provider.                                             *)

Overtakes(ks) ==
  overtaken' = overtaken \cup {k \in ks : \E c \in Callers :
                  cacheCalls[c] # NoRow /\ cacheCalls[c].what = "cache" /\ cacheCalls[c].key = k}

Does(c, what) == cacheCalls[c] # NoRow /\ cacheCalls[c].what = what
Begins(c, next) == cacheCalls[c] = NoRow /\ cacheCalls' = [cacheCalls EXCEPT ![c] = next]
GoesOn(c, next) == cacheCalls' = [cacheCalls EXCEPT ![c] = next]
Still(what, ks) == IF what = "forget" /\ ks = {} THEN NoRow ELSE [what |-> what, keys |-> ks]

(* randomUUID(): an id that was never used.                                  *)
Create(k) ==
  /\ ~Used(k)
  /\ records' = [records EXCEPT ![k] = 1]
  /\ CacheSet(k, 1)
  /\ UNCHANGED <<cacheCalls, overtaken>>

(* findById(): a hit returns what is cached.                                 *)
FindCached(k) ==
  /\ Cached(k)
  /\ recency' = MarkRecentlyUsed(recency, k)
  /\ usedLast' = MarkRecentlyUsed(usedLast, k)
  /\ UNCHANGED <<records, entries, cacheCalls, overtaken, grown>>

(* A miss, which another call may have ended by now: the provider reads and  *)
(* caches the record, and the manager, when it gets it, caches it once more. *)
FindRecord(c, k) ==
  /\ records[k] # NoRow
  /\ Begins(c, [what |-> "cache", key |-> k, version |-> records[k]])
  /\ CacheSet(k, records[k])
  /\ UNCHANGED <<records, overtaken>>

FoundIsCached(c) ==
  /\ Does(c, "cache")
  /\ CacheSet(cacheCalls[c].key, cacheCalls[c].version)
  /\ GoesOn(c, NoRow)
  /\ UNCHANGED <<records, overtaken>>

Updates(k) ==
  /\ records[k] # NoRow /\ records[k] < MaxVersion[k]
  /\ records' = [records EXCEPT ![k] = @ + 1]
  /\ Overtakes({k})

(* updateById(): the manager drops the entry the provider has just written.  *)
UpdateById(c, k) ==
  /\ Updates(k) /\ CacheSet(k, records[k] + 1)
  /\ Begins(c, Still("forget", {k}))

(* updateMany() and deleteMany(), which deleteById() is for one record: the  *)
(* provider goes through the records that match ...                          *)
ChangeMany(c, what, ks) ==
  /\ \A k \in ks : records[k] # NoRow
  /\ Begins(c, Still(what, ks))
  /\ UNCHANGED <<records, overtaken, cacheVars>>

UpdateNextUncached(c, k) ==  \* mutant: leaves the cache to the manager
  /\ Does(c, "update") /\ k \in cacheCalls[c].keys
  /\ Updates(k)
  /\ GoesOn(c, Still("update", cacheCalls[c].keys \ {k}))
  /\ UNCHANGED cacheVars

UpdateNext(c, k) ==
  /\ Does(c, "update") /\ k \in cacheCalls[c].keys
  /\ Updates(k) /\ CacheSet(k, records[k] + 1)
  /\ GoesOn(c, Still("update", cacheCalls[c].keys \ {k}))

DeleteNext(c, k) ==
  /\ Does(c, "delete") /\ k \in cacheCalls[c].keys
  /\ records' = [records EXCEPT ![k] = NoRow]
  /\ CacheDelete(k)
  /\ GoesOn(c, Still("delete", cacheCalls[c].keys \ {k}))
  /\ Overtakes({k})

(* ... those that are still there; the manager then drops what it found with *)
(* the filter, after an update or before a deletion, or, when that failed,   *)
(* everything.                                                               *)
ChangesDone(c, found) ==
  /\ \/ Does(c, "update") /\ \A k \in cacheCalls[c].keys : records[k] = NoRow \/ records[k] = MaxVersion[k]
     \/ Does(c, "delete") /\ cacheCalls[c].keys = {}
  /\ GoesOn(c, Still("forget", found))
  /\ UNCHANGED <<records, overtaken, cacheVars>>

(* dropTable(): deleteByPrefix() empties the cache, entry by entry.          *)
DropTable(c) ==
  /\ records' = [k \in Keys |-> NoRow]
  /\ Begins(c, Still("forget", Keys))
  /\ Overtakes(Keys)
  /\ UNCHANGED cacheVars

Forget(c, k) ==
  /\ Does(c, "forget") /\ k \in cacheCalls[c].keys
  /\ CacheDelete(k)
  /\ GoesOn(c, Still("forget", cacheCalls[c].keys \ {k}))
  /\ UNCHANGED <<records, overtaken>>

(* get() or has() of an entry past its TTL, or cleanup().                    *)
EntryExpires(k) ==
  /\ Cached(k) /\ CacheDelete(k)
  /\ UNCHANGED <<records, cacheCalls, overtaken>>

StorageNext ==
  \/ \E k \in Keys : Create(k) \/ FindCached(k) \/ EntryExpires(k)
  \/ \E c \in Callers :
       \/ \E k \in Keys : \/ FindRecord(c, k) \/ UpdateById(c, k)
                          \/ UpdateNext(c, k) \/ DeleteNext(c, k) \/ Forget(c, k)
       \/ \E ks \in Filtered : \E what \in {"update", "delete"} : ChangeMany(c, what, ks)
       \/ \E ks \in Filtered \cup {{}, Keys} : ChangesDone(c, ks)
       \/ DropTable(c)
       \/ FoundIsCached(c)

StorageSpec == StorageInit /\ [][StorageNext]_storageVars

-----------------------------------------------------------------------------

(* The keys are in one order.                                                *)
Orders(order, ks) ==
  /\ order \subseteq ks \X ks
  /\ \A a, b \in ks : <<a, b>> \in order \/ <<b, a>> \in order
  /\ \A a, b \in ks : <<a, b>> \in order /\ <<b, a>> \in order => a = b
  /\ \A a, b, d \in ks : <<a, b>> \in order /\ <<b, d>> \in order => <<a, d>> \in order

StorageTypeOK ==
  /\ records \in [Keys -> Versions \cup {NoRow}] /\ entries \in [Keys -> Versions \cup {NoRow}]
  /\ \A k \in Keys : {records[k], entries[k]} \ {NoRow} \subseteq 1..MaxVersion[k]
  /\ cacheCalls \in [Callers -> CacheCalls \cup {NoRow}]
  /\ overtaken \subseteq Keys /\ grown \in BOOLEAN
  /\ Orders(recency, CachedKeys) /\ Orders(usedLast, {k \in Keys : Used(k)})

(* A record in the cache is the record in the table, after updates by filter,*)
(* deletions, evictions and expiry.  Only a write that overtook a read of the*)
(* same record leaves an old one behind (manager.ts lines 213-218), and only *)
(* a dropTable() under way one of a record that is gone.                     *)
CacheIsFresh ==
  \A k \in Keys \ overtaken : Cached(k) =>
    \/ entries[k] = records[k]
    \/ records[k] = NoRow /\ \E c \in Callers : Does(c, "forget") /\ k \in cacheCalls[c].keys

(* What is evicted is what was used longest ago, whatever was updated or     *)
(* deleted since ("the next eviction would take the wrong entry").           *)
EvictsLeastRecent == recency = Within(usedLast, CachedKeys)

(* The cache outgrows neither limit: updates of many records at once and late*)
(* writes of reads included.  The exception the code has is an entry that is *)
(* replaced by a larger one: memory is looked at when an entry is new (lines *)
(* 100-118).                                                                 *)
CacheWithinLimits ==
  /\ Cardinality(CachedKeys) <= MaxSize
  /\ ~grown => Bytes(entries, CachedKeys) <= MemoryLimit

(* The cache shows the table, within its limits, in the order of use.        *)
StorageInvariant == StorageTypeOK /\ CacheIsFresh /\ EvictsLeastRecent /\ CacheWithinLimits
=============================================================================
