------------------------- MODULE ServicesProofs -------------------------
(***************************************************************************)
(* What the services that keep rows, the storage below them and the        *)
(* process around them are proved to keep.  In turn: the address groups    *)
(* (AddressGroups), the storage - the cache of the manager (StorageCache), *)
(* the tables SQLite serves (second half of StorageProviders), the pages   *)
(* of the operations store (OperationsStore) - the objects of Cloud        *)
(* Storage (CloudStorage), the rules and counters of Cloud Armor           *)
(* (ArmorPolicy), the revisions of Workflows (Workflows), the breakers of  *)
(* the gateway (Gateway) and the process (Process).                        *)
(***************************************************************************)
EXTENDS AddressGroups, CloudStorage, ArmorPolicy, StorageProviders, Workflows, Process,
        SequenceTheorems, FiniteSetTheorems, WellFoundedInduction, TLAPS

(* A set of naturals has a least element, and a bounded one a greatest.    *)
LEMMA LeastNatural ==
  ASSUME NEW S \in SUBSET Nat, S # {}
  PROVE  \E m \in S : \A n \in S : m <= n
<1>1. PICK m \in S : \A n \in S : <<n, m>> \notin OpToRel(<, Nat)
  BY NatLessThanWellFounded, WFMin
<1>2. ASSUME NEW n \in S PROVE m <= n
  <2>1. m \in Nat /\ n \in Nat
    OBVIOUS
  <2>2. n < m => <<n, m>> \in OpToRel(<, Nat)
    BY <2>1 DEF OpToRel
  <2>3. ~(n < m)
    BY <1>1, <2>2, Zenon
  <2> QED
    BY <2>1, <2>3
<1> QED
  BY <1>2
LEMMA GreatestNatural ==
  ASSUME NEW S \in SUBSET Nat, S # {}, NEW bound \in Nat, \A n \in S : n <= bound
  PROVE  \E m \in S : \A n \in S : n <= m
<1> DEFINE T == {bound - n : n \in S}
<1>1. T \in SUBSET Nat /\ T # {}
  <2>1. ASSUME NEW n \in S PROVE bound - n \in Nat
    <3>1. n \in Nat /\ n <= bound
      OBVIOUS
    <3> QED
      BY <3>1
  <2> QED
    BY <2>1
<1> HIDE DEF T
<1>2. PICK m \in T : \A n \in T : m <= n
  BY <1>1, LeastNatural
<1>3. PICK k \in S : m = bound - k
  BY DEF T
<1>4. ASSUME NEW n \in S PROVE n <= k
  <2>1. n \in Nat /\ k \in Nat /\ bound - n \in T
    BY DEF T
  <2> QED
    BY <1>2, <1>3, <2>1
<1> QED
  BY <1>4

-------------------------------------------------------------------------
(* Address groups.                                                       *)

USE GroupAssumption
GroupsFit == GroupsTypeOK /\ ItemsFitTheGroup

LEMMA ItemsOfBodies ==
  ASSUME NEW body \in GroupBodies
  PROVE  NormalItems(body.items) \in ItemLists
BY DEF GroupBodies, NormalItems

LEMMA GroupsStep == GroupsFit /\ [GroupsNext]_groups => GroupsFit'
<1> SUFFICES ASSUME GroupsFit, GroupsNext PROVE GroupsFit'
  BY DEF GroupsFit, GroupsTypeOK, ItemsFitTheGroup
<1>1. PICK name \in GroupNames :
        \/ \E body \in GroupBodies :
             \/ CreateGroup(name, body)
             \/ \E mask \in {{}, {"items"}, {"items", "labels"}, {"type"}} : UpdateGroup(name, body, mask)
        \/ DeleteGroup(name)
  BY DEF GroupsNext
<1>2. ASSUME NEW row \in GroupRows \cup {NoRow}, groups' = [groups EXCEPT ![name] = row],
             row # NoRow => Fit(row.items, row.type, row.capacity)
      PROVE  GroupsFit'
  BY <1>2 DEF GroupsFit, GroupsTypeOK, ItemsFitTheGroup
<1>3. ASSUME NEW body \in GroupBodies, CreateGroup(name, body)
      PROVE  GroupsFit'
  <2> DEFINE row == [type |-> body.type, capacity |-> body.capacity, items |-> NormalItems(body.items)]
  <2>1. row \in GroupRows
    BY <1>3, ItemsOfBodies DEF CreateGroup, GroupBodies, GroupRows
  <2> QED
    BY <1>2, <1>3, <2>1 DEF CreateGroup
<1>4. ASSUME NEW body \in GroupBodies, NEW mask, UpdateGroup(name, body, mask)
      PROVE  GroupsFit'
  <2>1. PICK items \in ItemLists : /\ groups[name] # NoRow
                                   /\ Fit(items, groups[name].type, groups[name].capacity)
                                   /\ groups' = [groups EXCEPT ![name].items = items]
    BY <1>4, ItemsOfBodies DEF UpdateGroup, GroupsFit, GroupsTypeOK, GroupRows
  <2> DEFINE row == [groups[name] EXCEPT !.items = items]
  <2>2. row \in GroupRows /\ row.items = items /\ row.type = groups[name].type
        /\ row.capacity = groups[name].capacity
    BY <2>1 DEF GroupsFit, GroupsTypeOK, GroupRows
  <2>3. groups' = [groups EXCEPT ![name] = row]
    BY <2>1
  <2> HIDE DEF row
  <2> QED
    BY <1>2, <2>1, <2>2, <2>3
<1>5. CASE DeleteGroup(name)
  BY <1>2, <1>5 DEF DeleteGroup
<1> QED
  BY <1>1, <1>3, <1>4, <1>5

LEMMA LikeIsEqual ==
  ASSUME Wildcards = {}, NEW a \in Seq(STRING), NEW b \in Seq(STRING)
  PROVE  Like(a, b) <=> a = b
<1>1. Like(a, b) <=> Len(a) = Len(b) /\ \A i \in 1 .. Len(a) : b[i] = a[i]
  BY DEF Like, Folded
<1> QED
  BY <1>1, SeqEqual

LEMMA FindsItsOwn ==
  ASSUME Wildcards = {} PROVE LookupFindsItsOwn
<1> SUFFICES ASSUME NEW project \in GroupProjects, NEW asked \in AskedGroups
             PROVE  FoundItems(project, asked) =
      {groups[n].items : n \in {m \in GroupNames :
         /\ groups[m] # NoRow /\ m.id = asked.id
         /\ m.project = project /\ m.location = GlobalLocation
         /\ asked.project \in {NoRow, project} /\ asked.location \in {NoRow, GlobalLocation}}}
  BY DEF LookupFindsItsOwn
<1>1. \A n \in GroupNames : /\ Like(n.project, project) <=> n.project = project
                            /\ Like(n.location, GlobalLocation) <=> n.location = GlobalLocation
  BY LikeIsEqual DEF GroupProjects
<1>2. ListedGroups(project) =
        {n \in GroupNames : groups[n] # NoRow /\ n.project = project /\ n.location = GlobalLocation}
  BY <1>1 DEF ListedGroups
<1>3. CASE asked \in GroupNames
  BY <1>2, <1>3 DEF FoundItems
<1>4. CASE asked \notin GroupNames
  BY <1>2, <1>4 DEF FoundItems, AskedGroups
<1> QED
  BY <1>3, <1>4

(* Address groups, for any projects, names and items, on a provider whose    *)
(* LIKE has no wildcard (the memory one): a lookup by reference answers with *)
(* the items of the group it names and of no other, and what a group holds   *)
(* has been checked against its type.                                        *)
THEOREM LookupsFindTheirOwn == ASSUME Wildcards = {} PROVE GroupsSpec => []GroupsInvariant
<1>1. GroupsInit => GroupsFit
  BY DEF GroupsInit, GroupsFit, GroupsTypeOK, ItemsFitTheGroup
<1>2. GroupsFit => GroupsInvariant
  BY FindsItsOwn DEF GroupsFit, GroupsInvariant
<1> QED
  BY <1>1, <1>2, GroupsStep, PTL DEF GroupsSpec

HIDE GroupAssumption

-------------------------------------------------------------------------
(* The cache of the storage manager.                                     *)

(* What the calls in flight rely on: a read that is to be cached is of the *)
(* record as it is, unless a write overtook it; and every record, and every*)
(* key a call is about, was used.                                          *)
ReadsAreCurrent ==
  \A c \in Callers : Does(c, "cache") =>
    LET call == cacheCalls[c] IN
    /\ Used(call.key) /\ call.version \in 1..MaxVersion[call.key]
    /\ call.key \notin overtaken => call.version = records[call.key]

CacheInv ==
  /\ StorageInvariant /\ ReadsAreCurrent
  /\ \A k \in Keys : records[k] # NoRow => Used(k)

(* The three parts of the cache, which every step on it keeps together.    *)
CacheWell ==
  /\ entries \in [Keys -> Versions \cup {NoRow}] /\ grown \in BOOLEAN
  /\ \A k \in Keys : entries[k] = NoRow \/ entries[k] \in 1..MaxVersion[k]
  /\ Orders(recency, CachedKeys) /\ Orders(usedLast, {k \in Keys : Used(k)})
  /\ EvictsLeastRecent /\ CacheWithinLimits

USE StorageAssumption

-----------------------------------------------------------------------------
(* Orders of keys.                                                         *)

LEMMA WithinPairs ==
  ASSUME NEW ks, NEW order, Orders(order, ks), NEW some
  PROVE  /\ Within(order, some) \subseteq ks \X ks
         /\ \A a, b : <<a, b>> \in Within(order, some) <=> <<a, b>> \in order /\ a \in some /\ b \in some
BY DEF Within, Orders

LEMMA WithinOrders ==
  ASSUME NEW ks, NEW order, Orders(order, ks), NEW some \in SUBSET ks
  PROVE  Orders(Within(order, some), some)
<1>1. Within(order, some) \subseteq some \X some
  BY DEF Within, Orders
<1>2. \A a, b : <<a, b>> \in Within(order, some) <=> <<a, b>> \in order /\ a \in some /\ b \in some
  BY WithinPairs
<1> QED
  BY <1>1, <1>2 DEF Orders

LEMMA MarkPairs ==
  ASSUME NEW ks, NEW order, Orders(order, ks), NEW k
  PROVE  /\ MarkRecentlyUsed(order, k) \subseteq (ks \cup {k}) \X (ks \cup {k})
         /\ \A a, b : <<a, b>> \in MarkRecentlyUsed(order, k) <=>
              \/ <<a, b>> \in order /\ a # k /\ b # k
              \/ b = k /\ a \in ks \cup {k}
<1> DEFINE others == {p \in order : p[1] # k /\ p[2] # k}
           firsts == {p[1] : p \in others}
<1>1. firsts \cup {k} = ks \cup {k}
  <2>1. \A a \in ks \ {k} : <<a, a>> \in others /\ <<a, a>>[1] = a
    BY DEF Orders
  <2>2. \A a \in ks \ {k} : a \in firsts
    BY <2>1
  <2>3. firsts \subseteq ks
    BY DEF Orders
  <2> QED
    BY <2>2, <2>3
<1>2. MarkRecentlyUsed(order, k) = others \cup {<<a, k>> : a \in ks \cup {k}}
  BY <1>1, Zenon DEF MarkRecentlyUsed
<1>3. others \subseteq ks \X ks
  BY DEF Orders
<1>4. \A a, b : <<a, b>> \in others <=> <<a, b>> \in order /\ a # k /\ b # k
  OBVIOUS
<1> HIDE DEF others, firsts
<1> QED
  BY <1>2, <1>3, <1>4

LEMMA MarkOrders ==
  ASSUME NEW ks, NEW order, Orders(order, ks), NEW k
  PROVE  Orders(MarkRecentlyUsed(order, k), ks \cup {k})
BY MarkPairs DEF Orders

-----------------------------------------------------------------------------
(* The steps on the cache.                                                 *)

LEMMA BytesOfLess ==
  ASSUME NEW es, NEW ks \in SUBSET Keys, NEW some \in SUBSET ks,
         \A k \in ks : es[k] \in 1..MaxVersion[k]
  PROVE  Bytes(es, some) \in Nat /\ Bytes(es, ks) \in Nat /\ Bytes(es, some) <= Bytes(es, ks)
<1> DEFINE all == {<<k, es[k]>> : k \in ks}
           fewer == {<<k, es[k]>> : k \in some}
<1>1. all \in SUBSET CacheEntries
  BY DEF CacheEntries
<1>2. fewer \in SUBSET all
  OBVIOUS
<1> HIDE DEF all, fewer
<1>3. BytesOf[fewer] \in Nat /\ BytesOf[all] \in Nat /\ BytesOf[fewer] <= BytesOf[all]
  BY <1>1, <1>2
<1> QED
  BY <1>3 DEF Bytes, all, fewer

(* What is left in use of the cache: some of its keys, as they were.       *)
LEMMA EntryDropKeeps ==
  ASSUME CacheWell, NEW k \in Keys, CacheDelete(k)
  PROVE  /\ CacheWell' /\ usedLast' = usedLast
         /\ \A e \in Keys : entries'[e] = IF e = k THEN NoRow ELSE entries[e]
<1> USE DEF CacheWell
<1> DEFINE left == CachedKeys \ {k}
<1>1. /\ recency' = Within(recency, left) /\ usedLast' = usedLast /\ grown' = grown
      /\ \A e \in Keys : entries'[e] = IF e = k THEN NoRow ELSE entries[e]
      /\ entries' \in [Keys -> Versions \cup {NoRow}]
  BY DEF CacheDelete
<1>2. CachedKeys' = left
  BY <1>1 DEF CachedKeys, Cached
<1>3. \A e \in Keys : entries'[e] = NoRow \/ entries'[e] \in 1..MaxVersion[e]
  BY <1>1
<1>4. Orders(recency', left)
  BY <1>1, WithinOrders
<1>5. Orders(usedLast', {e \in Keys : Used(e)}')
  BY <1>1 DEF Used
<1>6. recency' = Within(usedLast', left)
  BY <1>1 DEF EvictsLeastRecent, Within
<1>7. CacheWithinLimits'
  <2>1. left \in SUBSET CachedKeys /\ CachedKeys \in SUBSET Keys
        /\ \A e \in CachedKeys : entries[e] \in 1..MaxVersion[e]
    BY DEF CachedKeys, Cached
  <2>2. Bytes(entries, left) \in Nat /\ Bytes(entries, CachedKeys) \in Nat
        /\ Bytes(entries, left) <= Bytes(entries, CachedKeys)
    BY <2>1, BytesOfLess
  <2>3. {<<e, entries'[e]>> : e \in left} = {<<e, entries[e]>> : e \in left}
    BY <1>1, <2>1
  <2>4. Bytes(entries', left) = Bytes(entries, left)
    BY <2>3 DEF Bytes
  <2>5. IsFiniteSet(CachedKeys)
    BY <2>1, FS_Subset
  <2>6. Cardinality(left) <= Cardinality(CachedKeys) /\ Cardinality(left) \in Nat
        /\ Cardinality(CachedKeys) \in Nat
    BY <2>1, <2>5, FS_Subset, FS_CardinalityType
  <2>7. Cardinality(left) <= MaxSize
    BY <2>6 DEF CacheWithinLimits
  <2>8. ~grown => Bytes(entries', left) <= MemoryLimit
    BY <2>2, <2>4 DEF CacheWithinLimits
  <2> QED
    BY <1>1, <1>2, <2>7, <2>8 DEF CacheWithinLimits
<1> QED
  BY <1>1, <1>2, <1>3, <1>4, <1>5, <1>6, <1>7 DEF EvictsLeastRecent

LEMMA SamePairs ==
  ASSUME NEW ks, NEW one \in SUBSET (ks \X ks), NEW other \in SUBSET (ks \X ks),
         \A a, b : <<a, b>> \in one <=> <<a, b>> \in other
  PROVE  one = other
<1>1. \A p \in ks \X ks : p = <<p[1], p[2]>>
  OBVIOUS
<1>2. \A p \in ks \X ks : p \in one <=> p \in other
  BY <1>1
<1> QED
  BY <1>2

LEMMA MarkWithin ==
  ASSUME NEW used, NEW order, Orders(order, used), NEW ks \in SUBSET used, NEW k
  PROVE  MarkRecentlyUsed(Within(order, ks), k) = Within(MarkRecentlyUsed(order, k), ks \cup {k})
<1> DEFINE one == MarkRecentlyUsed(Within(order, ks), k)
<1>1. Orders(Within(order, ks), ks)
  BY WithinOrders
<1>2. \A a, b : <<a, b>> \in Within(order, ks) <=> <<a, b>> \in order /\ a \in ks /\ b \in ks
  BY WithinPairs
<1>3. /\ one \subseteq (ks \cup {k}) \X (ks \cup {k})
      /\ \A a, b : <<a, b>> \in one <=>
           \/ <<a, b>> \in Within(order, ks) /\ a # k /\ b # k
           \/ b = k /\ a \in ks \cup {k}
  BY <1>1, MarkPairs
<1>4. Orders(MarkRecentlyUsed(order, k), used \cup {k})
  BY MarkOrders
<1>5. \A a, b : <<a, b>> \in MarkRecentlyUsed(order, k) <=>
           \/ <<a, b>> \in order /\ a # k /\ b # k
           \/ b = k /\ a \in used \cup {k}
  BY MarkPairs, Zenon
<1> DEFINE all == MarkRecentlyUsed(order, k)
           more == ks \cup {k}
<1> HIDE DEF all, more
<1>6. /\ Within(all, more) \subseteq (used \cup {k}) \X (used \cup {k})
      /\ \A a, b : <<a, b>> \in Within(all, more) <=> <<a, b>> \in all /\ a \in more /\ b \in more
  <2>1. Orders(all, used \cup {k})
    BY <1>4 DEF all
  <2> QED
    BY <2>1, WithinPairs, Zenon
<1>7. Within(all, more) \subseteq more \X more
  <2>1. Orders(all, used \cup {k}) /\ more \in SUBSET (used \cup {k})
    BY <1>4 DEF all, more
  <2>2. Orders(Within(all, more), more)
    BY <2>1, WithinOrders, Zenon
  <2> QED
    BY <2>2 DEF Orders
<1> HIDE DEF one
<1>8. \A a, b : <<a, b>> \in one <=> <<a, b>> \in Within(all, more)
  <2> SUFFICES ASSUME NEW a, NEW b
               PROVE  <<a, b>> \in one <=> <<a, b>> \in Within(all, more)
    OBVIOUS
  <2>1. <<a, b>> \in one <=> (<<a, b>> \in order /\ a \in ks /\ b \in ks /\ a # k /\ b # k) \/ (b = k /\ a \in ks \cup {k})
    BY <1>2, <1>3, Zenon
  <2>2. <<a, b>> \in all <=> (<<a, b>> \in order /\ a # k /\ b # k) \/ (b = k /\ a \in used \cup {k})
    BY <1>5, Zenon DEF all
  <2>3. <<a, b>> \in Within(all, more) <=> <<a, b>> \in all /\ a \in more /\ b \in more
    BY <1>6, Zenon
  <2> QED
    BY <2>1, <2>2, <2>3 DEF more
<1>9. one \in SUBSET (more \X more) /\ Within(all, more) \in SUBSET (more \X more)
  BY <1>3, <1>7 DEF more
<1>10. one = Within(all, more)
  <2> DEFINE within == Within(all, more)
  <2>1. within \in SUBSET (more \X more) /\ \A a, b : <<a, b>> \in one <=> <<a, b>> \in within
    BY <1>8, <1>9, Zenon
  <2> HIDE DEF within
  <2>2. one = within
    BY <1>9, <2>1, SamePairs
  <2> QED
    BY <2>2, Zenon DEF within
<1> QED
  BY <1>10, Zenon DEF one, all, more

LEMMA WithinWithin ==
  ASSUME NEW order, NEW ks, NEW some \in SUBSET ks
  PROVE  Within(Within(order, ks), some) = Within(order, some)
BY DEF Within

(* What is used now is last among what was ever used and among what is     *)
(* cached alike.                                                           *)
LEMMA UseMarks ==
  ASSUME CacheWell, NEW k \in Keys, usedLast' = MarkRecentlyUsed(usedLast, k)
  PROVE  /\ MarkRecentlyUsed(recency, k) = Within(usedLast', CachedKeys \cup {k})
         /\ Orders(MarkRecentlyUsed(recency, k), CachedKeys \cup {k})
         /\ Orders(usedLast', {e \in Keys : Used(e)}')
         /\ \A e \in Keys : Used(e)' <=> Used(e) \/ e = k
<1> DEFINE used == {e \in Keys : Used(e)}
<1>1. Orders(usedLast, used) /\ Orders(recency, CachedKeys) /\ recency = Within(usedLast, CachedKeys)
  BY DEF CacheWell, EvictsLeastRecent
<1>2. CachedKeys \in SUBSET used
  <2>1. \A e \in CachedKeys : <<e, e>> \in recency
    BY <1>1 DEF Orders
  <2>2. \A e \in CachedKeys : <<e, e>> \in usedLast
    BY <1>1, <2>1 DEF Within
  <2> QED
    BY <2>2 DEF Used, CachedKeys
<1>3. \A e \in used : <<e, e>> \in usedLast
  BY DEF Used
<1>4. used \in SUBSET Keys /\ \A e \in Keys : e \in used <=> Used(e)
  OBVIOUS
<1> HIDE DEF used
<1>5. MarkRecentlyUsed(Within(usedLast, CachedKeys), k) = Within(MarkRecentlyUsed(usedLast, k), CachedKeys \cup {k})
  BY <1>1, <1>2, MarkWithin
<1>6. Orders(MarkRecentlyUsed(recency, k), CachedKeys \cup {k})
  BY <1>1, MarkOrders
<1>7. Orders(usedLast', used \cup {k})
  BY <1>1, MarkOrders
<1>8. \A a, b : <<a, b>> \in usedLast' <=>
           \/ <<a, b>> \in usedLast /\ a # k /\ b # k
           \/ b = k /\ a \in used \cup {k}
  <2>1. \A a, b : <<a, b>> \in MarkRecentlyUsed(usedLast, k) <=>
             \/ <<a, b>> \in usedLast /\ a # k /\ b # k
             \/ b = k /\ a \in used \cup {k}
    BY <1>1, MarkPairs, Zenon
  <2> QED
    BY <2>1, Zenon
<1>9. \A e \in Keys : Used(e)' <=> Used(e) \/ e = k
  BY <1>4, <1>8 DEF Used
<1>10. {e \in Keys : Used(e)}' = used \cup {k}
  <2>1. {e \in Keys : Used(e)}' = {e \in Keys : Used(e)'}
    OBVIOUS
  <2> QED
    BY <1>4, <1>9, <2>1
<1> QED
  BY <1>1, <1>5, <1>6, <1>7, <1>9, <1>10

LEMMA ReplacedKeeps ==
  ASSUME CacheWell, NEW k \in Keys, NEW version \in 1..MaxVersion[k], Cached(k), Replaced(k, version),
         usedLast' = MarkRecentlyUsed(usedLast, k)
  PROVE  /\ CacheWell'
         /\ \A e \in Keys : entries'[e] = IF e = k THEN version ELSE entries[e]
<1> USE DEF CacheWell
<1> DEFINE es == [entries EXCEPT ![k] = version]
<1>0. version # NoRow /\ version \in Versions
  BY DEF Versions
<1>1. /\ recency' = MarkRecentlyUsed(recency, k) /\ entries' = es
      /\ \A e \in Keys : entries'[e] = IF e = k THEN version ELSE entries[e]
      /\ entries' \in [Keys -> Versions \cup {NoRow}]
  BY <1>0 DEF Replaced
<1>2. grown' = (grown \/ Bytes(es, CachedKeys) > Bytes(entries, CachedKeys))
  BY DEF Replaced
<1> HIDE DEF es
<1>3. CachedKeys' = CachedKeys /\ CachedKeys \cup {k} = CachedKeys /\ CachedKeys \in SUBSET Keys
  BY <1>0, <1>1 DEF CachedKeys, Cached
<1>4. \A e \in Keys : entries'[e] = NoRow \/ entries'[e] \in 1..MaxVersion[e]
  BY <1>1
<1>5. /\ recency' = Within(usedLast', CachedKeys) /\ Orders(recency', CachedKeys)
      /\ Orders(usedLast', {e \in Keys : Used(e)}')
  BY <1>1, <1>3, UseMarks, ZenonT(60)
<1>6. /\ \A e \in CachedKeys : entries[e] \in 1..MaxVersion[e]
      /\ \A e \in CachedKeys : es[e] \in 1..MaxVersion[e]
  BY <1>1, <1>3, <1>4 DEF CachedKeys, Cached
<1>7. Bytes(entries, CachedKeys) \in Nat /\ Bytes(es, CachedKeys) \in Nat
  BY <1>3, <1>6, BytesOfLess
<1>8. grown' \in BOOLEAN
  BY <1>2, Zenon
<1>9. ~grown' => ~grown /\ ~(Bytes(es, CachedKeys) > Bytes(entries, CachedKeys))
  BY <1>2, Zenon
<1>10. ~grown => Bytes(entries, CachedKeys) <= MemoryLimit
  BY DEF CacheWithinLimits
<1>11. ~grown' => Bytes(es, CachedKeys) <= MemoryLimit
  BY <1>7, <1>9, <1>10
<1>12. CacheWithinLimits'
  BY <1>1, <1>3, <1>11 DEF CacheWithinLimits
<1> QED
  BY <1>1, <1>3, <1>4, <1>5, <1>8, <1>12 DEF EvictsLeastRecent

LEMMA InsertedKeeps ==
  ASSUME CacheWell, NEW k \in Keys, NEW version \in 1..MaxVersion[k], ~Cached(k), Inserted(k, version),
         usedLast' = MarkRecentlyUsed(usedLast, k)
  PROVE  /\ CacheWell'
         /\ \A e \in Keys : entries'[e] # NoRow => entries'[e] = IF e = k THEN version ELSE entries[e]
<1> USE DEF CacheWell
<1> DEFINE es == [entries EXCEPT ![k] = version]
           order == MarkRecentlyUsed(recency, k)
           ks == CachedKeys \cup {k}
<1>0. version # NoRow /\ version \in Versions
  BY DEF Versions
<1>1. /\ es \in [Keys -> Versions \cup {NoRow}]
      /\ \A e \in Keys : es[e] = IF e = k THEN version ELSE entries[e]
      /\ \A e \in ks : es[e] # NoRow /\ es[e] \in 1..MaxVersion[e]
  BY <1>0 DEF CachedKeys, Cached
<1>2. PICK most \in SizeEvicted(order, ks) : \E kept \in MemoryEvicted(order, es, most) :
        /\ recency' = Within(order, kept)
        /\ entries' = [e \in Keys |-> IF e \in kept THEN es[e] ELSE NoRow]
        /\ grown' = FALSE
  BY DEF Inserted
<1>3. PICK kept \in MemoryEvicted(order, es, most) :
        /\ recency' = Within(order, kept)
        /\ entries' = [e \in Keys |-> IF e \in kept THEN es[e] ELSE NoRow]
        /\ grown' = FALSE
  BY <1>2
<1> HIDE DEF es, order
<1>4. ks \in SUBSET Keys /\ IsFiniteSet(ks) /\ Cardinality(ks) <= MaxSize + 1 /\ Cardinality(ks) \in Nat
  <2>1. CachedKeys \in SUBSET Keys /\ k \notin CachedKeys
    BY DEF CachedKeys
  <2>2. IsFiniteSet(CachedKeys)
    BY <2>1, FS_Subset
  <2>3. IsFiniteSet(ks) /\ Cardinality(ks) = Cardinality(CachedKeys) + 1
    BY <2>1, <2>2, FS_AddElement
  <2> QED
    BY <2>1, <2>2, <2>3, FS_CardinalityType DEF CacheWithinLimits
<1> HIDE DEF ks
<1>5. most \in SUBSET ks /\ Cardinality(most) <= MaxSize
  <2>1. CASE Cardinality(ks) <= MaxSize
    BY <1>2, <2>1 DEF SizeEvicted
  <2>2. CASE ~(Cardinality(ks) <= MaxSize)
    <3>1. PICK old \in ks : most = ks \ {old}
      BY <1>2, <2>2 DEF SizeEvicted
    <3>2. Cardinality(ks \ {old}) = Cardinality(ks) - 1
      BY <1>4, FS_RemoveElement
    <3> QED
      BY <1>4, <3>1, <3>2
  <2> QED
    BY <2>1, <2>2
<1>6. kept \in SUBSET most /\ Bytes(es, kept) <= MemoryLimit
  BY <1>3 DEF MemoryEvicted, Latest
<1>7. kept \in SUBSET ks /\ kept \in SUBSET Keys
  BY <1>4, <1>5, <1>6
<1>8. Cardinality(kept) <= MaxSize
  <2>1. IsFiniteSet(most)
    BY <1>4, <1>5, FS_Subset
  <2> QED
    BY <1>5, <1>6, <2>1, FS_Subset, FS_CardinalityType
<1>9. /\ entries' \in [Keys -> Versions \cup {NoRow}]
      /\ \A e \in Keys : entries'[e] = IF e \in kept THEN es[e] ELSE NoRow
  BY <1>1, <1>3
<1>10. CachedKeys' = kept
  BY <1>1, <1>7, <1>9 DEF CachedKeys, Cached
<1>11. \A e \in Keys : entries'[e] = NoRow \/ entries'[e] \in 1..MaxVersion[e]
  BY <1>1, <1>7, <1>9
<1>12. \A e \in Keys : entries'[e] # NoRow => entries'[e] = IF e = k THEN version ELSE entries[e]
  BY <1>1, <1>7, <1>9
<1>13. /\ order = Within(usedLast', ks) /\ Orders(order, ks)
       /\ Orders(usedLast', {e \in Keys : Used(e)}')
  BY UseMarks DEF order, ks
<1>14. recency' = Within(usedLast', kept) /\ Orders(recency', kept)
  BY <1>3, <1>7, <1>13, WithinWithin, WithinOrders
<1>15. Bytes(entries', kept) = Bytes(es, kept)
  <2>1. {<<e, entries'[e]>> : e \in kept} = {<<e, es[e]>> : e \in kept}
    BY <1>7, <1>9
  <2> QED
    BY <2>1 DEF Bytes
<1>16. CacheWithinLimits' /\ grown' \in BOOLEAN
  BY <1>3, <1>6, <1>8, <1>10, <1>15 DEF CacheWithinLimits
<1> QED
  BY <1>9, <1>10, <1>11, <1>12, <1>13, <1>14, <1>16 DEF EvictsLeastRecent

LEMMA SetKeeps ==
  ASSUME CacheWell, NEW k \in Keys, NEW version \in 1..MaxVersion[k], CacheSet(k, version)
  PROVE  /\ CacheWell'
         /\ \A e \in Keys : entries'[e] # NoRow => entries'[e] = IF e = k THEN version ELSE entries[e]
         /\ \A e \in Keys : Used(e)' <=> Used(e) \/ e = k
<1>1. usedLast' = MarkRecentlyUsed(usedLast, k)
  BY DEF CacheSet
<1>2. \A e \in Keys : Used(e)' <=> Used(e) \/ e = k
  BY <1>1, UseMarks
<1>3. CASE Cached(k) /\ Replaced(k, version)
  BY <1>1, <1>2, <1>3, ReplacedKeeps
<1>4. CASE ~Cached(k) /\ Inserted(k, version)
  BY <1>1, <1>2, <1>4, InsertedKeeps
<1> QED
  BY <1>3, <1>4, Zenon DEF CacheSet

LEMMA UseKeeps ==
  ASSUME CacheWell, NEW k \in Keys, FindCached(k)
  PROVE  /\ CacheWell' /\ \A e \in Keys : Used(e)' <=> Used(e) \/ e = k
<1> USE DEF CacheWell
<1>1. /\ usedLast' = MarkRecentlyUsed(usedLast, k) /\ recency' = MarkRecentlyUsed(recency, k)
      /\ entries' = entries /\ grown' = grown /\ Cached(k)
  BY DEF FindCached
<1>2. CachedKeys' = CachedKeys /\ CachedKeys \cup {k} = CachedKeys
  BY <1>1 DEF CachedKeys, Cached
<1>3. /\ recency' = Within(usedLast', CachedKeys) /\ Orders(recency', CachedKeys)
      /\ Orders(usedLast', {e \in Keys : Used(e)}') /\ \A e \in Keys : Used(e)' <=> Used(e) \/ e = k
  BY <1>1, <1>2, UseMarks
<1>4. CacheWithinLimits'
  BY <1>1, <1>2 DEF CacheWithinLimits
<1> QED
  BY <1>1, <1>2, <1>3, <1>4 DEF EvictsLeastRecent

-----------------------------------------------------------------------------
(* The calls, the table and the cache together.                            *)

Going == [Callers -> CacheCalls \cup {NoRow}]

LEMMA WellIs ==
  ASSUME CacheInv
  PROVE  /\ CacheWell /\ cacheCalls \in Going /\ overtaken \in SUBSET Keys
         /\ records \in [Keys -> Versions \cup {NoRow}]
         /\ \A k \in Keys : records[k] = NoRow \/ records[k] \in 1..MaxVersion[k]
         /\ \A k \in Keys : records[k] # NoRow => Used(k)
BY Zenon DEF CacheInv, StorageInvariant, StorageTypeOK, CacheWell, Going

LEMMA StillIs ==
  ASSUME NEW what \in {"update", "delete", "forget"}, NEW ks \in SUBSET Keys
  PROVE  /\ Still(what, ks) \in CacheCalls \cup {NoRow}
         /\ Still(what, ks) # NoRow => Still(what, ks).what = what /\ Still(what, ks).keys = ks
         /\ ks # {} => Still(what, ks) # NoRow
<1> DEFINE call == [what |-> what, keys |-> ks]
<1>1. call \in CacheCalls /\ call.what = what /\ call.keys = ks
  BY DEF CacheCalls
<1>2. call # NoRow
  BY <1>1
<1> HIDE DEF call
<1>3. Still(what, ks) = IF what = "forget" /\ ks = {} THEN NoRow ELSE call
  BY DEF Still, call
<1> QED
  BY <1>1, <1>2, <1>3

LEMMA CallChanges ==
  ASSUME cacheCalls \in Going, NEW c \in Callers, NEW next \in CacheCalls \cup {NoRow},
         cacheCalls' = [cacheCalls EXCEPT ![c] = next]
  PROVE  cacheCalls' \in Going /\ \A d \in Callers : cacheCalls'[d] = IF d = c THEN next ELSE cacheCalls[d]
BY DEF Going

Forgotten(k) == \E c \in Callers : Does(c, "forget") /\ k \in cacheCalls[c].keys
FreshAt(k) == entries[k] # NoRow => entries[k] = records[k] \/ (records[k] = NoRow /\ Forgotten(k))
ReadAt(c) ==
  /\ cacheCalls[c].key \in Keys /\ Used(cacheCalls[c].key)
  /\ cacheCalls[c].version \in 1..MaxVersion[cacheCalls[c].key]
  /\ cacheCalls[c].key \notin overtaken => cacheCalls[c].version = records[cacheCalls[c].key]

LEMMA Partwise ==
  ASSUME CacheInv
  PROVE  /\ \A k \in Keys \ overtaken : FreshAt(k)
         /\ \A c \in Callers : Does(c, "cache") => ReadAt(c)
<1>1. \A k \in Keys \ overtaken : FreshAt(k)
  BY Zenon DEF CacheInv, StorageInvariant, CacheIsFresh, Cached, FreshAt, Forgotten
<1>2. ASSUME NEW c \in Callers, Does(c, "cache") PROVE ReadAt(c)
  <2>1. cacheCalls[c] \in CacheCalls /\ cacheCalls[c].what = "cache"
    BY <1>2, WellIs DEF Does, Going
  <2>2. cacheCalls[c].key \in Keys
    BY <2>1 DEF CacheCalls
  <2> QED
    BY <1>2, <2>2, Zenon DEF CacheInv, ReadsAreCurrent, ReadAt
<1> QED
  BY <1>1, <1>2

LEMMA Gathers ==
  ASSUME CacheWell', cacheCalls' \in Going, overtaken' \in SUBSET Keys,
         records' \in [Keys -> Versions \cup {NoRow}],
         \A k \in Keys : records'[k] = NoRow \/ records'[k] \in 1..MaxVersion[k],
         \A k \in Keys : records'[k] # NoRow => Used(k)',
         \A k \in Keys \ overtaken' : FreshAt(k)',
         \A c \in Callers : Does(c, "cache")' => ReadAt(c)'
  PROVE  CacheInv'
<1>1. StorageTypeOK'
  BY DEF CacheWell, StorageTypeOK, Going
<1>2. CacheIsFresh'
  BY DEF CacheIsFresh, FreshAt, Forgotten, Cached
<1>3. ReadsAreCurrent'
  BY DEF ReadsAreCurrent, ReadAt
<1> QED
  BY <1>1, <1>2, <1>3 DEF CacheInv, StorageInvariant, CacheWell

(* A write of the record k: reads of it in flight are overtaken.           *)
LEMMA OvertakesReads ==
  ASSUME CacheInv, NEW ks \in SUBSET Keys, Overtakes(ks)
  PROVE  /\ overtaken' \in SUBSET Keys /\ overtaken \subseteq overtaken'
         /\ \A c \in Callers : Does(c, "cache") /\ cacheCalls[c].key \in ks => cacheCalls[c].key \in overtaken'
BY WellIs DEF Overtakes, Does

LEMMA CreateKeeps ==
  ASSUME CacheInv, NEW k \in Keys, Create(k)
  PROVE  CacheInv'
<1>0. 1 \in 1..MaxVersion[k] /\ 1 \in Versions
  BY DEF Versions
<1>1. /\ CacheWell'
      /\ \A e \in Keys : entries'[e] # NoRow => entries'[e] = IF e = k THEN 1 ELSE entries[e]
      /\ \A e \in Keys : Used(e)' <=> Used(e) \/ e = k
  BY <1>0, WellIs, SetKeeps DEF Create
<1>2. /\ records' \in [Keys -> Versions \cup {NoRow}]
      /\ \A e \in Keys : records'[e] = IF e = k THEN 1 ELSE records[e]
      /\ cacheCalls' = cacheCalls /\ overtaken' = overtaken /\ ~Used(k)
  BY <1>0, WellIs DEF Create
<1>3. /\ \A e \in Keys : records'[e] = NoRow \/ records'[e] \in 1..MaxVersion[e]
      /\ \A e \in Keys : records'[e] # NoRow => Used(e)'
  BY <1>0, <1>1, <1>2, WellIs
<1>4. ASSUME NEW e \in Keys \ overtaken' PROVE FreshAt(e)'
  BY <1>1, <1>2, <1>4, Partwise DEF FreshAt, Forgotten, Does
<1>5. ASSUME NEW d \in Callers, Does(d, "cache")' PROVE ReadAt(d)'
  <2>1. Does(d, "cache") /\ ReadAt(d)
    BY <1>2, <1>5, Partwise DEF Does
  <2> QED
    BY <1>1, <1>2, <2>1 DEF ReadAt
<1> QED
  BY <1>1, <1>2, <1>3, <1>4, <1>5, WellIs, Gathers

LEMMA LookingKeeps ==
  ASSUME CacheInv, NEW k \in Keys, FindCached(k) \/ EntryExpires(k)
  PROVE  CacheInv'
<1>1. /\ CacheWell' /\ \A e \in Keys : Used(e) => Used(e)'
      /\ \A e \in Keys : entries'[e] # NoRow => entries'[e] = entries[e]
  <2>1. CASE FindCached(k)
    <3>1. CacheWell' /\ \A e \in Keys : Used(e)' <=> Used(e) \/ e = k
      BY <2>1, WellIs, UseKeeps
    <3> QED
      BY <2>1, <3>1 DEF FindCached
  <2>2. CASE EntryExpires(k)
    <3>1. CacheDelete(k)
      BY <2>2 DEF EntryExpires
    <3> QED
      BY <3>1, WellIs, EntryDropKeeps DEF Used
  <2> QED
    BY <2>1, <2>2
<1>2. records' = records /\ cacheCalls' = cacheCalls /\ overtaken' = overtaken
  BY DEF FindCached, EntryExpires
<1>3. ASSUME NEW e \in Keys \ overtaken' PROVE FreshAt(e)'
  BY <1>1, <1>2, <1>3, Partwise DEF FreshAt, Forgotten, Does
<1>4. ASSUME NEW d \in Callers, Does(d, "cache")' PROVE ReadAt(d)'
  <2>1. Does(d, "cache") /\ ReadAt(d)
    BY <1>2, <1>4, Partwise DEF Does
  <2> QED
    BY <1>1, <1>2, <2>1 DEF ReadAt
<1> QED
  BY <1>1, <1>2, <1>3, <1>4, WellIs, Gathers

LEMMA FindKeeps ==
  ASSUME CacheInv, NEW c \in Callers, NEW k \in Keys, FindRecord(c, k)
  PROVE  CacheInv'
<1> DEFINE next == [what |-> "cache", key |-> k, version |-> records[k]]
<1>0. records[k] \in 1..MaxVersion[k] /\ records[k] \in Versions
  BY WellIs DEF FindRecord, Versions
<1>1. /\ CacheWell'
      /\ \A e \in Keys : entries'[e] # NoRow => entries'[e] = IF e = k THEN records[k] ELSE entries[e]
      /\ \A e \in Keys : Used(e)' <=> Used(e) \/ e = k
  BY <1>0, WellIs, SetKeeps DEF FindRecord
<1>2. /\ next \in CacheCalls \cup {NoRow} /\ next.what = "cache" /\ next.key = k /\ next.version = records[k]
      /\ records' = records /\ overtaken' = overtaken
      /\ cacheCalls[c] = NoRow /\ cacheCalls' = [cacheCalls EXCEPT ![c] = next]
  BY <1>0 DEF FindRecord, Begins, CacheCalls
<1> HIDE DEF next
<1>3. cacheCalls' \in Going /\ \A d \in Callers : cacheCalls'[d] = IF d = c THEN next ELSE cacheCalls[d]
  <2>1. cacheCalls \in Going
    BY WellIs
  <2> QED
    BY <1>2, <2>1 DEF Going
<1>4. ASSUME NEW e \in Keys \ overtaken' PROVE FreshAt(e)'
  BY <1>1, <1>2, <1>3, <1>4, Partwise DEF FreshAt, Forgotten, Does
<1>5. ASSUME NEW d \in Callers, Does(d, "cache")' PROVE ReadAt(d)'
  <2>1. CASE d = c
    BY <1>0, <1>1, <1>2, <1>3, <2>1 DEF ReadAt
  <2>2. CASE d # c
    <3>1. Does(d, "cache") /\ ReadAt(d) /\ cacheCalls'[d] = cacheCalls[d]
      BY <1>3, <1>5, <2>2, Partwise DEF Does
    <3> QED
      BY <1>1, <1>2, <3>1 DEF ReadAt
  <2> QED
    BY <2>1, <2>2
<1> QED
  BY <1>1, <1>2, <1>3, <1>4, <1>5, WellIs, Gathers

LEMMA FoundKeeps ==
  ASSUME CacheInv, NEW c \in Callers, FoundIsCached(c)
  PROVE  CacheInv'
<1> DEFINE k == cacheCalls[c].key
           version == cacheCalls[c].version
<1>0. Does(c, "cache") /\ ReadAt(c)
  BY Partwise DEF FoundIsCached
<1>1. /\ k \in Keys /\ version \in 1..MaxVersion[k] /\ Used(k)
      /\ k \notin overtaken => version = records[k]
  BY <1>0 DEF ReadAt
<1>2. /\ CacheSet(k, version) /\ records' = records /\ overtaken' = overtaken
      /\ cacheCalls' = [cacheCalls EXCEPT ![c] = NoRow]
  BY DEF FoundIsCached, GoesOn
<1> HIDE DEF k, version
<1>3. /\ CacheWell'
      /\ \A e \in Keys : entries'[e] # NoRow => entries'[e] = IF e = k THEN version ELSE entries[e]
      /\ \A e \in Keys : Used(e)' <=> Used(e) \/ e = k
  BY <1>1, <1>2, WellIs, SetKeeps
<1>4. cacheCalls' \in Going /\ \A d \in Callers : cacheCalls'[d] = IF d = c THEN NoRow ELSE cacheCalls[d]
  <2>1. cacheCalls \in Going
    BY WellIs
  <2> QED
    BY <1>2, <2>1 DEF Going
<1>5. ASSUME NEW e \in Keys \ overtaken' PROVE FreshAt(e)'
  <2>1. FreshAt(e)
    BY <1>2, Partwise
  <2>2. Forgotten(e) => Forgotten(e)'
    BY <1>0, <1>4 DEF Forgotten, Does
  <2> QED
    BY <1>1, <1>2, <1>3, <2>1, <2>2 DEF FreshAt
<1>6. ASSUME NEW d \in Callers, Does(d, "cache")' PROVE ReadAt(d)'
  <2>1. Does(d, "cache") /\ ReadAt(d) /\ cacheCalls'[d] = cacheCalls[d]
    BY <1>4, <1>6, Partwise DEF Does
  <2> QED
    BY <1>2, <1>3, <2>1 DEF ReadAt
<1> QED
  BY <1>2, <1>3, <1>4, <1>5, <1>6, WellIs, Gathers

(* An update of one record, by a call that goes on with something else than*)
(* a read.                                                                 *)
LEMMA UpdateKeeps ==
  ASSUME CacheInv, NEW c \in Callers, NEW k \in Keys, Updates(k), CacheSet(k, records[k] + 1),
         NEW next \in CacheCalls \cup {NoRow}, next # NoRow => next.what # "cache",
         cacheCalls[c] = NoRow \/ Does(c, "update"), cacheCalls' = [cacheCalls EXCEPT ![c] = next]
  PROVE  CacheInv'
<1>0. records[k] + 1 \in 1..MaxVersion[k] /\ records[k] + 1 \in Versions
  BY WellIs DEF Updates, Versions
<1>1. /\ CacheWell'
      /\ \A e \in Keys : entries'[e] # NoRow => entries'[e] = IF e = k THEN records[k] + 1 ELSE entries[e]
      /\ \A e \in Keys : Used(e)' <=> Used(e) \/ e = k
  BY <1>0, WellIs, SetKeeps
<1>2. /\ records' \in [Keys -> Versions \cup {NoRow}]
      /\ \A e \in Keys : records'[e] = IF e = k THEN records[k] + 1 ELSE records[e]
  BY <1>0, WellIs DEF Updates
<1>3. /\ overtaken' \in SUBSET Keys /\ overtaken \subseteq overtaken'
      /\ \A d \in Callers : Does(d, "cache") /\ cacheCalls[d].key \in {k} => cacheCalls[d].key \in overtaken'
  <2>1. Overtakes({k}) /\ {k} \in SUBSET Keys
    BY DEF Updates
  <2> QED
    BY <2>1, OvertakesReads
<1>4. cacheCalls' \in Going /\ \A d \in Callers : cacheCalls'[d] = IF d = c THEN next ELSE cacheCalls[d]
  <2>1. cacheCalls \in Going
    BY WellIs
  <2> QED
    BY <2>1 DEF Going
<1>5. /\ \A e \in Keys : records'[e] = NoRow \/ records'[e] \in 1..MaxVersion[e]
      /\ \A e \in Keys : records'[e] # NoRow => Used(e)'
  BY <1>0, <1>1, <1>2, WellIs
<1>6. ASSUME NEW e \in Keys \ overtaken' PROVE FreshAt(e)'
  <2>1. FreshAt(e)
    BY <1>3, Partwise
  <2>2. Forgotten(e) => Forgotten(e)'
    BY <1>4 DEF Forgotten, Does
  <2> QED
    BY <1>1, <1>2, <2>1, <2>2 DEF FreshAt
<1>7. ASSUME NEW d \in Callers, Does(d, "cache")' PROVE ReadAt(d)'
  <2>1. Does(d, "cache") /\ ReadAt(d) /\ cacheCalls'[d] = cacheCalls[d]
    BY <1>4, <1>7, Partwise DEF Does
  <2> QED
    BY <1>1, <1>2, <1>3, <2>1 DEF ReadAt
<1> QED
  BY <1>1, <1>2, <1>3, <1>4, <1>5, <1>6, <1>7, Gathers

(* Records that go, with their entries or with a forget for them begun.    *)
LEMMA DeletionKeeps ==
  ASSUME CacheInv, NEW c \in Callers, NEW ks \in SUBSET Keys, Overtakes(ks),
         CacheWell', usedLast' = usedLast,
         \A e \in Keys : entries'[e] # NoRow => entries'[e] = entries[e],
         records' = [e \in Keys |-> IF e \in ks THEN NoRow ELSE records[e]],
         NEW next \in CacheCalls \cup {NoRow}, next # NoRow => next.what # "cache",
         cacheCalls[c] = NoRow \/ Does(c, "delete"), cacheCalls' = [cacheCalls EXCEPT ![c] = next],
         \A e \in ks : entries'[e] = NoRow \/ (next # NoRow /\ next.what = "forget" /\ e \in next.keys)
  PROVE  CacheInv'
<1>1. /\ records' \in [Keys -> Versions \cup {NoRow}]
      /\ \A e \in Keys : records'[e] = IF e \in ks THEN NoRow ELSE records[e]
  BY WellIs
<1>2. \A e \in Keys : Used(e)' <=> Used(e)
  BY DEF Used
<1>3. /\ overtaken' \in SUBSET Keys /\ overtaken \subseteq overtaken'
      /\ \A d \in Callers : Does(d, "cache") /\ cacheCalls[d].key \in ks => cacheCalls[d].key \in overtaken'
  BY OvertakesReads
<1>4. cacheCalls' \in Going /\ \A d \in Callers : cacheCalls'[d] = IF d = c THEN next ELSE cacheCalls[d]
  <2>1. cacheCalls \in Going
    BY WellIs
  <2> QED
    BY <2>1 DEF Going
<1>5. /\ \A e \in Keys : records'[e] = NoRow \/ records'[e] \in 1..MaxVersion[e]
      /\ \A e \in Keys : records'[e] # NoRow => Used(e)'
  BY <1>1, <1>2, WellIs
<1>6. ASSUME NEW e \in Keys \ overtaken' PROVE FreshAt(e)'
  <2>1. FreshAt(e)
    BY <1>3, Partwise
  <2>2. Forgotten(e) => Forgotten(e)'
    BY <1>4 DEF Forgotten, Does
  <2>3. CASE e \in ks /\ entries'[e] # NoRow
    <3>1. Does(c, "forget")' /\ e \in cacheCalls'[c].keys
      BY <1>4, <2>3 DEF Does
    <3>2. Forgotten(e)'
      BY <3>1 DEF Forgotten
    <3> QED
      BY <1>1, <2>3, <3>2 DEF FreshAt
  <2>4. CASE ~(e \in ks /\ entries'[e] # NoRow)
    BY <1>1, <2>1, <2>2, <2>4 DEF FreshAt
  <2> QED
    BY <2>3, <2>4
<1>7. ASSUME NEW d \in Callers, Does(d, "cache")' PROVE ReadAt(d)'
  <2>1. Does(d, "cache") /\ ReadAt(d) /\ cacheCalls'[d] = cacheCalls[d]
    BY <1>4, <1>7, Partwise DEF Does
  <2> QED
    BY <1>1, <1>2, <1>3, <2>1 DEF ReadAt
<1> QED
  BY <1>1, <1>3, <1>4, <1>5, <1>6, <1>7, Gathers

LEMMA CallsKeep ==
  ASSUME CacheInv, UNCHANGED <<records, overtaken>>, CacheWell', usedLast' = usedLast,
         \A e \in Keys : entries'[e] # NoRow => entries'[e] = entries[e],
         NEW c \in Callers, NEW next \in CacheCalls \cup {NoRow}, next # NoRow => next.what # "cache",
         cacheCalls' = [cacheCalls EXCEPT ![c] = next],
         \A e \in Keys : Does(c, "forget") /\ e \in cacheCalls[c].keys =>
           entries'[e] = NoRow \/ (next # NoRow /\ next.what = "forget" /\ e \in next.keys)
  PROVE  CacheInv'
<1>1. \A e \in Keys : Used(e)' <=> Used(e)
  BY DEF Used
<1>2. cacheCalls' \in Going /\ \A d \in Callers : cacheCalls'[d] = IF d = c THEN next ELSE cacheCalls[d]
  <2>1. cacheCalls \in Going
    BY WellIs
  <2> QED
    BY <2>1 DEF Going
<1>3. ASSUME NEW e \in Keys \ overtaken' PROVE FreshAt(e)'
  <2>1. FreshAt(e)
    BY Partwise
  <2>2. CASE entries'[e] # NoRow
    <3>1. Forgotten(e) => Forgotten(e)'
      <4> SUFFICES ASSUME NEW d \in Callers, Does(d, "forget"), e \in cacheCalls[d].keys
                   PROVE  Forgotten(e)'
        BY DEF Forgotten
      <4>1. Does(d, "forget")' /\ e \in cacheCalls'[d].keys
        BY <1>2, <2>2 DEF Does
      <4> QED
        BY <4>1 DEF Forgotten
    <3> QED
      BY <2>1, <2>2, <3>1 DEF FreshAt
  <2>3. CASE entries'[e] = NoRow
    BY <2>3 DEF FreshAt
  <2> QED
    BY <2>2, <2>3
<1>4. ASSUME NEW d \in Callers, Does(d, "cache")' PROVE ReadAt(d)'
  <2>1. Does(d, "cache") /\ ReadAt(d) /\ cacheCalls'[d] = cacheCalls[d]
    BY <1>2, <1>4, Partwise DEF Does
  <2> QED
    BY <1>1, <2>1 DEF ReadAt
<1> QED
  BY <1>1, <1>2, <1>3, <1>4, WellIs, Gathers

LEMMA CallKeys ==
  ASSUME CacheInv, NEW c \in Callers, NEW what \in {"update", "delete", "forget"}, Does(c, what)
  PROVE  cacheCalls[c].keys \in SUBSET Keys
<1>1. cacheCalls[c] \in CacheCalls /\ cacheCalls[c].what = what
  BY WellIs DEF Does, Going
<1> QED
  BY <1>1 DEF CacheCalls

LEMMA CacheStep ==
  ASSUME CacheInv, StorageNext
  PROVE  CacheInv'
<1>1. CASE \E k \in Keys : Create(k) \/ FindCached(k) \/ EntryExpires(k)
  BY <1>1, CreateKeeps, LookingKeeps
<1>2. ASSUME NEW c \in Callers, NEW k \in Keys, FindRecord(c, k) PROVE CacheInv'
  BY <1>2, FindKeeps
<1>3. ASSUME NEW c \in Callers, FoundIsCached(c) PROVE CacheInv'
  BY <1>3, FoundKeeps
<1>4. ASSUME NEW c \in Callers, NEW k \in Keys, UpdateById(c, k) PROVE CacheInv'
  <2>1. /\ Still("forget", {k}) \in CacheCalls \cup {NoRow}
        /\ Still("forget", {k}) # NoRow => Still("forget", {k}).what # "cache"
    BY StillIs
  <2>2. /\ Updates(k) /\ CacheSet(k, records[k] + 1) /\ cacheCalls[c] = NoRow
        /\ cacheCalls' = [cacheCalls EXCEPT ![c] = Still("forget", {k})]
    BY <1>4 DEF UpdateById, Begins
  <2> QED
    BY <2>1, <2>2, UpdateKeeps
<1>5. ASSUME NEW c \in Callers, NEW k \in Keys, UpdateNext(c, k) PROVE CacheInv'
  <2> DEFINE left == cacheCalls[c].keys \ {k}
  <2>1. left \in SUBSET Keys
    BY <1>5, CallKeys DEF UpdateNext
  <2>2. Does(c, "update") /\ Updates(k) /\ CacheSet(k, records[k] + 1)
        /\ cacheCalls' = [cacheCalls EXCEPT ![c] = Still("update", left)]
    BY <1>5 DEF UpdateNext, GoesOn
  <2> HIDE DEF left
  <2>3. /\ Still("update", left) \in CacheCalls \cup {NoRow}
        /\ Still("update", left) # NoRow => Still("update", left).what # "cache"
    BY <2>1, StillIs
  <2> QED
    BY <2>2, <2>3, UpdateKeeps
<1>6. ASSUME NEW c \in Callers, NEW k \in Keys, DeleteNext(c, k) PROVE CacheInv'
  <2> DEFINE left == cacheCalls[c].keys \ {k}
  <2>1. left \in SUBSET Keys
    BY <1>6, CallKeys DEF DeleteNext
  <2>2. /\ Does(c, "delete") /\ Overtakes({k}) /\ CacheDelete(k)
        /\ records' = [records EXCEPT ![k] = NoRow]
        /\ cacheCalls' = [cacheCalls EXCEPT ![c] = Still("delete", left)]
    BY <1>6 DEF DeleteNext, GoesOn
  <2> HIDE DEF left
  <2>3. /\ Still("delete", left) \in CacheCalls \cup {NoRow}
        /\ Still("delete", left) # NoRow => Still("delete", left).what # "cache"
    BY <2>1, StillIs
  <2>4. CacheWell' /\ usedLast' = usedLast /\ \A e \in Keys : entries'[e] = IF e = k THEN NoRow ELSE entries[e]
    BY <2>2, WellIs, EntryDropKeeps
  <2>5. records' = [e \in Keys |-> IF e \in {k} THEN NoRow ELSE records[e]]
    BY <2>2, WellIs
  <2>6. \A e \in {k} : entries'[e] = NoRow
    BY <2>4
  <2>7. \A e \in Keys : entries'[e] # NoRow => entries'[e] = entries[e]
    BY <2>4
  <2>8. {k} \in SUBSET Keys
    OBVIOUS
  <2> QED
    <3> DEFINE next == Still("delete", left)
    <3>1. /\ next \in CacheCalls \cup {NoRow}
          /\ next # NoRow => next.what # "cache"
          /\ cacheCalls' = [cacheCalls EXCEPT ![c] = next]
      BY <2>2, <2>3
    <3>2. \A e \in {k} : entries'[e] = NoRow \/ (next # NoRow /\ next.what = "forget" /\ e \in next.keys)
      BY <2>6
    <3> HIDE DEF next
    <3>3. cacheCalls[c] = NoRow \/ Does(c, "delete")
      BY <2>2
    <3> QED
      BY <2>2, <2>4, <2>5, <2>7, <2>8, <3>1, <3>2, <3>3, DeletionKeeps, ZenonT(60)
<1>7. ASSUME NEW c \in Callers, NEW k \in Keys, Forget(c, k) PROVE CacheInv'
  <2> DEFINE left == cacheCalls[c].keys \ {k}
  <2>1. left \in SUBSET Keys
    BY <1>7, CallKeys DEF Forget
  <2>2. /\ Does(c, "forget") /\ CacheDelete(k) /\ UNCHANGED <<records, overtaken>>
        /\ cacheCalls' = [cacheCalls EXCEPT ![c] = Still("forget", left)]
    BY <1>7 DEF Forget, GoesOn
  <2>3. \A e \in Keys : e \in cacheCalls[c].keys => e = k \/ e \in left
    OBVIOUS
  <2> HIDE DEF left
  <2>4. CacheWell' /\ usedLast' = usedLast /\ \A e \in Keys : entries'[e] = IF e = k THEN NoRow ELSE entries[e]
    BY <2>2, WellIs, EntryDropKeeps
  <2>5. /\ Still("forget", left) \in CacheCalls \cup {NoRow}
        /\ Still("forget", left) # NoRow => Still("forget", left).what = "forget" /\ Still("forget", left).keys = left
        /\ left # {} => Still("forget", left) # NoRow
    BY <2>1, StillIs
  <2>6. \A e \in Keys : entries'[e] # NoRow => entries'[e] = entries[e]
    BY <2>4
  <2>7. \A e \in Keys : Does(c, "forget") /\ e \in cacheCalls[c].keys =>
          entries'[e] = NoRow \/ (Still("forget", left) # NoRow /\ Still("forget", left).what = "forget"
                                    /\ e \in Still("forget", left).keys)
    BY <2>3, <2>4, <2>5
  <2> QED
    BY <2>2, <2>4, <2>5, <2>6, <2>7, CallsKeep, ZenonT(60)
<1>8. ASSUME NEW c \in Callers, NEW ks \in Filtered, NEW what \in {"update", "delete"}, ChangeMany(c, what, ks)
      PROVE  CacheInv'
  <2>1. /\ cacheCalls[c] = NoRow /\ cacheCalls' = [cacheCalls EXCEPT ![c] = Still(what, ks)]
        /\ UNCHANGED <<records, overtaken, cacheVars>>
    BY <1>8 DEF ChangeMany, Begins
  <2>2. /\ Still(what, ks) \in CacheCalls \cup {NoRow}
        /\ Still(what, ks) # NoRow => Still(what, ks).what # "cache"
    BY StillIs
  <2>3. CacheWell' /\ usedLast' = usedLast /\ entries' = entries /\ UNCHANGED <<records, overtaken>>
    BY <2>1, WellIs DEF cacheVars, CacheWell, CachedKeys, Cached, Used, EvictsLeastRecent, CacheWithinLimits
  <2>4. ~Does(c, "forget")
    BY <2>1 DEF Does
  <2> QED
    BY <2>1, <2>2, <2>3, <2>4, CallsKeep
<1>9. ASSUME NEW c \in Callers, NEW ks \in Filtered \cup {{}, Keys}, ChangesDone(c, ks) PROVE CacheInv'
  <2>1. /\ cacheCalls' = [cacheCalls EXCEPT ![c] = Still("forget", ks)]
        /\ UNCHANGED <<records, overtaken, cacheVars>> /\ ~Does(c, "forget")
    BY <1>9 DEF ChangesDone, GoesOn, Does
  <2>2. /\ Still("forget", ks) \in CacheCalls \cup {NoRow}
        /\ Still("forget", ks) # NoRow => Still("forget", ks).what # "cache"
    BY StillIs
  <2>3. CacheWell' /\ usedLast' = usedLast /\ entries' = entries /\ UNCHANGED <<records, overtaken>>
    BY <2>1, WellIs DEF cacheVars, CacheWell, CachedKeys, Cached, Used, EvictsLeastRecent, CacheWithinLimits
  <2> QED
    BY <2>1, <2>2, <2>3, CallsKeep
<1>10. ASSUME NEW c \in Callers, DropTable(c) PROVE CacheInv'
  <2> DEFINE next == Still("forget", Keys)
             ks == Keys
  <2>1. /\ cacheCalls[c] = NoRow /\ cacheCalls' = [cacheCalls EXCEPT ![c] = next]
        /\ UNCHANGED cacheVars /\ Overtakes(ks)
        /\ records' = [e \in Keys |-> IF e \in ks THEN NoRow ELSE records[e]]
    BY <1>10 DEF DropTable, Begins
  <2>2. /\ next \in CacheCalls \cup {NoRow}
        /\ next # NoRow => next.what = "forget" /\ next.keys = Keys
        /\ Keys # {} => next # NoRow
    BY StillIs
  <2>3. CacheWell' /\ usedLast' = usedLast /\ \A e \in Keys : entries'[e] # NoRow => entries'[e] = entries[e]
    BY <2>1, WellIs DEF cacheVars, CacheWell, CachedKeys, Cached, Used, EvictsLeastRecent, CacheWithinLimits
  <2> HIDE DEF next
  <2>4. ks \in SUBSET Keys /\ (next # NoRow => next.what # "cache")
        /\ \A e \in ks : entries'[e] = NoRow \/ (next # NoRow /\ next.what = "forget" /\ e \in next.keys)
    BY <2>2
  <2> HIDE DEF ks
  <2> QED
    BY <2>1, <2>2, <2>3, <2>4, DeletionKeeps
<1> QED
  BY <1>1, <1>2, <1>3, <1>4, <1>5, <1>6, <1>7, <1>8, <1>9, <1>10 DEF StorageNext

LEMMA CacheBegins ==
  ASSUME StorageInit
  PROVE  CacheInv
<1>1. CachedKeys = {} /\ {k \in Keys : Used(k)} = {}
  BY DEF StorageInit, CachedKeys, Cached, Used
<1>2. Orders(recency, {}) /\ Orders(usedLast, {}) /\ recency = Within(usedLast, {})
  BY DEF StorageInit, Orders, Within
<1>3. CacheWithinLimits
  <2>1. Bytes(entries, {}) = BytesOf[{}]
    BY DEF Bytes
  <2>2. Cardinality({}) = 0
    BY FS_EmptySet
  <2> QED
    BY <1>1, <2>1, <2>2 DEF CacheWithinLimits
<1>4. StorageTypeOK
  BY <1>1, <1>2 DEF StorageInit, StorageTypeOK
<1>5. CacheIsFresh /\ ReadsAreCurrent /\ \A k \in Keys : records[k] = NoRow
  BY DEF StorageInit, CacheIsFresh, ReadsAreCurrent, Cached, Does
<1> QED
  BY <1>1, <1>2, <1>3, <1>4, <1>5 DEF CacheInv, StorageInvariant, EvictsLeastRecent

LEMMA CacheStays ==
  ASSUME CacheInv, UNCHANGED storageVars
  PROVE  CacheInv'
BY DEF storageVars, cacheVars, CacheInv, StorageInvariant, StorageTypeOK, CacheIsFresh, ReadsAreCurrent,
       EvictsLeastRecent, CacheWithinLimits, Cached, CachedKeys, Used, Does

(* Reads of the cache show the table, within the limits, in order of use.  *)
THEOREM CacheShowsTheTable == StorageSpec => []StorageInvariant
<1>1. StorageInit => CacheInv
  BY CacheBegins
<1>2. CacheInv /\ [StorageNext]_storageVars => CacheInv'
  BY CacheStep, CacheStays
<1>3. CacheInv => StorageInvariant
  BY DEF CacheInv
<1> QED
  BY <1>1, <1>2, <1>3, PTL DEF StorageSpec

HIDE StorageAssumption

-------------------------------------------------------------------------
(* The tables SQLite serves.                                             *)

USE SqliteAssumption

(* Where createTable() is: what it has seen of the table, and what it copied.*)
StatementFits ==
  /\ statement \in {"add", "dropCopy", "createCopy", "copy", "drop", "serving"} => table # NoRow
  /\ statement = "add" => \A c \in Declared : Has(table, c) \/ c \in adding
  /\ statement \in {"dropCopy", "createCopy", "copy", "drop"} => \A c \in Declared : Has(table, c)
  /\ statement \in {"copy", "drop", "rename"} =>
       copyTable # NoRow /\ copyTable.columns = Schemas[release]
  /\ statement = "drop" => copyTable.rows = Copied
  /\ statement = "rename" => table = NoRow

(* A table has the rows clients wrote, with their values in the columns every*)
(* release declares; between the DROP and the RENAME the copy has them.      *)
KeptIn(tbl) ==
  IF tbl = NoRow THEN DOMAIN written = {}
  ELSE /\ DOMAIN written = DOMAIN tbl.rows
       /\ \A r \in DOMAIN written : \A c \in Columns :
            (\A n \in DOMAIN Schemas : c \in DOMAIN Schemas[n]) =>
              (c \in written[r] <=> c \in tbl.rows[r])
RowsAreKept == ~swapCut => KeptIn(IF statement = "rename" THEN copyTable ELSE table)

SchemaInv == SqliteTypeOK /\ StatementFits /\ DeclaredColumnsFit /\ RowsAreKept

(* What it takes to be a table, with rows that have values in its columns.   *)
LEMMA SqlTable ==
  ASSUME NEW columns, DOMAIN columns \subseteq Columns, columns \in [DOMAIN columns -> {Required, Nullable}],
         NEW rows, DOMAIN rows \subseteq RowIds, rows \in [DOMAIN rows -> SUBSET Columns]
  PROVE  [columns |-> columns, rows |-> rows] \in SqlTables
<1>1. columns \in Schema
  BY DEF Schema
<1> QED
  BY <1>1 DEF SqlTables

LEMMA SqlTableParts ==
  ASSUME NEW tbl \in SqlTables
  PROVE  /\ tbl = [columns |-> tbl.columns, rows |-> tbl.rows]
         /\ DOMAIN tbl.columns \subseteq Columns
         /\ tbl.columns \in [DOMAIN tbl.columns -> {Required, Nullable}]
         /\ DOMAIN tbl.rows \subseteq RowIds
         /\ tbl.rows \in [DOMAIN tbl.rows -> SUBSET Columns]
BY DEF SqlTables, Schema

LEMMA ReleaseDeclares ==
  ASSUME NEW n \in DOMAIN Schemas
  PROVE  /\ DOMAIN Schemas[n] \subseteq Columns
         /\ Schemas[n] \in [DOMAIN Schemas[n] -> {Required, Nullable}]
<1>1. Schemas[n] \in Schema
  OBVIOUS
<1> QED
  BY <1>1 DEF Schema

LEMMA SchemaStarts ==
  ASSUME SchemaInv, NEW r \in DOMAIN Schemas, SqliteStarts(r)
  PROVE  SchemaInv'
BY DEF SchemaInv, SqliteTypeOK, StatementFits, DeclaredColumnsFit, RowsAreKept, KeptIn, SqliteStarts,
       sqlFile

LEMMA SchemaCreates ==
  ASSUME SchemaInv, CreateSqlTable
  PROVE  SchemaInv'
<1> DEFINE t == IF table = NoRow THEN [columns |-> Schemas[release], rows |-> NoRows] ELSE table
<1>1. /\ release \in DOMAIN Schemas /\ release' = release /\ statement' = "add" /\ statement = "create"
      /\ table' = t /\ adding' = {c \in Declared : ~Has(t, c)} /\ copyTable' = copyTable
      /\ written' = written /\ swapCut' = swapCut
  BY DEF SchemaInv, SqliteTypeOK, CreateSqlTable, Goes
<1>2. /\ t \in SqlTables /\ t # NoRow /\ \A r \in DOMAIN t.rows : t.rows[r] \subseteq DOMAIN t.columns
      /\ ~swapCut => KeptIn(t)
  <2>1. CASE table = NoRow
    <3>1. t = [columns |-> Schemas[release], rows |-> NoRows] /\ DOMAIN NoRows = {}
          /\ NoRows \in [DOMAIN NoRows -> SUBSET Columns]
      BY <2>1 DEF NoRows
    <3>2. t \in SqlTables
      BY <1>1, <3>1, ReleaseDeclares, SqlTable
    <3>3. ~swapCut => DOMAIN written = {}
      BY <1>1, <2>1 DEF SchemaInv, RowsAreKept, KeptIn
    <3> QED
      BY <3>1, <3>2, <3>3 DEF KeptIn
  <2>2. CASE table # NoRow
    BY <1>1, <2>2 DEF SchemaInv, SqliteTypeOK, RowsAreKept
  <2> QED
    BY <2>1, <2>2
<1>3. adding' \subseteq Columns
  BY <1>1, ReleaseDeclares DEF Declared
<1> HIDE DEF t
<1>4. SqliteTypeOK'
  BY <1>1, <1>2, <1>3 DEF SchemaInv, SqliteTypeOK
<1> QED
  BY <1>1, <1>2, <1>4 DEF SchemaInv, StatementFits, DeclaredColumnsFit, RowsAreKept, KeptIn, Declared

(* A column more changes no row.                                             *)
LEMMA SchemaAdds ==
  ASSUME SchemaInv, NEW c \in Columns, AddColumn(c)
  PROVE  SchemaInv'
<1>1. /\ statement = "add" /\ c \in adding /\ adding' = adding \ {c} /\ copyTable' = copyTable
      /\ release' = release /\ written' = written /\ swapCut' = swapCut
      /\ table # NoRow /\ table \in SqlTables
  BY DEF SchemaInv, SqliteTypeOK, StatementFits, AddColumn, Goes
<1>2. CASE statement' = "failed" /\ table' = table
  BY <1>1, <1>2 DEF SchemaInv, SqliteTypeOK, StatementFits, DeclaredColumnsFit, RowsAreKept, KeptIn
<1>3. CASE statement' = "add"
  <2> DEFINE columns == [d \in DOMAIN table.columns \cup {c} |-> IF d = c THEN Nullable ELSE table.columns[d]]
             t == [columns |-> columns, rows |-> table.rows]
  <2>1. table' = t
    BY <1>1, <1>3, SqlTableParts DEF AddColumn, Goes
  <2>2. /\ DOMAIN columns = DOMAIN table.columns \cup {c}
        /\ columns \in [DOMAIN columns -> {Required, Nullable}]
    BY <1>1, SqlTableParts
  <2> HIDE DEF columns
  <2>3. t \in SqlTables
    BY <1>1, <2>2, SqlTableParts, SqlTable
  <2>4. /\ t # NoRow /\ t.rows = table.rows /\ DOMAIN t.columns = DOMAIN table.columns \cup {c}
    BY <2>2, <2>3
  <2> HIDE DEF t
  <2>5. SqliteTypeOK'
    BY <1>1, <1>3, <2>1, <2>3, <2>4 DEF SchemaInv, SqliteTypeOK
  <2>6. \A d \in Declared : Has(t, d) \/ d \in adding'
    BY <1>1, <2>4 DEF SchemaInv, StatementFits, Has
  <2> QED
    BY <1>1, <1>3, <2>1, <2>4, <2>5, <2>6 DEF SchemaInv, StatementFits, DeclaredColumnsFit, RowsAreKept, KeptIn,
       Declared
<1> QED
  BY <1>2, <1>3 DEF AddColumn, Goes

LEMMA SchemaSyncs ==
  ASSUME SchemaInv, SchemaSynced \/ DropCopy
  PROVE  SchemaInv'
<1>1. CASE SchemaSynced
  <2>1. /\ statement = "add" /\ adding = {} /\ table' = table /\ copyTable' = copyTable /\ adding' = adding
        /\ release' = release /\ written' = written /\ swapCut' = swapCut
        /\ statement' = IF NeedsRebuild THEN "dropCopy" ELSE "serving"
    BY <1>1 DEF SchemaSynced, Goes, sqlFile
  <2>2. table # NoRow /\ table \in SqlTables /\ \A c \in Declared : Has(table, c)
    BY <2>1 DEF SchemaInv, SqliteTypeOK, StatementFits
  <2>3. ~NeedsRebuild => \A c \in Declared : Schemas[release][c] = Nullable => table.columns[c] = Nullable
    BY <2>2, SqlTableParts DEF NeedsRebuild, Has
  <2>4. SqliteTypeOK'
    BY <2>1 DEF SchemaInv, SqliteTypeOK
  <2>5. DeclaredColumnsFit'
    BY <2>1, <2>2, <2>3 DEF DeclaredColumnsFit, Declared, Has
  <2>6. StatementFits' /\ RowsAreKept'
    BY <2>1, <2>2 DEF SchemaInv, StatementFits, RowsAreKept, KeptIn, Declared, Has
  <2> QED
    BY <2>4, <2>5, <2>6 DEF SchemaInv
<1>2. CASE DropCopy
  BY <1>2 DEF SchemaInv, SqliteTypeOK, StatementFits, DeclaredColumnsFit, RowsAreKept, KeptIn, DropCopy, Goes,
     Declared, Has
<1> QED
  BY <1>1, <1>2

LEMMA SchemaCopies ==
  ASSUME SchemaInv, CreateCopy \/ CopyRows
  PROVE  SchemaInv'
<1>1. CASE CreateCopy
  <2>1. /\ statement = "createCopy" /\ statement' = "copy" /\ table' = table /\ adding' = adding
        /\ release' = release /\ written' = written /\ swapCut' = swapCut
        /\ copyTable' = [columns |-> Schemas[release], rows |-> NoRows]
        /\ release \in DOMAIN Schemas
    BY <1>1 DEF CreateCopy, Goes, SchemaInv, SqliteTypeOK
  <2>2. DOMAIN NoRows = {} /\ NoRows \in [DOMAIN NoRows -> SUBSET Columns]
    BY DEF NoRows
  <2>3. copyTable' \in SqlTables
    BY <2>1, <2>2, ReleaseDeclares, SqlTable
  <2>4. copyTable' # NoRow /\ copyTable'.columns = Schemas[release] /\ copyTable'.rows = NoRows
    BY <2>1, <2>3
  <2>5. SqliteTypeOK'
    BY <2>1, <2>2, <2>3, <2>4 DEF SchemaInv, SqliteTypeOK
  <2> QED
    BY <2>1, <2>4, <2>5 DEF SchemaInv, StatementFits, DeclaredColumnsFit, RowsAreKept, KeptIn, Declared, Has
<1>2. CASE CopyRows
  <2>1. /\ statement = "copy" /\ table' = table /\ adding' = adding
        /\ release' = release /\ written' = written /\ swapCut' = swapCut
        /\ table # NoRow /\ table \in SqlTables /\ copyTable # NoRow /\ copyTable \in SqlTables
        /\ copyTable.columns = Schemas[release] /\ release \in DOMAIN Schemas
    BY <1>2 DEF CopyRows, Goes, SchemaInv, SqliteTypeOK, StatementFits
  <2>2. CASE statement' = "failed" /\ copyTable' = copyTable
    BY <2>1, <2>2 DEF SchemaInv, SqliteTypeOK, StatementFits, DeclaredColumnsFit, RowsAreKept, KeptIn
  <2>3. CASE statement' = "drop" /\ copyTable' = [copyTable EXCEPT !.rows = Copied]
    <3> DEFINE t == [columns |-> copyTable.columns, rows |-> Copied]
    <3>1. copyTable' = t
      BY <2>1, <2>3, SqlTableParts
    <3>2. /\ DOMAIN Copied = DOMAIN table.rows /\ Copied \in [DOMAIN Copied -> SUBSET Columns]
          /\ \A r \in DOMAIN Copied : Copied[r] \subseteq DOMAIN Schemas[release]
      BY <2>1, SqlTableParts DEF Copied, Declared
    <3>3. t \in SqlTables
      BY <2>1, <3>2, SqlTableParts, SqlTable
    <3>4. t # NoRow /\ t.columns = Schemas[release] /\ t.rows = Copied
      BY <2>1, <3>3
    <3> HIDE DEF t
    <3>5. SqliteTypeOK'
      BY <2>1, <2>3, <3>1, <3>2, <3>3, <3>4 DEF SchemaInv, SqliteTypeOK
    <3>6. Copied' = Copied
      BY <2>1 DEF Copied, Declared
    <3> QED
      BY <2>1, <2>3, <3>1, <3>4, <3>5, <3>6
         DEF SchemaInv, StatementFits, DeclaredColumnsFit, RowsAreKept, KeptIn, Declared, Has
  <2> QED
    BY <1>2, <2>2, <2>3 DEF CopyRows, Goes
<1> QED
  BY <1>1, <1>2

LEMMA SchemaSwaps ==
  ASSUME SchemaInv, DropOldTable \/ RenameCopy
  PROVE  SchemaInv'
<1>1. CASE DropOldTable
  <2>1. /\ statement = "drop" /\ statement' = "rename" /\ table' = NoRow /\ copyTable' = copyTable
        /\ release' = release /\ written' = written /\ swapCut' = swapCut /\ adding' = adding
    BY <1>1 DEF DropOldTable, Goes
  <2>2. /\ copyTable # NoRow /\ copyTable.columns = Schemas[release] /\ copyTable.rows = Copied
        /\ table # NoRow /\ release \in DOMAIN Schemas
    BY <2>1 DEF SchemaInv, SqliteTypeOK, StatementFits
  <2>3. ~swapCut => KeptIn(copyTable)
    <3>1. ASSUME ~swapCut PROVE KeptIn(table)
      BY <2>1, <3>1 DEF SchemaInv, RowsAreKept
    <3>2. \A r \in DOMAIN table.rows : \A c \in Columns :
            (\A n \in DOMAIN Schemas : c \in DOMAIN Schemas[n]) =>
              (c \in table.rows[r] <=> c \in Copied[r])
      BY <2>2 DEF Copied, Declared
    <3>3. DOMAIN Copied = DOMAIN table.rows
      BY DEF Copied
    <3> QED
      BY <2>2, <3>1, <3>2, <3>3 DEF KeptIn
  <2>4. SqliteTypeOK'
    BY <2>1 DEF SchemaInv, SqliteTypeOK
  <2> QED
    BY <2>1, <2>2, <2>3, <2>4 DEF SchemaInv, StatementFits, DeclaredColumnsFit, RowsAreKept, KeptIn
<1>2. CASE RenameCopy
  <2>1. /\ statement = "rename" /\ statement' = "serving" /\ table' = copyTable /\ copyTable' = NoRow
        /\ release' = release /\ written' = written /\ swapCut' = swapCut /\ adding' = adding
    BY <1>2 DEF RenameCopy, Goes
  <2>2. copyTable # NoRow /\ copyTable.columns = Schemas[release] /\ release \in DOMAIN Schemas
    BY <2>1 DEF SchemaInv, SqliteTypeOK, StatementFits
  <2>3. SqliteTypeOK'
    BY <2>1 DEF SchemaInv, SqliteTypeOK
  <2>4. DeclaredColumnsFit'
    BY <2>1, <2>2 DEF DeclaredColumnsFit, Declared, Has
  <2> QED
    BY <2>1, <2>2, <2>3, <2>4 DEF SchemaInv, StatementFits, RowsAreKept, KeptIn
<1> QED
  BY <1>1, <1>2

LEMMA SchemaInserts ==
  ASSUME SchemaInv, NEW r \in RowIds, NEW cs \in SUBSET Columns, Insert(r, cs)
  PROVE  SchemaInv'
<1> DEFINE rows == [s \in DOMAIN table.rows \cup {r} |-> IF s = r THEN cs ELSE table.rows[s]]
           t == [columns |-> table.columns, rows |-> rows]
<1>1. /\ statement = "serving" /\ statement' = "serving" /\ release' = release /\ swapCut' = swapCut
      /\ copyTable' = copyTable /\ adding' = adding /\ cs \subseteq Declared
      /\ written' = [s \in DOMAIN written \cup {r} |-> IF s = r THEN cs ELSE written[s]]
      /\ table # NoRow /\ table \in SqlTables /\ r \notin DOMAIN table.rows
      /\ \A c \in Declared : Has(table, c)
      /\ \A s \in DOMAIN table.rows : table.rows[s] \subseteq DOMAIN table.columns
  BY DEF Insert, SchemaInv, SqliteTypeOK, StatementFits, DeclaredColumnsFit
<1>2. table' = t
  BY <1>1, SqlTableParts DEF Insert
<1>3. /\ DOMAIN rows = DOMAIN table.rows \cup {r} /\ DOMAIN rows \subseteq RowIds
      /\ rows \in [DOMAIN rows -> SUBSET Columns]
      /\ \A s \in DOMAIN rows : rows[s] = IF s = r THEN cs ELSE table.rows[s]
      /\ \A s \in DOMAIN rows : rows[s] \subseteq DOMAIN table.columns
  BY <1>1, SqlTableParts DEF Has
<1> HIDE DEF rows
<1>4. t \in SqlTables
  BY <1>1, <1>3, SqlTableParts, SqlTable
<1>5. t # NoRow /\ t.columns = table.columns /\ t.rows = rows
  BY <1>4
<1> HIDE DEF t
<1>6. SqliteTypeOK'
  BY <1>1, <1>2, <1>3, <1>4, <1>5 DEF SchemaInv, SqliteTypeOK
<1>7. RowsAreKept'
  <2> SUFFICES ASSUME ~swapCut PROVE KeptIn(table)'
    BY <1>1 DEF RowsAreKept
  <2>1. KeptIn(table)
    BY <1>1 DEF SchemaInv, RowsAreKept
  <2> QED
    BY <1>1, <1>2, <1>3, <1>5, <2>1 DEF KeptIn
<1>8. DeclaredColumnsFit'
  BY <1>1, <1>2, <1>5 DEF SchemaInv, DeclaredColumnsFit, Declared, Has
<1> QED
  BY <1>1, <1>2, <1>5, <1>6, <1>7, <1>8 DEF SchemaInv, StatementFits

LEMMA SchemaEnds ==
  ASSUME SchemaInv, ProcessEnds
  PROVE  SchemaInv'
BY DEF SchemaInv, SqliteTypeOK, StatementFits, DeclaredColumnsFit, RowsAreKept, KeptIn, ProcessEnds, sqlFile

(* The tables SQLite serves, for any releases and rows: once createTable()   *)
(* has returned, the table has every column the release declares, and every  *)
(* row ever written with its values in the columns all releases declare,     *)
(* unless a process ended between DROP TABLE and RENAME.                     *)
THEOREM TablesFitTheirSchema == SqliteSpec => []SchemaInvariant
<1>1. SqliteInit => SchemaInv
  <2> SUFFICES ASSUME SqliteInit PROVE SchemaInv
    OBVIOUS
  <2>1. 1 \in DOMAIN Schemas
    OBVIOUS
  <2> QED
    BY <2>1 DEF SqliteInit, SchemaInv, SqliteTypeOK, StatementFits, DeclaredColumnsFit, RowsAreKept, KeptIn
<1>2. SchemaInv => SchemaInvariant
  BY DEF SchemaInv, SchemaInvariant, RowsSurvive, RowsAreKept, KeptIn, StatementFits
<1>3. SchemaInv /\ [SqliteNext]_sqliteVars => SchemaInv'
  <2> SUFFICES ASSUME SchemaInv, [SqliteNext]_sqliteVars PROVE SchemaInv'
    OBVIOUS
  <2>1. CASE UNCHANGED sqliteVars
    BY <2>1 DEF sqliteVars, sqlFile, SchemaInv, SqliteTypeOK, StatementFits, DeclaredColumnsFit, RowsAreKept,
                KeptIn, Declared, Has, Copied
  <2>2. CASE SqliteNext
    BY <2>2, SchemaStarts, SchemaCreates, SchemaAdds, SchemaSyncs, SchemaCopies, SchemaSwaps, SchemaInserts,
       SchemaEnds DEF SqliteNext
  <2> QED
    BY <2>1, <2>2
<1> QED
  BY <1>1, <1>2, <1>3, PTL DEF SqliteSpec

HIDE SqliteAssumption

-------------------------------------------------------------------------
(* Pages of operations.                                                  *)

Listings ==
  [offset : Nat \cup {NoRow}, given : SUBSET OperationNames, twice : SUBSET OperationNames,
   stayed : SUBSET OperationNames, created : BOOLEAN, deleted : BOOLEAN]

(* Where a listing is.  Of the rows that stayed, those before its offset   *)
(* were given, as long as none is deleted: a new row only moves others on. *)
(* What was given lies before the offset, as long as none is made.         *)
SeenBefore(l) ==
  ~l.deleted => /\ l.stayed \subseteq Listed
                /\ \A n \in l.stayed : l.offset = NoRow \/ Before(n) < l.offset => n \in l.given
GivenBefore(l) ==
  ~l.created => /\ l.twice = {}
                /\ l.offset # NoRow => \A n \in l.given \cap Listed : Before(n) < l.offset

OperationsInv ==
  /\ operations \in [OperationNames -> OperationRecords \cup {NoRow}] /\ IsFiniteSet(Listed)
  /\ listing \in Listings \cup {NoRow}
  /\ listing # NoRow => listing.twice \subseteq listing.given /\ SeenBefore(listing) /\ GivenBefore(listing)

USE OperationsAssumption

(* Before(n) counts a part of the rows, all but n at most.                 *)
LEMMA BeforeIsCounted ==
  ASSUME operations \in [OperationNames -> OperationRecords \cup {NoRow}], IsFiniteSet(Listed),
         NEW n \in OperationNames
  PROVE  /\ Before(n) \in Nat /\ Cardinality(Listed) \in Nat
         /\ n \in Listed => Before(n) < Cardinality(Listed)
<1> DEFINE S == {m \in Listed : m < n}
<1>1. S \subseteq Listed /\ n \notin S /\ n \in Nat
  BY DEF Listed
<1>2. IsFiniteSet(S) /\ Cardinality(S) \in Nat /\ Cardinality(Listed) \in Nat
  BY <1>1, FS_Subset, FS_CardinalityType
<1>3. ASSUME n \in Listed PROVE Cardinality(S) < Cardinality(Listed)
  <2>1. S # Listed
    BY <1>1, <1>3
  <2> QED
    BY <1>1, <2>1, FS_Subset, FS_CardinalityType
<1> QED
  BY <1>2, <1>3 DEF Before

(* It grows with the set of rows.                                          *)
Below(S, n) == {m \in S : m < n}
LEMMA BeforeGrows ==
  ASSUME NEW A, NEW B, A \subseteq B, IsFiniteSet(B), NEW n
  PROVE  /\ Cardinality(Below(A, n)) <= Cardinality(Below(B, n))
         /\ Cardinality(Below(A, n)) \in Nat /\ Cardinality(Below(B, n)) \in Nat
<1>1. Below(A, n) \subseteq Below(B, n) /\ Below(B, n) \subseteq B
  BY DEF Below
<1>2. IsFiniteSet(Below(B, n))
  BY <1>1, FS_Subset
<1>3. IsFiniteSet(Below(A, n)) /\ Cardinality(Below(A, n)) <= Cardinality(Below(B, n))
  BY <1>1, <1>2, FS_Subset
<1> QED
  BY <1>2, <1>3, FS_CardinalityType

LEMMA OperationIsMade ==
  ASSUME OperationsInv, NEW n \in OperationNames, NEW result \in Results, CreateOperation(n, result)
  PROVE  OperationsInv'
<1> USE DEF OperationsInv
<1> DEFINE row == [done |-> TRUE, result |-> result, cancelled |-> FALSE]
<1>1. row \in OperationRecords /\ row # NoRow
  <2>1. TRUE \in {TRUE} /\ FALSE \in BOOLEAN
    OBVIOUS
  <2>2. row \in [done : {TRUE}, result : Results, cancelled : BOOLEAN]
    BY <2>1, Zenon
  <2> QED
    BY <2>2 DEF OperationRecords
<1>2. operations[n] = NoRow /\ operations' = [operations EXCEPT ![n] = row]
      /\ listing' = IF listing = NoRow THEN NoRow ELSE [listing EXCEPT !.created = TRUE]
  BY DEF CreateOperation
<1> HIDE DEF row
<1>3. operations' \in [OperationNames -> OperationRecords \cup {NoRow}] /\ Listed' = Listed \cup {n}
  BY <1>1, <1>2 DEF Listed
<1>4. IsFiniteSet(Listed')
  BY <1>3, FS_AddElement
<1>5. ASSUME NEW m \in OperationNames PROVE Before(m) <= Before(m)' /\ Before(m) \in Nat /\ Before(m)' \in Nat
  <2>1. Listed \subseteq Listed'
    BY <1>3
  <2>2. /\ Cardinality(Below(Listed, m)) <= Cardinality(Below(Listed', m))
        /\ Cardinality(Below(Listed, m)) \in Nat /\ Cardinality(Below(Listed', m)) \in Nat
    BY <2>1, <1>4, BeforeGrows, Zenon
  <2>3. Before(m) = Cardinality(Below(Listed, m)) /\ Before(m)' = Cardinality(Below(Listed', m))
    BY Zenon DEF Before, Below
  <2> QED
    BY <2>2, <2>3, Zenon
<1>6. CASE listing # NoRow
  <2> DEFINE l == [listing EXCEPT !.created = TRUE]
  <2>1. listing \in Listings /\ listing' = l
    BY <1>2, <1>6
  <2>2. l \in Listings /\ l.created /\ l.offset = listing.offset /\ l.given = listing.given
        /\ l.twice = listing.twice /\ l.stayed = listing.stayed /\ l.deleted = listing.deleted
    BY <2>1 DEF Listings
  <2> HIDE DEF l
  <2>3. listing.offset \in Nat \cup {NoRow} /\ listing.stayed \subseteq OperationNames
    BY <2>1 DEF Listings
  <2>4. ASSUME ~l.deleted, NEW m \in l.stayed, l.offset = NoRow \/ Before(m)' < l.offset
        PROVE  m \in l.given
    <3>1. m \in OperationNames /\ ~listing.deleted /\ m \in listing.stayed
      BY <2>2, <2>3, <2>4
    <3>2. listing.offset = NoRow \/ Before(m) < listing.offset
      BY <3>1, <2>2, <2>3, <2>4, <1>5
    <3> QED
      BY <3>1, <3>2, <2>2, <1>6 DEF SeenBefore
  <2>5. SeenBefore(listing)'
    BY <2>1, <2>2, <2>4, <1>3, <1>6 DEF SeenBefore
  <2>6. GivenBefore(listing)'
    BY <2>1, <2>2 DEF GivenBefore
  <2> QED
    BY <2>1, <2>2, <2>5, <2>6, <1>3, <1>4, <1>6
<1>7. CASE listing = NoRow
  BY <1>2, <1>3, <1>4, <1>7
<1> QED
  BY <1>6, <1>7

LEMMA OperationIsDeleted ==
  ASSUME OperationsInv, NEW n \in OperationNames, DeleteOperation(n)
  PROVE  OperationsInv'
<1> USE DEF OperationsInv
<1>1. operations' = [operations EXCEPT ![n] = NoRow]
      /\ listing' = IF listing = NoRow THEN NoRow
                   ELSE [listing EXCEPT !.deleted = TRUE, !.stayed = @ \ {n}]
  BY DEF DeleteOperation
<1>2. operations' \in [OperationNames -> OperationRecords \cup {NoRow}] /\ Listed' = Listed \ {n}
  BY <1>1 DEF Listed
<1>3. IsFiniteSet(Listed')
  BY <1>2, FS_Subset
<1>4. ASSUME NEW m \in OperationNames PROVE Before(m)' <= Before(m) /\ Before(m) \in Nat /\ Before(m)' \in Nat
  <2>1. Listed' \subseteq Listed /\ IsFiniteSet(Listed)
    BY <1>2
  <2>2. /\ Cardinality(Below(Listed', m)) <= Cardinality(Below(Listed, m))
        /\ Cardinality(Below(Listed, m)) \in Nat /\ Cardinality(Below(Listed', m)) \in Nat
    BY <2>1, BeforeGrows, Zenon
  <2>3. Before(m) = Cardinality(Below(Listed, m)) /\ Before(m)' = Cardinality(Below(Listed', m))
    BY Zenon DEF Before, Below
  <2> QED
    BY <2>2, <2>3, Zenon
<1>5. CASE listing # NoRow
  <2> DEFINE l == [listing EXCEPT !.deleted = TRUE, !.stayed = @ \ {n}]
  <2>1. listing \in Listings /\ listing' = l
    BY <1>1, <1>5
  <2>2. l \in Listings /\ l.created = listing.created /\ l.offset = listing.offset
        /\ l.given = listing.given /\ l.twice = listing.twice /\ l.deleted
    BY <2>1 DEF Listings
  <2> HIDE DEF l
  <2>3. listing.offset \in Nat \cup {NoRow} /\ listing.given \subseteq OperationNames
    BY <2>1 DEF Listings
  <2>4. SeenBefore(listing)'
    BY <2>1, <2>2 DEF SeenBefore
  <2>5. ASSUME ~l.created, l.offset # NoRow, NEW m \in l.given \cap Listed' PROVE Before(m)' < l.offset
    <3>1. m \in OperationNames /\ m \in listing.given \cap Listed /\ ~listing.created
      BY <2>2, <2>3, <2>5, <1>2
    <3>2. Before(m) < listing.offset
      BY <3>1, <2>2, <2>5, <1>5 DEF GivenBefore
    <3>3. l.offset = listing.offset /\ listing.offset \in Nat
      BY <2>2, <2>3, <2>5
    <3>4. Before(m)' <= Before(m) /\ Before(m) \in Nat /\ Before(m)' \in Nat
      BY <3>1, <1>4
    <3> QED
      BY <3>2, <3>3, <3>4
  <2>6. GivenBefore(listing)'
    BY <2>1, <2>2, <2>5, <1>5 DEF GivenBefore
  <2> QED
    BY <2>1, <2>2, <2>4, <2>6, <1>2, <1>3, <1>5
<1>6. CASE listing = NoRow
  BY <1>1, <1>2, <1>3, <1>6
<1> QED
  BY <1>5, <1>6

LEMMA OperationIsCancelled ==
  ASSUME OperationsInv, NEW n \in OperationNames, CancelOperation(n)
  PROVE  OperationsInv'
<1> USE DEF OperationsInv
<1> DEFINE row == [operations[n] EXCEPT !.cancelled = TRUE]
<1>1. operations[n] \in OperationRecords /\ operations' = [operations EXCEPT ![n] = row] /\ UNCHANGED listing
  BY DEF CancelOperation
<1>2. row \in OperationRecords /\ row # NoRow
  BY <1>1 DEF OperationRecords
<1> HIDE DEF row
<1>3. operations' \in [OperationNames -> OperationRecords \cup {NoRow}] /\ Listed' = Listed
  BY <1>1, <1>2 DEF Listed
<1>4. \A m : Before(m)' = Before(m)
  BY <1>3 DEF Before
<1> QED
  BY <1>1, <1>3, <1>4 DEF SeenBefore, GivenBefore

(* A page gives the rows up to the next token, all that there are if there *)
(* is none.                                                                *)
LEMMA PageIsGiven ==
  ASSUME OperationsInv, NEW offset \in Nat
  PROVE  LET next == NextToken(offset) IN
         /\ next \in Nat \cup {NoRow} /\ Page(offset) \subseteq Listed
         /\ \A n \in Listed : next = NoRow \/ Before(n) < next => Before(n) < offset \/ n \in Page(offset)
         /\ next # NoRow => next > offset /\ \A n \in Page(offset) : Before(n) < next
         /\ \A n \in Page(offset) : Before(n) \in Nat /\ ~(Before(n) < offset)
<1> USE DEF OperationsInv
<1>1. \A n \in Listed : n \in OperationNames /\ Before(n) \in Nat /\ Before(n) < Cardinality(Listed)
  BY BeforeIsCounted DEF Listed
<1>2. Cardinality(Listed) \in Nat
  BY FS_CardinalityType
<1> QED
  BY <1>1, <1>2 DEF NextToken, Page

LEMMA FirstPageIsListed ==
  ASSUME OperationsInv, ListFirstPage
  PROVE  OperationsInv'
<1> USE DEF OperationsInv
<1> DEFINE l == [offset |-> NextToken(0), given |-> Page(0), twice |-> {}, stayed |-> Listed,
                 created |-> FALSE, deleted |-> FALSE]
<1>1. listing' = l /\ UNCHANGED operations
  BY DEF ListFirstPage
<1>2. /\ NextToken(0) \in Nat \cup {NoRow} /\ Page(0) \subseteq Listed
      /\ \A n \in Listed : NextToken(0) = NoRow \/ Before(n) < NextToken(0) => Before(n) < 0 \/ n \in Page(0)
      /\ NextToken(0) # NoRow => \A n \in Page(0) : Before(n) < NextToken(0)
  BY PageIsGiven
<1>3. Listed \subseteq OperationNames /\ \A n \in Listed : Before(n) \in Nat
  BY BeforeIsCounted DEF Listed
<1>4. l \in Listings
  BY <1>2, <1>3 DEF Listings
<1>5. l.offset = NextToken(0) /\ l.given = Page(0) /\ l.twice = {} /\ l.stayed = Listed
      /\ ~l.created /\ ~l.deleted
  OBVIOUS
<1> HIDE DEF l
<1>6. SeenBefore(l) /\ GivenBefore(l)
  <2>1. ASSUME NEW n \in Listed, NextToken(0) = NoRow \/ Before(n) < NextToken(0) PROVE n \in Page(0)
    <3>1. Before(n) \in Nat /\ ~(Before(n) < 0)
      BY <1>3
    <3> QED
      BY <2>1, <3>1, <1>2
  <2>2. SeenBefore(l)
    BY <2>1, <1>5 DEF SeenBefore
  <2> QED
    BY <2>2, <1>2, <1>5 DEF GivenBefore
<1>7. Listed' = Listed /\ \A n : Before(n)' = Before(n)
  BY <1>1 DEF Listed, Before
<1>8. SeenBefore(listing)' /\ GivenBefore(listing)'
  BY <1>1, <1>6, <1>7 DEF SeenBefore, GivenBefore
<1> QED
  BY <1>1, <1>4, <1>5, <1>7, <1>8

LEMMA NextPageIsListed ==
  ASSUME OperationsInv, ListNextPage
  PROVE  OperationsInv'
<1> USE DEF OperationsInv
<1> DEFINE o == listing.offset
           l == [listing EXCEPT !.offset = NextToken(o), !.given = @ \cup Page(o),
                                !.twice = @ \cup (listing.given \cap Page(o))]
<1>1. listing # NoRow /\ o # NoRow /\ listing' = l /\ UNCHANGED operations
  BY DEF ListNextPage
<1>2. listing \in Listings /\ o \in Nat
  BY <1>1 DEF Listings
<1>3. /\ NextToken(o) \in Nat \cup {NoRow} /\ Page(o) \subseteq Listed
      /\ \A n \in Listed : NextToken(o) = NoRow \/ Before(n) < NextToken(o) => Before(n) < o \/ n \in Page(o)
      /\ NextToken(o) # NoRow => NextToken(o) > o /\ \A n \in Page(o) : Before(n) < NextToken(o)
      /\ \A n \in Page(o) : Before(n) \in Nat /\ ~(Before(n) < o)
  BY <1>2, PageIsGiven
<1>4. Listed \subseteq OperationNames /\ \A n \in Listed : Before(n) \in Nat
  BY BeforeIsCounted DEF Listed
<1>5. l \in Listings /\ l.offset = NextToken(o) /\ l.given = listing.given \cup Page(o)
      /\ l.twice = listing.twice \cup (listing.given \cap Page(o)) /\ l.stayed = listing.stayed
      /\ l.created = listing.created /\ l.deleted = listing.deleted
  BY <1>2, <1>3, <1>4 DEF Listings
<1> HIDE DEF l
<1>6. SeenBefore(l)
  <2> SUFFICES ASSUME ~l.deleted
               PROVE  /\ l.stayed \subseteq Listed
                      /\ \A n \in l.stayed : l.offset = NoRow \/ Before(n) < l.offset => n \in l.given
    BY DEF SeenBefore
  <2>1. listing.stayed \subseteq Listed /\ \A n \in listing.stayed : Before(n) < o => n \in listing.given
    BY <1>1, <1>5 DEF SeenBefore
  <2> QED
    BY <2>1, <1>3, <1>5
<1>7. GivenBefore(l)
  <2> SUFFICES ASSUME ~l.created
               PROVE  /\ l.twice = {}
                      /\ l.offset # NoRow => \A n \in l.given \cap Listed : Before(n) < l.offset
    BY DEF GivenBefore
  <2>1. listing.twice = {} /\ \A n \in listing.given \cap Listed : Before(n) < o
    BY <1>1, <1>5 DEF GivenBefore
  <2>2. listing.given \cap Page(o) = {}
    BY <2>1, <1>3
  <2>3. ASSUME NextToken(o) # NoRow, NEW n \in (listing.given \cup Page(o)) \cap Listed
        PROVE  Before(n) < NextToken(o)
    <3>1. CASE n \in Page(o)
      BY <3>1, <2>3, <1>3
    <3>2. CASE n \in listing.given
      <4>1. Before(n) < o /\ Before(n) \in Nat
        BY <2>1, <3>2, <1>4
      <4>2. NextToken(o) \in Nat /\ o < NextToken(o)
        BY <2>3, <1>2, <1>3
      <4> QED
        BY <4>1, <4>2, <1>2
    <3> QED
      BY <3>1, <3>2
  <2> QED
    BY <2>1, <2>2, <2>3, <1>5
<1>8. Listed' = Listed /\ \A n : Before(n)' = Before(n)
  BY <1>1 DEF Listed, Before
<1>9. SeenBefore(listing)' /\ GivenBefore(listing)'
  BY <1>1, <1>6, <1>7, <1>8 DEF SeenBefore, GivenBefore
<1>10. l.twice \subseteq l.given
  BY <1>1, <1>5
<1> QED
  BY <1>1, <1>5, <1>8, <1>9, <1>10

LEMMA OperationsSteps == OperationsInv /\ [OperationsNext]_operationsVars => OperationsInv'
<1> SUFFICES ASSUME OperationsInv, [OperationsNext]_operationsVars PROVE OperationsInv'
  OBVIOUS
<1>1. CASE \E n \in OperationNames :
             \/ DeleteOperation(n) \/ CancelOperation(n)
             \/ \E result \in Results : CreateOperation(n, result)
  BY <1>1, OperationIsDeleted, OperationIsCancelled, OperationIsMade
<1>2. CASE ListFirstPage \/ ListNextPage
  BY <1>2, FirstPageIsListed, NextPageIsListed
<1>3. CASE ListingEnds \/ UNCHANGED operationsVars
  <2>1. UNCHANGED operations /\ (listing' = NoRow \/ UNCHANGED listing)
    BY <1>3 DEF ListingEnds, operationsVars
  <2>2. Listed' = Listed /\ \A n : Before(n)' = Before(n)
    BY <2>1 DEF Listed, Before
  <2> QED
    BY <2>1, <2>2 DEF OperationsInv, SeenBefore, GivenBefore
<1> QED
  BY <1>1, <1>2, <1>3 DEF OperationsNext

(* A client that follows the tokens of a list (core/operations) misses no  *)
(* row that was there all the time unless another is deleted meanwhile, and*)
(* is given none twice unless one is made.                                 *)
THEOREM PagesAreComplete == OperationsSpec => []OperationsInvariant
<1>1. OperationsInit => OperationsInv
  <2> SUFFICES ASSUME OperationsInit PROVE OperationsInv
    OBVIOUS
  <2>1. Listed = {}
    BY DEF OperationsInit, Listed
  <2>2. IsFiniteSet(Listed)
    BY <2>1, FS_EmptySet
  <2> QED
    BY <2>2 DEF OperationsInit, OperationsInv
<1>2. OperationsInv => OperationsInvariant
  <2> SUFFICES ASSUME OperationsInv PROVE OperationsInvariant
    OBVIOUS
  <2> USE DEF OperationsInv
  <2>1. OperationsTypeOK
    BY DEF OperationsTypeOK, Listings
  <2>2. PagesMissNothing
    BY DEF PagesMissNothing, SeenBefore
  <2>3. PagesRepeatNothing
    BY DEF PagesRepeatNothing, GivenBefore
  <2> QED
    BY <2>1, <2>2, <2>3 DEF OperationsInvariant
<1> QED
  BY <1>1, <1>2, OperationsSteps, PTL DEF OperationsSpec

HIDE OperationsAssumption

(* The storage below the services: a deployment keeps its tables with one  *)
(* of the providers, and lists its operations.                             *)
THEOREM StorageIsSound == StorageSpec /\ SqliteSpec /\ OperationsSpec => []StorageHolds
BY CacheShowsTheTable, TablesFitTheirSchema, PagesAreComplete, PTL DEF StorageHolds

-------------------------------------------------------------------------
(* Objects and their uploads.                                            *)

USE CloudStorageAssumption

(* What keeps generations apart: the counter is past every one there is, and *)
(* the file a request is to remove or to write is its own.                   *)
Writing(c) == ~Idle(c) /\ transfers[c].stage \in {"clearing", "storing"}

FilesAreOwn ==
  /\ \A r \in objectRows : r.generation <= generations
  /\ \A c \in StorageClients : Writing(c) =>
       /\ transfers[c].generation \in 1 .. generations
       /\ \A r \in objectRows : r.generation = transfers[c].generation =>
            transfers[c].stage = "clearing" /\ r.object = transfers[c].object
       /\ \A d \in StorageClients :
            d # c /\ InStage(d, "storing") => transfers[d].generation # transfers[c].generation

(* An object never contended has a row at most, with its file; a request that*)
(* removes the file removes that row's, and one that writes finds no row.    *)
SoleWriter(o) ==
  /\ \A c, d \in Writers(o) : c = d
  /\ \A r, s \in Named(o) : r = s
  /\ \A r \in Named(o) : r.generation \in blobs
  /\ \A c \in Writers(o) : \A r \in Named(o) :
       transfers[c].stage = "clearing" /\ r.generation = transfers[c].generation

DataTypeOK ==
  /\ objectRows \subseteq ObjectRows
  /\ blobs \subseteq Generations /\ generations \in 0 .. MaxGenerations
  /\ transfers \in [StorageClients -> Transfers \cup {NoRow}]
  /\ contended \subseteq Objects

DataInv ==
  /\ DataTypeOK /\ GenerationsAreApart /\ FilesAreOwn
  /\ \A o \in Objects \ contended : SoleWriter(o)

(* An upload id not sent yet has inserted nothing.                           *)
UploadInv ==
  /\ resumable \in [Uploads -> Objects \cup {NoRow}]
  /\ issued \subseteq Uploads /\ inserted \in [Uploads -> Nat]
  /\ UploadsInsertOnce
  /\ \A u \in Uploads : u \notin issued \/ resumable[u] # NoRow => inserted[u] = 0
  /\ \A u \in Uploads : resumable[u] # NoRow => u \in issued

BucketsTypeOK == buckets \in [Buckets -> 0 .. MaxMetageneration]

Noted == contended' = contended \cup {object \in Objects : Cardinality(Writers(object)') >= 2}

LEMMA RowParts ==
  ASSUME NEW r \in ObjectRows
  PROVE  /\ r.object \in Objects /\ r.generation \in Generations /\ r.generation \in Nat
         /\ r.generation >= 1 /\ r.generation <= MaxGenerations
         /\ r.metageneration \in 1 .. MaxMetageneration
BY DEF ObjectRows, Generations

LEMMA NewestIsThere ==
  ASSUME DataTypeOK, NEW o \in Objects, Named(o) # {}
  PROVE  NewestRow(o) \in Named(o)
<1> DEFINE S == {r.generation : r \in Named(o)}
<1>1. Named(o) \subseteq ObjectRows
  BY DEF Named, DataTypeOK
<1>2. S \in SUBSET Nat /\ S # {} /\ \A n \in S : n <= MaxGenerations
  BY <1>1, RowParts
<1> HIDE DEF S
<1>3. PICK m \in S : \A n \in S : n <= m
  BY <1>2, GreatestNatural
<1>4. PICK r \in Named(o) : r.generation = m
  BY DEF S
<1>5. \A other \in Named(o) : other.generation <= r.generation
  BY <1>3, <1>4 DEF S
<1> QED
  BY <1>5 DEF NewestRow

(* What becomes of the writers of an object that stays uncontended.          *)
LEMMA OneWriter ==
  ASSUME Noted, NEW o \in Objects \ contended'
  PROVE  /\ o \notin contended
         /\ \A c, d \in Writers(o)' : c = d
<1>1. o \notin contended /\ ~(Cardinality(Writers(o)') >= 2)
  BY DEF Noted
<1> DEFINE W == Writers(o)'
<1>2. W \subseteq StorageClients
  BY DEF Writers
<1> HIDE DEF W
<1>3. IsFiniteSet(W) /\ Cardinality(W) \in Nat
  BY <1>2, FS_Subset, FS_CardinalityType
<1>4. ASSUME NEW c \in W, NEW d \in W, c # d
      PROVE  Cardinality(W) >= 2
  <2>1. IsFiniteSet({c}) /\ Cardinality({c}) = 1
    BY FS_Singleton
  <2> DEFINE C == {c}
  <2>5. d \notin C
    BY <1>4
  <2>6. IsFiniteSet(C) /\ Cardinality(C) = 1
    BY <2>1
  <2>3. C \cup {d} \subseteq W
    OBVIOUS
  <2> HIDE DEF C
  <2>7. IsFiniteSet(C \cup {d}) /\ Cardinality(C \cup {d}) = Cardinality(C) + 1
    BY <2>5, <2>6, FS_AddElement
  <2>2. Cardinality(C \cup {d}) = 2
    BY <2>6, <2>7
  <2>4. Cardinality(C \cup {d}) <= Cardinality(W)
    BY <1>3, <2>3, FS_Subset
  <2> QED
    BY <1>3, <2>2, <2>4
<1> QED
  BY <1>1, <1>4 DEF W

(* Requests that read, end or begin with a body.                             *)
LEMMA QuietMove ==
  ASSUME DataInv, Noted, NEW c \in StorageClients, NEW t \in Transfers \cup {NoRow},
         t # NoRow => t.stage \in {"body", "reading"},
         transfers' = [transfers EXCEPT ![c] = t],
         objectRows' = objectRows, blobs' = blobs, generations' = generations
  PROVE  DataInv'
<1>1. DataTypeOK'
  BY DEF DataInv, DataTypeOK, Noted
<1>2. transfers'[c] = t /\ \A d \in StorageClients : d # c => transfers'[d] = transfers[d]
  BY DEF DataInv, DataTypeOK
<1>3. ~Writing(c)' /\ \A d \in StorageClients : Writing(d)' => d # c /\ Writing(d)
  BY <1>2 DEF Writing, Idle
<1>4. FilesAreOwn'
  BY <1>2, <1>3 DEF DataInv, FilesAreOwn, Writing, InStage, Idle
<1>5. ASSUME NEW o \in Objects \ contended' PROVE SoleWriter(o)'
  <2>1. \A d \in Writers(o)' : d \in Writers(o) /\ transfers'[d] = transfers[d]
    BY <1>2 DEF Writers, Idle
  <2>2. SoleWriter(o)
    BY OneWriter DEF DataInv
  <2> QED
    BY <2>1, <2>2 DEF SoleWriter, Named
<1> QED
  BY <1>1, <1>4, <1>5 DEF DataInv, GenerationsAreApart

(* insertObject() and deleteObject() find the row whose file goes first.     *)
LEMMA ClearingMove ==
  ASSUME DataInv, Noted, NEW c \in StorageClients, NEW o \in Objects, Named(o) # {}, NEW t \in Transfers,
         t.object = o, t.stage = "clearing", t.generation = NewestRow(o).generation, Idle(c) \/ ~Writing(c),
         transfers' = [transfers EXCEPT ![c] = t],
         objectRows' = objectRows, blobs' = blobs, generations' = generations
  PROVE  DataInv'
<1>1. DataTypeOK'
  BY DEF DataInv, DataTypeOK, Noted
<1>2. transfers'[c] = t /\ \A d \in StorageClients : d # c => transfers'[d] = transfers[d]
  BY DEF DataInv, DataTypeOK
<1>3. PICK row \in objectRows : row = NewestRow(o) /\ row.object = o /\ row \in ObjectRows
  BY NewestIsThere DEF DataInv, DataTypeOK, Named
<1>4. \A d \in StorageClients : d # c => (Writing(d)' <=> Writing(d)) /\ (InStage(d, "storing")' <=> InStage(d, "storing"))
  BY <1>2 DEF Writing, Idle, InStage
<1>5. ~InStage(c, "storing")'
  BY <1>2 DEF InStage
<1>6. FilesAreOwn'
  <2>1. \A r \in objectRows : r.generation <= generations
    BY DEF DataInv, FilesAreOwn
  <2>2. /\ t.generation \in 1 .. generations
        /\ \A r \in objectRows : r.generation = t.generation => r.object = o
    BY <1>3, <2>1, RowParts DEF DataInv, GenerationsAreApart, DataTypeOK
  <2>3. \A d \in StorageClients : InStage(d, "storing") => transfers[d].generation # t.generation
    BY <1>3 DEF DataInv, FilesAreOwn, Writing, InStage
  <2>4. \A d \in StorageClients : d # c /\ Writing(d) =>
          /\ transfers[d].generation \in 1 .. generations
          /\ \A r \in objectRows : r.generation = transfers[d].generation =>
               transfers[d].stage = "clearing" /\ r.object = transfers[d].object
          /\ \A e \in StorageClients :
               e # d /\ InStage(e, "storing") => transfers[e].generation # transfers[d].generation
    BY DEF DataInv, FilesAreOwn
  <2>5. ASSUME NEW d \in StorageClients, Writing(d)'
        PROVE  /\ transfers'[d].generation \in 1 .. generations'
               /\ \A r \in objectRows' : r.generation = transfers'[d].generation =>
                    transfers'[d].stage = "clearing" /\ r.object = transfers'[d].object
               /\ \A e \in StorageClients :
                    e # d /\ InStage(e, "storing")' => transfers'[e].generation # transfers'[d].generation
    <3>1. CASE d = c
      BY <1>2, <1>4, <2>2, <2>3, <3>1
    <3>2. CASE d # c
      BY <1>2, <1>4, <1>5, <2>4, <2>5, <3>2
    <3> QED
      BY <3>1, <3>2
  <2> QED
    BY <2>1, <2>5 DEF FilesAreOwn
<1>7. ASSUME NEW p \in Objects \ contended' PROVE SoleWriter(p)'
  <2>1. SoleWriter(p) /\ \A d, e \in Writers(p)' : d = e
    BY <1>7, OneWriter DEF DataInv
  <2>2. CASE p = o
    <3>1. c \in Writers(p)' /\ \A d \in Writers(p)' : d = c
      BY <1>2, <2>1, <2>2 DEF Writers, Idle
    <3>2. \A r \in Named(p) : r.generation = t.generation
      BY <1>3, <2>1, <2>2 DEF SoleWriter, Named
    <3> QED
      BY <1>2, <2>1, <3>1, <3>2 DEF SoleWriter, Named
  <2>3. CASE p # o
    <3>1. \A d \in Writers(p)' : d \in Writers(p) /\ transfers'[d] = transfers[d]
      BY <1>2, <2>3 DEF Writers, Idle
    <3> QED
      BY <2>1, <3>1 DEF SoleWriter, Named
  <2> QED
    BY <2>2, <2>3
<1> QED
  BY <1>1, <1>6, <1>7 DEF DataInv, GenerationsAreApart

(* A request goes on to store: no row of an uncontended object is left.      *)
LEMMA StoringMove ==
  ASSUME DataInv, Noted, NEW c \in StorageClients, NEW o \in Objects, NEW t \in Transfers,
         t.object = o, t.stage = "storing", t.generation = generations + 1,
         generations < MaxGenerations, generations' = generations + 1,
         transfers' = [transfers EXCEPT ![c] = t],
         objectRows' \subseteq objectRows, blobs' \subseteq blobs,
         \A p \in Objects \ contended' : \A r \in objectRows' : r.object = p => r.generation \in blobs',
         o \notin contended' => \A r \in objectRows' : r.object # o
  PROVE  DataInv'
<1>0. generations \in Nat /\ MaxGenerations \in Nat
  BY DEF DataInv, DataTypeOK
<1>1. DataTypeOK'
  BY <1>0 DEF DataInv, DataTypeOK, Noted, Generations
<1>2. transfers'[c] = t /\ \A d \in StorageClients : d # c => transfers'[d] = transfers[d]
  BY DEF DataInv, DataTypeOK
<1>3. \A d \in StorageClients : d # c => /\ Writing(d)' => Writing(d)
                                         /\ InStage(d, "storing")' => InStage(d, "storing")
  BY <1>2 DEF Writing, Idle, InStage
<1>4. /\ \A r \in objectRows : r.generation <= generations /\ r.generation \in Nat
      /\ \A d \in StorageClients : Writing(d) => transfers[d].generation \in 1 .. generations
      /\ \A d \in StorageClients : InStage(d, "storing") => Writing(d)
  BY RowParts DEF DataInv, DataTypeOK, FilesAreOwn, Writing, InStage
<1>5. FilesAreOwn'
  <2>1. \A r \in objectRows' : r.generation <= generations'
    BY <1>0, <1>4
  <2>2. ASSUME NEW d \in StorageClients, Writing(d)'
        PROVE  /\ transfers'[d].generation \in 1 .. generations'
               /\ \A r \in objectRows' : r.generation = transfers'[d].generation =>
                    transfers'[d].stage = "clearing" /\ r.object = transfers'[d].object
               /\ \A e \in StorageClients :
                    e # d /\ InStage(e, "storing")' => transfers'[e].generation # transfers'[d].generation
    <3>1. CASE d = c
      <4>1. transfers'[d] = t /\ t.generation \in 1 .. generations'
        BY <1>0, <1>2, <3>1
      <4>2. \A r \in objectRows' : r.generation # t.generation
        BY <1>0, <1>4
      <4>3. ASSUME NEW e \in StorageClients, e # d, InStage(e, "storing")'
            PROVE  transfers'[e].generation # t.generation
        <5>1. InStage(e, "storing") /\ transfers'[e] = transfers[e]
          BY <1>2, <1>3, <3>1, <4>3
        <5>2. transfers[e].generation \in 1 .. generations
          BY <1>4, <5>1
        <5> QED
          BY <1>0, <5>1, <5>2
      <4> QED
        BY <4>1, <4>2, <4>3
    <3>2. CASE d # c
      <4>1. Writing(d) /\ transfers'[d] = transfers[d] /\ transfers[d].generation \in 1 .. generations
        BY <1>2, <1>3, <1>4, <2>2, <3>2
      <4>2. /\ \A r \in objectRows : r.generation = transfers[d].generation =>
                 transfers[d].stage = "clearing" /\ r.object = transfers[d].object
            /\ \A e \in StorageClients :
                 e # d /\ InStage(e, "storing") => transfers[e].generation # transfers[d].generation
        BY <4>1 DEF DataInv, FilesAreOwn
      <4>3. \A e \in StorageClients :
              e # d /\ InStage(e, "storing")' => transfers'[e].generation # transfers[d].generation
        <5> SUFFICES ASSUME NEW e \in StorageClients, e # d, InStage(e, "storing")'
                     PROVE  transfers'[e].generation # transfers[d].generation
          OBVIOUS
        <5>1. CASE e = c
          BY <1>0, <1>2, <4>1, <5>1
        <5>2. CASE e # c
          BY <1>2, <1>3, <4>2, <5>2
        <5> QED
          BY <5>1, <5>2
      <4> QED
        BY <1>0, <4>1, <4>2, <4>3
    <3> QED
      BY <3>1, <3>2
  <2> QED
    BY <2>1, <2>2 DEF FilesAreOwn
<1>6. ASSUME NEW p \in Objects \ contended' PROVE SoleWriter(p)'
  <2>1. SoleWriter(p) /\ \A d, e \in Writers(p)' : d = e
    BY <1>6, OneWriter DEF DataInv
  <2>2. \A r \in Named(p)' : r \in Named(p) /\ r.generation \in blobs'
    BY DEF Named
  <2>3. CASE p = o
    BY <2>1, <2>2, <2>3 DEF SoleWriter, Named
  <2>4. CASE p # o
    <3>1. \A d \in Writers(p)' : d \in Writers(p) /\ transfers'[d] = transfers[d]
      BY <1>2, <2>4 DEF Writers, Idle
    <3> QED
      BY <2>1, <2>2, <3>1 DEF SoleWriter
  <2> QED
    BY <2>3, <2>4
<1> QED
  BY <1>1, <1>5, <1>6 DEF DataInv, GenerationsAreApart

(* A request is answered, and may have removed rows and files.               *)
LEMMA EndingMove ==
  ASSUME DataInv, Noted, NEW c \in StorageClients, transfers' = [transfers EXCEPT ![c] = NoRow],
         generations' = generations, objectRows' \subseteq objectRows, blobs' \subseteq blobs,
         \A p \in Objects \ contended' : \A r \in objectRows' : r.object = p => r.generation \in blobs'
  PROVE  DataInv'
<1>1. DataTypeOK'
  BY DEF DataInv, DataTypeOK, Noted
<1>2. transfers'[c] = NoRow /\ \A d \in StorageClients : d # c => transfers'[d] = transfers[d]
  BY DEF DataInv, DataTypeOK
<1>3. ~Writing(c)' /\ \A d \in StorageClients : Writing(d)' => d # c /\ Writing(d)
  BY <1>2 DEF Writing, Idle
<1>4. FilesAreOwn'
  BY <1>2, <1>3 DEF DataInv, FilesAreOwn, Writing, InStage, Idle
<1>5. ASSUME NEW o \in Objects \ contended' PROVE SoleWriter(o)'
  <2>1. \A d \in Writers(o)' : d \in Writers(o) /\ transfers'[d] = transfers[d]
    BY <1>2 DEF Writers, Idle
  <2>2. SoleWriter(o)
    BY OneWriter DEF DataInv
  <2>3. \A r \in Named(o)' : r \in Named(o) /\ r.generation \in blobs'
    BY DEF Named
  <2> QED
    BY <2>1, <2>2, <2>3 DEF SoleWriter
<1> QED
  BY <1>1, <1>4, <1>5 DEF DataInv, GenerationsAreApart

(* BlobStore.delete(), then the row that is the newest by now: no other row  *)
(* loses its file.                                                           *)
LEMMA ClearedFiles ==
  ASSUME DataInv, Noted, NEW c \in StorageClients, InStage(c, "clearing"),
         blobs' = blobs \ {transfers[c].generation}, RowDropped(transfers[c].object)
  PROVE  /\ objectRows' \subseteq objectRows /\ blobs' \subseteq blobs
         /\ \A p \in Objects \ contended' : \A r \in objectRows' : r.object = p => r.generation \in blobs'
         /\ transfers[c].object \notin contended' => \A r \in objectRows' : r.object # transfers[c].object
<1> DEFINE o == transfers[c].object
<1>1. o \in Objects /\ Writing(c) /\ c \in Writers(o)
  BY DEF DataInv, DataTypeOK, InStage, Idle, Transfers, Writing, Writers
<1>2. objectRows' \subseteq objectRows
  BY DEF RowDropped
<1>3. o \notin contended' => \A r \in objectRows' : r.object # o
  <2> SUFFICES ASSUME o \notin contended', NEW r \in objectRows', r.object = o PROVE FALSE
    OBVIOUS
  <2>1. SoleWriter(o)
    BY <1>1, OneWriter DEF DataInv
  <2>2. r \in Named(o) /\ NewestRow(o) \in Named(o)
    BY <1>1, <1>2, NewestIsThere DEF Named, DataInv
  <2>3. r = NewestRow(o)
    BY <2>1, <2>2 DEF SoleWriter
  <2> QED
    BY <2>2, <2>3 DEF RowDropped
<1>4. ASSUME NEW p \in Objects \ contended', NEW r \in objectRows', r.object = p
      PROVE  r.generation \in blobs'
  <2>1. SoleWriter(p) /\ r \in Named(p)
    BY <1>2, <1>4, OneWriter DEF DataInv, Named
  <2>2. p # o
    BY <1>3, <1>4
  <2>3. r.generation # transfers[c].generation
    BY <1>1, <1>2, <1>4, <2>2 DEF DataInv, FilesAreOwn
  <2> QED
    BY <2>1, <2>3 DEF SoleWriter
<1> QED
  BY <1>2, <1>3, <1>4

(* A row is made, and its file is there.                                     *)
LEMMA StoredMove ==
  ASSUME DataInv, Noted, NEW c \in StorageClients, Stored(c)
  PROVE  DataInv'
<1> DEFINE t == transfers[c]
           row == [object |-> t.object, generation |-> t.generation, metageneration |-> 1]
<1>1. /\ t \in Transfers /\ t.object \in Objects /\ t.stage = "storing" /\ InStage(c, "storing") /\ Writing(c)
      /\ t.generation \in 1 .. generations /\ generations \in 0 .. MaxGenerations
      /\ c \in Writers(t.object)
  BY DEF DataInv, DataTypeOK, FilesAreOwn, Stored, InStage, Writing, Idle, Transfers, Writers
<1>2. /\ blobs' = blobs \cup {t.generation} /\ objectRows' = objectRows \cup {row} /\ generations' = generations
      /\ transfers' = [transfers EXCEPT ![c] = NoRow]
  BY DEF Stored, UploadAnswered
<1>3. row \in ObjectRows /\ row.object = t.object /\ row.generation = t.generation
  BY <1>1 DEF ObjectRows, Generations
<1> HIDE DEF row
<1>4. transfers'[c] = NoRow /\ \A d \in StorageClients : d # c => transfers'[d] = transfers[d]
  BY <1>2 DEF DataInv, DataTypeOK
<1>5. DataTypeOK'
  <2>1. t.generation \in Generations
    BY <1>1 DEF Generations, DataInv, DataTypeOK
  <2> QED
    BY <1>2, <1>3, <2>1 DEF DataInv, DataTypeOK, Noted
<1>6. \A r \in objectRows : r.generation # t.generation
  BY <1>1 DEF DataInv, FilesAreOwn
<1>7. GenerationsAreApart'
  BY <1>2, <1>3, <1>6 DEF DataInv, GenerationsAreApart
<1>8. ~Writing(c)' /\ \A d \in StorageClients : Writing(d)' => d # c /\ Writing(d)
  BY <1>4 DEF Writing, Idle
<1>9. FilesAreOwn'
  <2>1. \A r \in objectRows' : r.generation <= generations'
    BY <1>1, <1>2, <1>3 DEF DataInv, FilesAreOwn
  <2>2. ASSUME NEW d \in StorageClients, Writing(d)'
        PROVE  /\ transfers'[d].generation \in 1 .. generations'
               /\ \A r \in objectRows' : r.generation = transfers'[d].generation =>
                    transfers'[d].stage = "clearing" /\ r.object = transfers'[d].object
               /\ \A e \in StorageClients :
                    e # d /\ InStage(e, "storing")' => transfers'[e].generation # transfers'[d].generation
    <3>1. d # c /\ Writing(d) /\ transfers'[d] = transfers[d]
      BY <1>4, <1>8, <2>2
    <3>2. /\ transfers[d].generation \in 1 .. generations
          /\ \A r \in objectRows : r.generation = transfers[d].generation =>
               transfers[d].stage = "clearing" /\ r.object = transfers[d].object
          /\ \A e \in StorageClients :
               e # d /\ InStage(e, "storing") => transfers[e].generation # transfers[d].generation
      BY <3>1 DEF DataInv, FilesAreOwn
    <3>3. transfers[d].generation # t.generation
      BY <1>1, <3>1, <3>2
    <3>4. \A e \in StorageClients : InStage(e, "storing")' => InStage(e, "storing") /\ transfers'[e] = transfers[e]
      BY <1>4 DEF InStage, Idle
    <3> QED
      BY <1>2, <1>3, <3>1, <3>2, <3>3, <3>4
  <2> QED
    BY <2>1, <2>2 DEF FilesAreOwn
<1>10. ASSUME NEW o \in Objects \ contended' PROVE SoleWriter(o)'
  <2>1. SoleWriter(o) /\ \A d, e \in Writers(o)' : d = e
    BY <1>10, OneWriter DEF DataInv
  <2>2. \A d \in Writers(o)' : d \in Writers(o) /\ d # c /\ transfers'[d] = transfers[d]
    BY <1>4 DEF Writers, Idle
  <2>3. CASE o = t.object
    <3>1. Named(o) = {} /\ Writers(o) = {c}
      BY <1>1, <2>1, <2>3 DEF SoleWriter
    <3>2. Named(o)' = {row} /\ Writers(o)' = {}
      BY <1>2, <1>3, <2>2, <2>3, <3>1 DEF Named
    <3> QED
      BY <1>2, <1>3, <3>2 DEF SoleWriter
  <2>4. CASE o # t.object
    <3>1. Named(o)' = Named(o)
      BY <1>2, <1>3, <2>4 DEF Named
    <3> QED
      BY <1>2, <2>1, <2>2, <3>1 DEF SoleWriter
  <2> QED
    BY <2>3, <2>4
<1> QED
  BY <1>5, <1>7, <1>9, <1>10 DEF DataInv

(* patchObject() and updateObject() keep the generation of the row.          *)
LEMMA ChangeMove ==
  ASSUME DataInv, Noted, NEW o \in Objects, ChangeObject(o)
  PROVE  DataInv'
<1> DEFINE row == NewestRow(o)
           new == [row EXCEPT !.metageneration = @ + 1]
<1>1. row \in objectRows /\ row \in ObjectRows /\ row.object = o
  BY NewestIsThere DEF DataInv, DataTypeOK, Named, ChangeObject
<1>2. /\ row.metageneration < MaxMetageneration /\ objectRows' = (objectRows \ {row}) \cup {new}
      /\ blobs' = blobs /\ generations' = generations /\ transfers' = transfers
  BY DEF ChangeObject
<1> HIDE DEF row
<1>3. new \in ObjectRows /\ new.object = o /\ new.generation = row.generation
  BY <1>1, <1>2 DEF ObjectRows
<1> HIDE DEF new
<1>4. DataTypeOK'
  BY <1>2, <1>3 DEF DataInv, DataTypeOK, Noted
<1>5. GenerationsAreApart'
  BY <1>1, <1>2, <1>3 DEF DataInv, GenerationsAreApart
<1>6. FilesAreOwn'
  <2>1. \A r \in objectRows' : \E s \in objectRows : r.generation = s.generation /\ r.object = s.object
    BY <1>1, <1>2, <1>3
  <2>2. \A d \in StorageClients : (Writing(d)' <=> Writing(d)) /\ (InStage(d, "storing")' <=> InStage(d, "storing"))
    BY <1>2 DEF Writing, InStage, Idle
  <2> QED
    BY <1>2, <2>1, <2>2 DEF DataInv, FilesAreOwn
<1>7. ASSUME NEW p \in Objects \ contended' PROVE SoleWriter(p)'
  <2>1. SoleWriter(p) /\ Writers(p)' = Writers(p)
    BY <1>2, <1>7, OneWriter DEF DataInv, Writers, Idle
  <2>2. CASE p = o
    <3>1. Named(p) = {row}
      BY <1>1, <2>1, <2>2 DEF SoleWriter, Named
    <3>2. Named(p)' = {new}
      BY <1>2, <1>3, <2>2, <3>1 DEF Named
    <3> QED
      BY <1>2, <1>3, <2>1, <3>1, <3>2 DEF SoleWriter
  <2>3. CASE p # o
    <3>1. Named(p)' = Named(p)
      BY <1>1, <1>2, <1>3, <2>3 DEF Named
    <3> QED
      BY <1>2, <2>1, <3>1 DEF SoleWriter
  <2> QED
    BY <2>2, <2>3
<1> QED
  BY <1>4, <1>5, <1>6, <1>7 DEF DataInv

(* Nothing but buckets or announcements changes, or every request ends.      *)
LEMMA NoMove ==
  ASSUME DataInv, Noted, UNCHANGED <<objectRows, blobs, generations>>,
         transfers' = transfers \/ transfers' = [c \in StorageClients |-> NoRow]
  PROVE  DataInv'
<1>1. DataTypeOK'
  BY DEF DataInv, DataTypeOK, Noted
<1>2. \A c \in StorageClients : transfers'[c] = transfers[c] \/ transfers'[c] = NoRow
  BY DEF DataInv, DataTypeOK
<1>3. \A c \in StorageClients : /\ Writing(c)' => Writing(c) /\ transfers'[c] = transfers[c]
                                /\ InStage(c, "storing")' => InStage(c, "storing") /\ transfers'[c] = transfers[c]
  BY <1>2 DEF Writing, Idle, InStage
<1>4. FilesAreOwn'
  <2>1. \A r \in objectRows : r.generation <= generations
    BY DEF DataInv, FilesAreOwn
  <2>2. ASSUME NEW d \in StorageClients, Writing(d)'
        PROVE  /\ transfers'[d].generation \in 1 .. generations
               /\ \A r \in objectRows : r.generation = transfers'[d].generation =>
                    transfers'[d].stage = "clearing" /\ r.object = transfers'[d].object
               /\ \A e \in StorageClients :
                    e # d /\ InStage(e, "storing")' => transfers'[e].generation # transfers'[d].generation
    <3>1. Writing(d) /\ transfers'[d] = transfers[d]
      BY <1>3, <2>2
    <3> QED
      BY <1>3, <3>1 DEF DataInv, FilesAreOwn
  <2> QED
    BY <2>1, <2>2 DEF FilesAreOwn
<1>5. ASSUME NEW o \in Objects \ contended' PROVE SoleWriter(o)'
  <2>1. \A d \in Writers(o)' : d \in Writers(o) /\ transfers'[d] = transfers[d]
    BY <1>2 DEF Writers, Idle
  <2>2. SoleWriter(o)
    BY OneWriter DEF DataInv
  <2> QED
    BY <2>1, <2>2 DEF SoleWriter, Named
<1> QED
  BY <1>1, <1>4, <1>5 DEF DataInv, GenerationsAreApart

LEMMA InsertsKeeps ==
  ASSUME DataInv, Noted, NEW c \in StorageClients, NEW o \in Objects, ~Writing(c), Inserts(c, o),
         objectRows' = objectRows, blobs' = blobs
  PROVE  DataInv'
<1>1. CASE UploadAnswered(c) /\ UNCHANGED generations
  BY <1>1, QuietMove DEF UploadAnswered
<1>2. CASE /\ Named(o) # {} /\ UNCHANGED generations
           /\ Moves(c, o, "clearing", "store", NewestRow(o).generation, <<>>)
  <2> DEFINE t == [object |-> o, stage |-> "clearing", then |-> "store",
                   generation |-> NewestRow(o).generation, sources |-> <<>>]
  <2>1. NewestRow(o).generation \in 0 .. MaxGenerations
    <3>1. NewestRow(o) \in ObjectRows
      BY <1>2, NewestIsThere DEF DataInv, DataTypeOK, Named
    <3> QED
      BY <3>1, RowParts
  <2>2. t \in Transfers
    BY <2>1 DEF Transfers
  <2>3. t.object = o /\ t.stage = "clearing" /\ t.generation = NewestRow(o).generation
    OBVIOUS
  <2>4. transfers' = [transfers EXCEPT ![c] = t]
    BY <1>2 DEF Moves
  <2> HIDE DEF t
  <2> QED
    BY <1>2, <2>2, <2>3, <2>4, ClearingMove
<1>3. CASE Named(o) = {} /\ Stores(c, o)
  <2> DEFINE t == [object |-> o, stage |-> "storing", then |-> "store", generation |-> generations + 1,
                   sources |-> <<>>]
  <2>1. /\ generations \in Nat /\ generations < MaxGenerations /\ generations' = generations + 1
        /\ transfers' = [transfers EXCEPT ![c] = t]
    BY <1>3 DEF Stores, Moves, DataInv, DataTypeOK
  <2>2. t \in Transfers
    <3>1. generations + 1 \in 0 .. MaxGenerations
      BY <2>1
    <3> QED
      BY <2>1, <3>1 DEF Transfers
  <2>3. t.object = o /\ t.stage = "storing" /\ t.generation = generations + 1
    OBVIOUS
  <2> HIDE DEF t
  <2>4. \A p \in Objects \ contended' : \A r \in objectRows' : r.object = p => r.generation \in blobs'
    BY OneWriter DEF DataInv, SoleWriter, Named
  <2>5. \A r \in objectRows' : r.object # o
    BY <1>3 DEF Named
  <2> QED
    BY <2>1, <2>2, <2>3, <2>4, <2>5, StoringMove
<1> QED
  BY <1>1, <1>2, <1>3 DEF Inserts

LEMMA ReadsKeeps ==
  ASSUME DataInv, Noted, NEW c \in StorageClients, NEW o \in Objects,
         NEW then \in {"store", "drop", "answer"}, NEW sources \in Seq(Objects), sources # <<>>,
         ReadsFirst(c, o, then, sources), UNCHANGED <<objectRows, blobs, generations>>
  PROVE  DataInv'
<1>1. CASE UploadAnswered(c)
  BY <1>1, QuietMove DEF UploadAnswered
<1>2. CASE /\ Named(sources[1]) # {}
           /\ Moves(c, o, "reading", then, NewestRow(sources[1]).generation, Tail(sources))
  <2> DEFINE t == [object |-> o, stage |-> "reading", then |-> then,
                   generation |-> NewestRow(sources[1]).generation, sources |-> Tail(sources)]
  <2>1. sources[1] \in Objects /\ Tail(sources) \in Seq(Objects)
    OBVIOUS
  <2>2. NewestRow(sources[1]).generation \in 0 .. MaxGenerations
    <3>1. NewestRow(sources[1]) \in ObjectRows
      BY <1>2, <2>1, NewestIsThere DEF DataInv, DataTypeOK, Named
    <3> QED
      BY <3>1, RowParts
  <2>3. t \in Transfers
    BY <2>1, <2>2 DEF Transfers
  <2>4. t.stage = "reading" /\ transfers' = [transfers EXCEPT ![c] = t]
    BY <1>2 DEF Moves
  <2> HIDE DEF t
  <2> QED
    BY <2>3, <2>4, QuietMove
<1> QED
  BY <1>1, <1>2 DEF ReadsFirst

LEMMA TransfersAreTyped ==
  ASSUME DataInv, NEW c \in StorageClients, ~Idle(c)
  PROVE  /\ transfers[c] \in Transfers /\ transfers[c].object \in Objects
         /\ transfers[c].then \in {"store", "drop", "answer"} /\ transfers[c].sources \in Seq(Objects)
BY DEF DataInv, DataTypeOK, Idle, Transfers

LEMMA RequestsKeep ==
  ASSUME DataInv, Noted, NEW c \in StorageClients, NEW o \in Objects,
         \/ InsertObject(c, o) \/ DeleteObject(c, o) \/ GetMedia(c, o)
         \/ \E sources \in CopySources : CopyObject(c, o, sources)
  PROVE  DataInv'
<1>1. CASE InsertObject(c, o)
  BY <1>1, InsertsKeeps DEF InsertObject, Writing
<1>2. CASE DeleteObject(c, o)
  <2> DEFINE t == [object |-> o, stage |-> "clearing", then |-> "drop",
                   generation |-> NewestRow(o).generation, sources |-> <<>>]
  <2>1. Idle(c) /\ Named(o) # {} /\ transfers' = [transfers EXCEPT ![c] = t]
        /\ UNCHANGED <<objectRows, blobs, generations>>
    BY <1>2 DEF DeleteObject, Moves
  <2>2. NewestRow(o).generation \in 0 .. MaxGenerations
    <3>1. NewestRow(o) \in ObjectRows
      BY <2>1, NewestIsThere DEF DataInv, DataTypeOK, Named
    <3> QED
      BY <3>1, RowParts
  <2>3. t \in Transfers
    BY <2>2 DEF Transfers
  <2>4. t.object = o /\ t.stage = "clearing" /\ t.generation = NewestRow(o).generation
    OBVIOUS
  <2> HIDE DEF t
  <2> QED
    BY <2>1, <2>3, <2>4, ClearingMove
<1>3. CASE GetMedia(c, o)
  <2>1. <<o>> \in Seq(Objects) /\ <<o>> # <<>>
    OBVIOUS
  <2>2. ReadsFirst(c, o, "answer", <<o>>) /\ UNCHANGED <<objectRows, blobs, generations>>
    BY <1>3 DEF GetMedia
  <2> QED
    BY <2>1, <2>2, ReadsKeeps
<1>4. ASSUME NEW sources \in CopySources, CopyObject(c, o, sources)
      PROVE  DataInv'
  <2>1. sources \in Seq(Objects) /\ sources # <<>>
    OBVIOUS
  <2>2. ReadsFirst(c, o, "store", sources) /\ UNCHANGED <<objectRows, blobs, generations>>
    BY <1>4 DEF CopyObject
  <2> QED
    BY <2>1, <2>2, ReadsKeeps
<1> QED
  BY <1>1, <1>2, <1>3, <1>4

LEMMA GoingOnKeeps ==
  ASSUME DataInv, Noted, NEW c \in StorageClients,
         BodyRead(c) \/ Retrieved(c) \/ Cleared(c) \/ Stored(c) \/ StoreFails(c)
  PROVE  DataInv'
<1>1. CASE BodyRead(c)
  <2>1. ~Idle(c) /\ ~Writing(c)
    BY <1>1 DEF BodyRead, InStage, Writing
  <2> QED
    BY <1>1, <2>1, TransfersAreTyped, InsertsKeeps DEF BodyRead
<1>2. CASE Retrieved(c)
  <2>1. ~Idle(c) /\ ~Writing(c) /\ UNCHANGED <<objectRows, blobs>>
    BY <1>2 DEF Retrieved, InStage, Writing
  <2>2. CASE UploadAnswered(c) /\ UNCHANGED generations
    BY <2>1, <2>2, QuietMove DEF UploadAnswered
  <2>3. CASE /\ transfers[c].sources # <<>> /\ UNCHANGED generations
             /\ ReadsFirst(c, transfers[c].object, transfers[c].then, transfers[c].sources)
    BY <2>1, <2>3, TransfersAreTyped, ReadsKeeps
  <2>4. CASE Inserts(c, transfers[c].object)
    BY <2>1, <2>4, TransfersAreTyped, InsertsKeeps
  <2> QED
    BY <1>2, <2>2, <2>3, <2>4 DEF Retrieved
<1>3. CASE Cleared(c)
  <2> DEFINE o == transfers[c].object
             t == [object |-> o, stage |-> "storing", then |-> "store", generation |-> generations + 1,
                   sources |-> <<>>]
  <2>1. /\ InStage(c, "clearing") /\ blobs' = blobs \ {transfers[c].generation} /\ RowDropped(o)
        /\ o \in Objects
    BY <1>3, TransfersAreTyped DEF Cleared, InStage
  <2>2. /\ objectRows' \subseteq objectRows /\ blobs' \subseteq blobs
        /\ \A p \in Objects \ contended' : \A r \in objectRows' : r.object = p => r.generation \in blobs'
        /\ o \notin contended' => \A r \in objectRows' : r.object # o
    BY <2>1, ClearedFiles
  <2>3. CASE UploadAnswered(c) /\ UNCHANGED generations
    BY <2>2, <2>3, EndingMove DEF UploadAnswered
  <2>4. CASE Stores(c, o)
    <3>1. /\ generations \in Nat /\ generations < MaxGenerations /\ generations' = generations + 1
          /\ transfers' = [transfers EXCEPT ![c] = t]
      BY <2>4 DEF Stores, Moves, DataInv, DataTypeOK
    <3>2. t \in Transfers
      <4>1. generations + 1 \in 0 .. MaxGenerations
        BY <3>1
      <4> QED
        BY <2>1, <4>1 DEF Transfers
    <3>3. t.object = o /\ t.stage = "storing" /\ t.generation = generations + 1
      OBVIOUS
    <3> HIDE DEF t, o
    <3> QED
      BY <2>1, <2>2, <3>1, <3>2, <3>3, StoringMove
  <2> QED
    BY <1>3, <2>3, <2>4 DEF Cleared
<1>4. CASE Stored(c)
  BY <1>4, StoredMove
<1>5. CASE StoreFails(c)
  BY <1>5, QuietMove DEF StoreFails, UploadAnswered
<1> QED
  BY <1>1, <1>2, <1>3, <1>4, <1>5

LEMMA DataStep ==
  ASSUME DataInv, UploadInv, CloudStorageNext
  PROVE  DataInv'
<1>0. Noted /\ CloudStorageStep
  BY DEF CloudStorageNext, Noted
<1>1. CASE \E b \in Buckets : CreateBucket(b) \/ ChangeBucket(b) \/ DeleteBucket(b)
  BY <1>0, <1>1, NoMove DEF CreateBucket, ChangeBucket, DeleteBucket
<1>2. ASSUME NEW o \in Objects,
             \/ ChangeObject(o)
             \/ \E u \in Uploads : AnnounceUpload(u, o)
             \/ \E c \in StorageClients :
                  \/ InsertObject(c, o) \/ DeleteObject(c, o) \/ GetMedia(c, o)
                  \/ \E sources \in CopySources : CopyObject(c, o, sources)
      PROVE  DataInv'
  BY <1>0, <1>2, ChangeMove, NoMove, RequestsKeep DEF AnnounceUpload
<1>3. ASSUME NEW c \in StorageClients, NEW u \in Uploads, SendUpload(c, u)
      PROVE  DataInv'
  <2> DEFINE t == [object |-> resumable[u], stage |-> "body", then |-> "store", generation |-> 0,
                   sources |-> <<>>]
  <2>1. resumable[u] \in Objects
    BY <1>3 DEF SendUpload, UploadInv
  <2>2. t \in Transfers
    <3>1. 0 \in 0 .. MaxGenerations
      OBVIOUS
    <3> QED
      BY <2>1, <3>1 DEF Transfers
  <2>3. transfers' = [transfers EXCEPT ![c] = t] /\ UNCHANGED <<objectRows, blobs, generations>>
    BY <1>3 DEF SendUpload, Moves
  <2>4. t.stage = "body"
    OBVIOUS
  <2> HIDE DEF t
  <2> QED
    BY <1>0, <2>2, <2>3, <2>4, QuietMove
<1>4. ASSUME NEW c \in StorageClients,
             BodyRead(c) \/ Retrieved(c) \/ Cleared(c) \/ Stored(c) \/ StoreFails(c)
      PROVE  DataInv'
  BY <1>0, <1>4, GoingOnKeeps
<1>5. CASE RestartsStorage
  BY <1>0, <1>5, NoMove DEF RestartsStorage
<1> QED
  BY <1>0, <1>1, <1>2, <1>3, <1>4, <1>5 DEF CloudStorageStep

LEMMA UploadStep ==
  ASSUME UploadInv, CloudStorageNext
  PROVE  UploadInv'
<1>1. CASE UNCHANGED uploadVars
  BY <1>1 DEF uploadVars, UploadInv, UploadsInsertOnce
<1>2. ASSUME NEW u \in Uploads, NEW o \in Objects, AnnounceUpload(u, o)
      PROVE  UploadInv'
  BY <1>2 DEF AnnounceUpload, UploadInv, UploadsInsertOnce
<1>3. ASSUME NEW u \in Uploads, NEW c \in StorageClients, SendUpload(c, u)
      PROVE  UploadInv'
  BY <1>3 DEF SendUpload, UploadInv, UploadsInsertOnce
<1>4. CASE RestartsStorage
  BY <1>4 DEF RestartsStorage, UploadInv, UploadsInsertOnce
<1> QED
  BY <1>1, <1>2, <1>3, <1>4
     DEF CloudStorageNext, CloudStorageStep, CreateBucket, ChangeBucket, DeleteBucket, ChangeObject,
         InsertObject, DeleteObject, GetMedia, CopyObject, BodyRead, Retrieved, Cleared, Stored, StoreFails

LEMMA BucketStep ==
  ASSUME BucketsTypeOK, CloudStorageNext
  PROVE  BucketsTypeOK'
<1>1. CASE UNCHANGED buckets
  BY <1>1 DEF BucketsTypeOK
<1>2. CASE \E b \in Buckets : CreateBucket(b) \/ ChangeBucket(b) \/ DeleteBucket(b)
  BY <1>2 DEF BucketsTypeOK, CreateBucket, ChangeBucket, DeleteBucket
<1> QED
  BY <1>1, <1>2
     DEF CloudStorageNext, CloudStorageStep, ChangeObject, AnnounceUpload, SendUpload, RestartsStorage,
         InsertObject, DeleteObject, GetMedia, CopyObject, BodyRead, Retrieved, Cleared, Stored, StoreFails

(* The inductive invariant of Cloud Storage.                                 *)
StoredInv == DataInv /\ UploadInv /\ BucketsTypeOK

LEMMA StoredInvShows == StoredInv => CloudStorageInvariant
<1> SUFFICES ASSUME StoredInv PROVE CloudStorageInvariant
  OBVIOUS
<1>1. CloudStorageTypeOK
  BY DEF StoredInv, DataInv, DataTypeOK, UploadInv, BucketsTypeOK, CloudStorageTypeOK
<1>2. ASSUME NEW o \in Objects \ contended
      PROVE  Cardinality(Named(o)) <= 1 /\ \A row \in Named(o) : row.generation \in blobs
  <2>1. SoleWriter(o)
    BY DEF StoredInv, DataInv
  <2>2. CASE Named(o) = {}
    BY <2>2, FS_EmptySet
  <2>3. ASSUME NEW r \in Named(o) PROVE Cardinality(Named(o)) <= 1
    <3>1. Named(o) = {r}
      BY <2>1 DEF SoleWriter
    <3>2. Cardinality({r}) = 1
      BY FS_Singleton
    <3> QED
      BY <3>1, <3>2
  <2> QED
    BY <2>1, <2>2, <2>3 DEF SoleWriter
<1> QED
  BY <1>1, <1>2 DEF CloudStorageInvariant, SoleWriterKeepsOneObject, StoredInv, DataInv, UploadInv

(* Cloud Storage, for any objects, clients, uploads and bounds: no two rows  *)
(* share a file; an object two requests never wrote at once has one row at   *)
(* the most, and its bytes; an announced upload inserts at most once.        *)
THEOREM ObjectsAreWhole == CloudStorageSpec => []CloudStorageInvariant
<1>1. CloudStorageInit => StoredInv
  <2> SUFFICES ASSUME CloudStorageInit PROVE StoredInv
    OBVIOUS
  <2>1. DataInv
    BY DEF CloudStorageInit, DataInv, DataTypeOK, GenerationsAreApart, FilesAreOwn, Writing, Idle, InStage,
           SoleWriter, Writers, Named
  <2> QED
    BY <2>1 DEF CloudStorageInit, StoredInv, UploadInv, UploadsInsertOnce, BucketsTypeOK
<1>2. StoredInv /\ [CloudStorageNext]_cloudStorageVars => StoredInv'
  <2> SUFFICES ASSUME StoredInv, [CloudStorageNext]_cloudStorageVars PROVE StoredInv'
    OBVIOUS
  <2>1. CASE CloudStorageNext
    BY <2>1, DataStep, UploadStep, BucketStep DEF StoredInv
  <2>2. CASE UNCHANGED cloudStorageVars
    BY <2>2 DEF cloudStorageVars, uploadVars, StoredInv, DataInv, DataTypeOK, GenerationsAreApart, FilesAreOwn,
                Writing, Idle, InStage, SoleWriter, Writers, Named, UploadInv, UploadsInsertOnce, BucketsTypeOK
  <2> QED
    BY <2>1, <2>2
<1> QED
  BY <1>1, <1>2, StoredInvShows, PTL DEF CloudStorageSpec

HIDE CloudStorageAssumption

-------------------------------------------------------------------------
(* Cloud Armor policies.                                                 *)

USE ArmorAssumption

LEMMA WindowsGrow ==
  ASSUME NEW t \in Nat, NEW i \in Nat \ {0}
  PROVE  /\ t \div i \in Nat /\ t \div i <= t
         /\ t \div i <= (t + 1) \div i
<1>1. t \div i \in Nat /\ t = i * (t \div i) + (t % i) /\ t % i \in 0 .. i - 1
  OBVIOUS
<1>2. (t + 1) \div i \in Nat /\ t + 1 = i * ((t + 1) \div i) + ((t + 1) % i) /\ (t + 1) % i \in 0 .. i - 1
  OBVIOUS
<1>3. t \div i <= t
  BY <1>1
<1>4. t \div i <= (t + 1) \div i
  BY <1>1, <1>2
<1> QED
  BY <1>1, <1>3, <1>4

(* What a rule let through in its window was counted in that window, and no  *)
(* count is of a window to come; an interval that was another when the count *)
(* was made would break this, but then nothing is let through yet.           *)
Accounted(p, r, client) ==
  LET k == <<p, r.priority, client>> IN
    passed[k].count > 0 =>
      /\ passed[k].window <= rateWindows[k].window
      /\ rateWindows[k].window <= WindowOf(r.body.interval)
      /\ passed[k].window = rateWindows[k].window => passed[k].count <= rateWindows[k].count

LimitedRules(p) == {r \in armorRules[p] : RateLimits(r.body)}

WindowsAgree ==
  \A p \in ArmorPolicies : armorRules[p] # NoRow =>
    \A r \in LimitedRules(p) : \A client \in Clients :
      Accounted(p, r, client) /\ passed[<<p, r.priority, client>>].count <= r.body.count

ArmorTables ==
  /\ armorRules \in [ArmorPolicies -> (SUBSET PolicyRules) \cup {NoRow}]
  /\ rateWindows \in [RateKeys -> Windows] /\ banWindows \in [RateKeys -> Windows]
  /\ passed \in [RateKeys -> Windows] /\ bans \in [RateKeys -> Nat]
  /\ armorNow \in 0 .. ArmorHorizon
  /\ enforcedBans \subseteq ArmorPolicies \X Priorities

ArmorInv == ArmorTables /\ PrioritiesAreUnique /\ WindowsAgree /\ PreviewBansNobody

LEMMA RuleParts ==
  ASSUME NEW r \in PolicyRules
  PROVE  /\ r.priority \in Priorities /\ r.priority \in Nat
         /\ r.body \in RuleBodies /\ r.body.clients \subseteq Clients
         /\ r.body.count \in Nat /\ r.body.interval \in Nat \ {0} /\ r.body.banFor \in Nat
         /\ r.body.preview \in BOOLEAN
<1>1. r.priority \in Priorities /\ r.body \in RuleBodies
  BY DEF PolicyRules
<1>2. r.body \in RuleFields
  BY <1>1
<1> QED
  BY <1>1, <1>2 DEF RuleFields

LEMMA RuleKeys ==
  ASSUME NEW p \in ArmorPolicies, NEW q \in Priorities, NEW client \in Clients
  PROVE  /\ <<p, q, client>> \in RateKeys
         /\ <<p, q, client>>[1] = p /\ <<p, q, client>>[2] = q /\ <<p, q, client>>[3] = client
BY DEF RateKeys

(* The windows of the clock as it is.                                        *)
LEMMA WindowNow ==
  ASSUME ArmorTables, NEW r \in PolicyRules
  PROVE  WindowOf(r.body.interval) \in 0 .. ArmorHorizon
<1>1. armorNow \in Nat /\ armorNow <= ArmorHorizon
  BY DEF ArmorTables
<1>2. r.body.interval \in Nat \ {0}
  BY RuleParts
<1>3. armorNow \div r.body.interval \in Nat /\ armorNow \div r.body.interval <= armorNow
  BY <1>1, <1>2, WindowsGrow
<1> QED
  BY <1>1, <1>3 DEF WindowOf

-----------------------------------------------------------------------------
(* Policies are written: what a rule let through is forgotten with the rule. *)
LEMMA WritesKeep ==
  ASSUME ArmorInv, NEW p \in ArmorPolicies, NEW rules \in (SUBSET PolicyRules) \cup {NoRow},
         rules # NoRow => OnePerPriority(rules), Writes(p, rules)
  PROVE  ArmorInv'
<1>0. NoWindow \in Windows /\ NoWindow.count = 0
  BY DEF NoWindow, Windows
<1>1. /\ armorRules' = [armorRules EXCEPT ![p] = rules]
      /\ rateWindows' = rateWindows /\ banWindows' = banWindows /\ bans' = bans
      /\ armorNow' = armorNow /\ enforcedBans' = enforcedBans
  BY DEF Writes, counters
<1>2. /\ armorRules'[p] = rules
      /\ \A q \in ArmorPolicies : q # p => armorRules'[q] = armorRules[q]
  BY <1>1 DEF ArmorInv, ArmorTables
<1>3. passed' \in [RateKeys -> Windows]
  BY <1>0 DEF Writes, ArmorInv, ArmorTables
<1>4. ArmorTables'
  BY <1>1, <1>3 DEF ArmorInv, ArmorTables
<1>5. PrioritiesAreUnique'
  BY <1>2 DEF ArmorInv, PrioritiesAreUnique
<1>6. PreviewBansNobody'
  BY <1>1 DEF ArmorInv, PreviewBansNobody
<1>7. ASSUME NEW q \in ArmorPolicies, armorRules'[q] # NoRow, NEW r \in armorRules'[q], RateLimits(r.body),
             NEW client \in Clients
      PROVE  Accounted(q, r, client)' /\ passed'[<<q, r.priority, client>>].count <= r.body.count
  <2> DEFINE k == <<q, r.priority, client>>
  <2>1. r \in PolicyRules
    <3>1. armorRules'[q] \in (SUBSET PolicyRules) \cup {NoRow}
      BY <1>4 DEF ArmorTables
    <3> QED
      BY <1>7, <3>1
  <2>2. r.priority \in Priorities /\ r.body.count \in Nat
    BY <2>1, RuleParts
  <2>3. k \in RateKeys /\ k[1] = q /\ k[2] = r.priority
    BY <2>2, RuleKeys
  <2> HIDE DEF k
  <2>4. CASE passed'[k] = NoWindow
    <3>1. passed'[k].count = 0
      BY <1>0, <2>4
    <3> QED
      BY <2>2, <3>1 DEF Accounted, k
  <2>5. CASE passed'[k] # NoWindow
    <3>1. passed'[k] = passed[k] /\ armorRules[q] # NoRow /\ r \in armorRules[q]
      <4>1. CASE q = p
        <5>1. /\ rules # NoRow /\ armorRules[p] # NoRow /\ passed'[k] = passed[k]
              /\ RuleAt(rules, k[2]) = RuleAt(armorRules[p], k[2])
          BY <2>3, <2>5, <4>1 DEF Writes
        <5>2. r \in RuleAt(rules, k[2])
          BY <1>2, <1>7, <2>3, <4>1 DEF RuleAt
        <5> QED
          BY <4>1, <5>1, <5>2 DEF RuleAt
      <4>2. CASE q # p
        BY <1>2, <1>7, <2>3, <4>2 DEF Writes
      <4> QED
        BY <4>1, <4>2
    <3>2. Accounted(q, r, client) /\ passed[k].count <= r.body.count
      BY <1>7, <3>1 DEF ArmorInv, WindowsAgree, LimitedRules, k
    <3> QED
      BY <1>1, <3>1, <3>2 DEF Accounted, WindowOf, k
  <2> QED
    BY <2>4, <2>5 DEF k
<1>8. WindowsAgree'
  BY <1>7 DEF WindowsAgree, LimitedRules
<1> QED
  BY <1>4, <1>5, <1>6, <1>8 DEF ArmorInv

LEMMA NormalizedKeeps ==
  ASSUME NEW rules \in RuleLists, OnePerPriority(rules)
  PROVE  Normalized(rules) \in SUBSET PolicyRules /\ OnePerPriority(Normalized(rules))
<1>1. rules \subseteq PolicyRules
  OBVIOUS
<1>2. [priority |-> DefaultPriority, body |-> DefaultBody] \in PolicyRules
  BY DEF PolicyRules
<1> QED
  BY <1>1, <1>2 DEF Normalized, OnePerPriority, RuleAt

LEMMA PoliciesKeep ==
  ASSUME ArmorInv, NEW p \in ArmorPolicies,
         \/ DeletePolicy(p)
         \/ \E rules \in RuleLists : InsertPolicy(p, rules) \/ PatchPolicy(p, rules)
         \/ \E rule \in PolicyRules : AddRule(p, rule)
         \/ \E priority \in Priorities :
              \/ RemoveRule(p, priority)
              \/ \E rule \in PolicyRules : PatchRule(p, priority, rule)
  PROVE  ArmorInv'
<1>0. armorRules[p] # NoRow => armorRules[p] \subseteq PolicyRules /\ OnePerPriority(armorRules[p])
  BY DEF ArmorInv, ArmorTables, PrioritiesAreUnique
<1>1. CASE DeletePolicy(p)
  <2>1. Writes(p, NoRow)
    BY <1>1, Zenon DEF DeletePolicy
  <2> QED
    BY <2>1, WritesKeep, Zenon
<1>2. ASSUME NEW rules \in RuleLists, InsertPolicy(p, rules) \/ PatchPolicy(p, rules)
      PROVE  ArmorInv'
  <2>1. Writes(p, Normalized(rules)) /\ OnePerPriority(rules)
    BY <1>2 DEF InsertPolicy, PatchPolicy
  <2>2. Normalized(rules) \in (SUBSET PolicyRules) \cup {NoRow} /\ OnePerPriority(Normalized(rules))
    BY <2>1, NormalizedKeeps
  <2> QED
    BY <2>1, <2>2, WritesKeep
<1>3. ASSUME NEW rule \in PolicyRules, AddRule(p, rule)
      PROVE  ArmorInv'
  <2> DEFINE rules == armorRules[p] \cup {rule}
  <2>1. Writes(p, rules)
    BY <1>3 DEF AddRule
  <2>2. rules \in (SUBSET PolicyRules) \cup {NoRow} /\ OnePerPriority(rules)
    BY <1>0, <1>3 DEF AddRule, OnePerPriority, RuleAt
  <2> HIDE DEF rules
  <2> QED
    BY <2>1, <2>2, WritesKeep
<1>4. ASSUME NEW priority \in Priorities, RemoveRule(p, priority)
      PROVE  ArmorInv'
  <2> DEFINE rules == armorRules[p] \ RuleAt(armorRules[p], priority)
  <2>1. Writes(p, rules)
    BY <1>4 DEF RemoveRule
  <2>2. rules \in (SUBSET PolicyRules) \cup {NoRow} /\ OnePerPriority(rules)
    BY <1>0, <1>4 DEF RemoveRule, OnePerPriority
  <2> HIDE DEF rules
  <2> QED
    BY <2>1, <2>2, WritesKeep
<1>5. ASSUME NEW priority \in Priorities, NEW rule \in PolicyRules, PatchRule(p, priority, rule)
      PROVE  ArmorInv'
  <2> DEFINE rules == (armorRules[p] \ RuleAt(armorRules[p], priority)) \cup {rule}
  <2>1. Writes(p, rules)
    BY <1>5 DEF PatchRule
  <2>2. /\ armorRules[p] # NoRow
        /\ rule.priority # priority => RuleAt(armorRules[p], rule.priority) = {}
    BY <1>5 DEF PatchRule
  <2>3. rules \in (SUBSET PolicyRules) \cup {NoRow}
    BY <1>0, <2>2
  <2>4. ASSUME NEW r \in armorRules[p], r \notin RuleAt(armorRules[p], priority)
        PROVE  r.priority # rule.priority
    BY <2>2, <2>4 DEF RuleAt
  <2>5. OnePerPriority(rules)
    BY <1>0, <2>2, <2>4 DEF OnePerPriority
  <2> HIDE DEF rules
  <2> QED
    BY <2>1, <2>3, <2>5, WritesKeep
<1> QED
  BY <1>1, <1>2, <1>3, <1>4, <1>5

-----------------------------------------------------------------------------
(* A request: the rules evaluated, each with its own counters.               *)

(* The walk stops at a rule that is enforced, if one that matches is no      *)
(* preview.                                                                  *)
LEMMA WalkStops ==
  ASSUME ArmorInv, NEW p \in ArmorPolicies, armorRules[p] # NoRow, NEW client \in Clients,
         NEW r \in Evaluated(p, client), ~r.body.preview
  PROVE  r \in EnforcedRule(p, client)
<1>1. armorRules[p] \subseteq PolicyRules
  BY DEF ArmorInv, ArmorTables
<1>2. r \in Matching(p, client) /\ Matching(p, client) \subseteq PolicyRules
  BY <1>1 DEF Evaluated, Matching
<1> DEFINE S == {x.priority : x \in {y \in Matching(p, client) : ~y.body.preview}}
<1>3. S \in SUBSET Nat /\ S # {}
  BY <1>2, RuleParts
<1> HIDE DEF S
<1>4. PICK m \in S : \A n \in S : m <= n
  BY <1>3, LeastNatural
<1>5. PICK e \in Matching(p, client) : ~e.body.preview /\ e.priority = m
  BY DEF S
<1>6. \A other \in Matching(p, client) : ~other.body.preview => e.priority <= other.priority
  BY <1>4, <1>5 DEF S
<1>7. e \in EnforcedRule(p, client)
  BY <1>5, <1>6 DEF EnforcedRule
<1>8. r.priority <= e.priority
  BY <1>7 DEF Evaluated
<1>9. \A other \in Matching(p, client) : ~other.body.preview => r.priority <= other.priority
  <2> SUFFICES ASSUME NEW other \in Matching(p, client), ~other.body.preview
               PROVE  r.priority <= other.priority
    OBVIOUS
  <2>1. e.priority <= other.priority
    BY <1>6
  <2>2. r.priority \in Nat /\ e.priority \in Nat /\ other.priority \in Nat
    BY <1>2, RuleParts
  <2> QED
    BY <1>8, <2>1, <2>2
<1> QED
  BY <1>2, <1>9 DEF EnforcedRule

LEMMA EnforcedIsEvaluated ==
  ASSUME NEW p, NEW client, NEW r \in EnforcedRule(p, client)
  PROVE  r \in Evaluated(p, client) /\ r \in armorRules[p] /\ ~r.body.preview
BY DEF EnforcedRule, Evaluated, Matching

(* The counter of a rule limits what passed within what was counted.         *)
LEMMA CountIsKept ==
  ASSUME NEW old \in Windows, NEW was \in Windows, NEW w \in Nat, NEW limit \in Nat,
         NEW next, next = (IF old.window = w THEN old.count + 1 ELSE 1), next <= limit,
         was.count > 0 => /\ was.window <= old.window /\ old.window <= w
                          /\ was.window = old.window => was.count <= old.count
  PROVE  LET new == IF was.window = w THEN was.count + 1 ELSE 1
         IN  new \in Nat /\ new > 0 /\ new <= next /\ new <= limit
BY DEF Windows

LEMMA RequestKeeps ==
  ASSUME ArmorInv, NEW client \in Clients, RequestArrives(client)
  PROVE  ArmorInv'
<1> DEFINE counted(p) == {c \in CountsOf(p, client) : ~IsBanned(c[1])}
           body(p, k) == (CHOOSE c \in counted(p) : c[1] = k)[2]
           keys(p) == {c[1] : c \in counted(p)}
<1>1. PICK p \in Selected :
        /\ \A c \in counted(p) : \A store \in {rateWindows, banWindows} :
             NextCount(store, c[1], WindowOf(c[2].interval)) <= MaxCounted
        /\ rateWindows' = [k \in RateKeys |->
             IF k \in keys(p) THEN Bumped(rateWindows, k, WindowOf(body(p, k).interval))[k]
                              ELSE rateWindows[k]]
        /\ banWindows' = [k \in RateKeys |->
             IF k \in keys(p) /\ body(p, k).action = "rate_based_ban" /\ body(p, k).banCount > 0
               THEN Bumped(banWindows, k, WindowOf(body(p, k).interval))[k] ELSE banWindows[k]]
        /\ bans' = [k \in RateKeys |->
             IF k \in {c[1] : c \in Bans(p, client)} THEN armorNow + body(p, k).banFor ELSE bans[k]]
        /\ passed' = [k \in RateKeys |->
             IF \E r \in EnforcedRule(p, client) :
                  /\ RateLimits(r.body) /\ k = <<p, r.priority, client>>
                  /\ Outcome(k, r.body) = "ALLOW"
               THEN [window |-> WindowOf(body(p, k).interval),
                     count |-> IF passed[k].window = WindowOf(body(p, k).interval)
                                 THEN passed[k].count + 1 ELSE 1]
               ELSE passed[k]]
        /\ enforcedBans' = enforcedBans \cup
             {<<p, r.priority>> : r \in {e \in EnforcedRule(p, client) :
                                           e.body.action = "rate_based_ban"}}
        /\ UNCHANGED <<armorRules, armorNow>>
  BY DEF RequestArrives
<1>2. p \in ArmorPolicies /\ armorRules[p] # NoRow /\ armorRules[p] \subseteq PolicyRules
      /\ OnePerPriority(armorRules[p])
  BY DEF Selected, ArmorInv, ArmorTables, PrioritiesAreUnique
<1> DEFINE key(r) == <<p, r.priority, client>>
(* A rule that is counted is the only one with its key.                      *)
<1>3. ASSUME NEW r \in Evaluated(p, client), RateLimits(r.body), ~IsBanned(key(r))
      PROVE  /\ <<key(r), r.body>> \in counted(p) /\ key(r) \in keys(p)
             /\ body(p, key(r)) = r.body
  <2>1. <<key(r), r.body>> \in counted(p)
    BY <1>3 DEF CountsOf
  <2>2. ASSUME NEW c \in counted(p), c[1] = key(r)
        PROVE  c[2] = r.body
    <3>1. PICK s \in armorRules[p] : c = <<key(s), s.body>>
      BY DEF CountsOf, Evaluated, Matching
    <3>2. s.priority = r.priority
      BY <2>2, <3>1
    <3>3. r \in armorRules[p]
      BY DEF Evaluated, Matching
    <3> QED
      BY <1>2, <3>1, <3>2, <3>3 DEF OnePerPriority
  <2> HIDE DEF counted, key
  <2>3. <<key(r), r.body>>[1] = key(r) /\ <<key(r), r.body>>[2] = r.body
    OBVIOUS
  <2> QED
    BY <2>1, <2>2, <2>3
<1>4. ASSUME NEW k \in keys(p)
      PROVE  \E r \in Evaluated(p, client) : /\ k = key(r) /\ RateLimits(r.body) /\ ~IsBanned(k)
                                             /\ r \in armorRules[p] /\ r \in PolicyRules
                                             /\ body(p, k) = r.body
  <2>1. PICK c \in CountsOf(p, client) : c[1] = k /\ ~IsBanned(k)
    BY <1>4
  <2>2. PICK r \in Evaluated(p, client) : c = <<key(r), r.body>> /\ RateLimits(r.body)
    BY DEF CountsOf
  <2>3. k = key(r) /\ r \in armorRules[p] /\ r \in PolicyRules
    BY <1>2, <2>1, <2>2 DEF Evaluated, Matching
  <2> QED
    BY <1>3, <2>1, <2>2, <2>3
<1>5. ASSUME NEW r \in Evaluated(p, client), RateLimits(r.body), ~IsBanned(key(r))
      PROVE  /\ NextCount(rateWindows, key(r), WindowOf(r.body.interval)) <= MaxCounted
             /\ NextCount(banWindows, key(r), WindowOf(r.body.interval)) <= MaxCounted
  <2>1. <<key(r), r.body>> \in counted(p)
    BY <1>3, <1>5
  <2> HIDE DEF counted
  <2> QED
    BY <1>1, <2>1
<1>6. ASSUME NEW r \in EnforcedRule(p, client), RateLimits(r.body), Outcome(key(r), r.body) = "ALLOW"
      PROVE  /\ r \in Evaluated(p, client) /\ r \in armorRules[p] /\ r \in PolicyRules
             /\ ~IsBanned(key(r)) /\ ~OverLimit(key(r), r.body)
  BY <1>2, <1>6, EnforcedIsEvaluated DEF Outcome
<1> HIDE DEF counted, body, keys
<1>7. \A r \in armorRules[p] : key(r) \in RateKeys
  BY <1>2, RuleParts, RuleKeys
<1>8. /\ rateWindows \in [RateKeys -> Windows] /\ banWindows \in [RateKeys -> Windows]
      /\ passed \in [RateKeys -> Windows] /\ bans \in [RateKeys -> Nat] /\ armorNow \in Nat
  BY DEF ArmorInv, ArmorTables
(* The windows of the rules, before and after.                               *)
<1>9. ASSUME NEW k \in RateKeys
      PROVE  /\ rateWindows'[k] \in Windows /\ banWindows'[k] \in Windows /\ bans'[k] \in Nat
             /\ k \notin keys(p) => rateWindows'[k] = rateWindows[k]
  <2>1. CASE k \notin keys(p)
    <3>1. k \notin {c[1] : c \in Bans(p, client)}
      BY <2>1 DEF Bans, keys, counted
    <3> QED
      BY <1>1, <1>8, <2>1, <3>1
  <2>2. CASE k \in keys(p)
    <3>1. PICK r \in Evaluated(p, client) : /\ k = key(r) /\ RateLimits(r.body) /\ ~IsBanned(k)
                                            /\ r \in armorRules[p] /\ r \in PolicyRules
                                            /\ body(p, k) = r.body
      BY <1>4, <2>2
    <3> DEFINE w == WindowOf(r.body.interval)
    <3>2. w \in 0 .. ArmorHorizon
      BY <3>1, WindowNow DEF ArmorInv
    <3> HIDE DEF w
    <3>3. NextCount(rateWindows, k, w) <= MaxCounted /\ NextCount(banWindows, k, w) <= MaxCounted
      BY <1>5, <3>1 DEF w
    <3>4. \A store \in {rateWindows, banWindows} :
            Bumped(store, k, w)[k] = [window |-> w, count |-> NextCount(store, k, w)]
      BY <1>8 DEF Bumped
    <3>5. \A store \in {rateWindows, banWindows} : NextCount(store, k, w) \in Nat
      BY <1>8 DEF NextCount, Windows
    <3>6. \A store \in {rateWindows, banWindows} : Bumped(store, k, w)[k] \in Windows
      BY <3>2, <3>3, <3>4, <3>5 DEF Windows
    <3>7. armorNow + r.body.banFor \in Nat
      BY <1>8, <3>1, RuleParts
    <3> QED
      BY <1>1, <1>8, <2>2, <3>1, <3>6, <3>7 DEF w
  <2> QED
    BY <2>1, <2>2
(* What the counters of an evaluated rule become.                            *)
<1>10. ASSUME NEW r \in Evaluated(p, client), r \in armorRules[p], RateLimits(r.body), ~IsBanned(key(r))
       PROVE  /\ rateWindows'[key(r)].window = WindowOf(r.body.interval)
              /\ rateWindows'[key(r)].count = NextCount(rateWindows, key(r), WindowOf(r.body.interval))
  <2>1. key(r) \in RateKeys /\ key(r) \in keys(p) /\ body(p, key(r)) = r.body
    BY <1>3, <1>7, <1>10
  <2> QED
    BY <1>1, <1>8, <2>1 DEF Bumped
<1>11. \A r \in armorRules[p] : RateLimits(r.body) =>
         /\ Accounted(p, r, client) /\ passed[key(r)].count <= r.body.count
         /\ WindowOf(r.body.interval) \in Nat /\ r.body.count \in Nat
         /\ WindowOf(r.body.interval) \in 0 .. ArmorHorizon
  BY <1>2, RuleParts, WindowNow DEF ArmorInv, WindowsAgree, LimitedRules
(* What an enforced rule lets through.                                       *)
<1>12. ASSUME NEW r \in EnforcedRule(p, client), RateLimits(r.body), Outcome(key(r), r.body) = "ALLOW"
       PROVE  /\ passed'[key(r)].window = WindowOf(r.body.interval)
              /\ passed'[key(r)].count \in Nat /\ passed'[key(r)].count > 0
              /\ passed'[key(r)].count <= rateWindows'[key(r)].count
              /\ passed'[key(r)].count <= r.body.count
              /\ passed'[key(r)] \in Windows
  <2> DEFINE k == key(r)
             w == WindowOf(r.body.interval)
             new == IF passed[k].window = w THEN passed[k].count + 1 ELSE 1
  <2>1. /\ r \in Evaluated(p, client) /\ r \in armorRules[p] /\ r \in PolicyRules /\ ~IsBanned(k)
        /\ NextCount(rateWindows, k, w) <= r.body.count
    <3>1. ~(NextCount(rateWindows, k, w) > r.body.count)
      BY <1>6, <1>12 DEF OverLimit
    <3>2. NextCount(rateWindows, k, w) \in Nat /\ r.body.count \in Nat
      BY <1>6, <1>7, <1>8, <1>11, <1>12 DEF NextCount, Windows
    <3> QED
      BY <1>6, <1>12, <3>1, <3>2
  <2>2. k \in RateKeys /\ body(p, k) = r.body
    BY <1>3, <1>7, <1>12, <2>1
  <2>3. passed'[k] = [window |-> w, count |-> new]
    BY <1>1, <1>12, <2>2
  <2>4. /\ rateWindows'[k].count = NextCount(rateWindows, k, w)
        /\ NextCount(rateWindows, k, w) <= MaxCounted
    BY <1>5, <1>10, <1>12, <2>1
  <2>5. /\ Accounted(p, r, client) /\ w \in Nat /\ w \in 0 .. ArmorHorizon /\ r.body.count \in Nat
    BY <1>11, <1>12, <2>1
  <2>6. passed[k].count > 0 => /\ passed[k].window <= rateWindows[k].window /\ rateWindows[k].window <= w
                               /\ passed[k].window = rateWindows[k].window => passed[k].count <= rateWindows[k].count
    BY <2>5 DEF Accounted
  <2>7. rateWindows[k] \in Windows /\ passed[k] \in Windows
    BY <1>8, <2>2
  <2>8. NextCount(rateWindows, k, w) = IF rateWindows[k].window = w THEN rateWindows[k].count + 1 ELSE 1
    BY DEF NextCount
  <2> HIDE DEF k, w
  <2>9. new \in Nat /\ new > 0 /\ new <= NextCount(rateWindows, k, w) /\ new <= r.body.count
    BY <2>1, <2>5, <2>6, <2>7, <2>8, CountIsKept
  <2>10. new <= MaxCounted
    BY <2>4, <2>7, <2>8, <2>9 DEF Windows
  <2>11. passed'[k] \in Windows
    BY <2>3, <2>5, <2>9, <2>10 DEF Windows
  <2> QED
    BY <2>3, <2>4, <2>9, <2>11 DEF k, w
<1>13. ASSUME NEW k \in RateKeys
       PROVE  \/ passed'[k] = passed[k]
              \/ \E r \in EnforcedRule(p, client) :
                   RateLimits(r.body) /\ k = key(r) /\ Outcome(key(r), r.body) = "ALLOW"
  BY <1>1
<1>14. ArmorTables'
  <2>1. passed' \in [RateKeys -> Windows]
    <3>1. \A k \in RateKeys : passed'[k] \in Windows
      BY <1>8, <1>12, <1>13
    <3> QED
      BY <1>1, <3>1
  <2>2. /\ rateWindows' \in [RateKeys -> Windows] /\ banWindows' \in [RateKeys -> Windows]
        /\ bans' \in [RateKeys -> Nat]
    BY <1>1, <1>9
  <2>3. enforcedBans' \subseteq ArmorPolicies \X Priorities
    <3>1. \A r \in EnforcedRule(p, client) : r.priority \in Priorities
      BY <1>2, EnforcedIsEvaluated, RuleParts
    <3> QED
      BY <1>1, <1>2, <3>1 DEF ArmorInv, ArmorTables
  <2> QED
    BY <1>1, <2>1, <2>2, <2>3 DEF ArmorInv, ArmorTables
<1>15. PrioritiesAreUnique'
  BY <1>1 DEF ArmorInv, PrioritiesAreUnique
<1>16. PreviewBansNobody'
  <2> SUFFICES ASSUME NEW k \in RateKeys, bans'[k] > 0 PROVE <<k[1], k[2]>> \in enforcedBans'
    BY DEF PreviewBansNobody
  <2>1. CASE k \notin {c[1] : c \in Bans(p, client)}
    BY <1>1, <2>1 DEF ArmorInv, PreviewBansNobody
  <2>2. CASE k \in {c[1] : c \in Bans(p, client)}
    <3>1. PICK c \in CountsOf(p, client) : c[1] = k /\ WouldBan(c[1], c[2]) /\ ~c[2].preview
      BY <2>2 DEF Bans
    <3>2. PICK r \in Evaluated(p, client) : c = <<key(r), r.body>>
      BY DEF CountsOf
    <3>3. k = key(r) /\ ~r.body.preview /\ r.body.action = "rate_based_ban"
      BY <3>1, <3>2 DEF WouldBan
    <3>4. r \in EnforcedRule(p, client)
      BY <1>2, <3>3, WalkStops
    <3>5. <<p, r.priority>> \in enforcedBans'
      BY <1>1, <3>3, <3>4
    <3> QED
      BY <3>3, <3>5
  <2> QED
    BY <2>1, <2>2
<1>17. ASSUME NEW q \in ArmorPolicies, armorRules[q] # NoRow, NEW r \in armorRules[q], RateLimits(r.body),
              NEW d \in Clients
       PROVE  Accounted(q, r, d)' /\ passed'[<<q, r.priority, d>>].count <= r.body.count
  <2> DEFINE k == <<q, r.priority, d>>
  <2>0. r \in PolicyRules /\ k \in RateKeys /\ k[1] = q /\ k[2] = r.priority /\ k[3] = d
    <3>1. armorRules[q] \subseteq PolicyRules
      BY <1>17 DEF ArmorInv, ArmorTables
    <3> QED
      BY <3>1, RuleParts, RuleKeys
  <2>1. Accounted(q, r, d) /\ passed[k].count <= r.body.count
    BY <1>17 DEF ArmorInv, WindowsAgree, LimitedRules
  <2>2. CASE \E e \in EnforcedRule(p, client) :
               RateLimits(e.body) /\ k = key(e) /\ Outcome(key(e), e.body) = "ALLOW"
    <3>1. PICK e \in EnforcedRule(p, client) :
               RateLimits(e.body) /\ k = key(e) /\ Outcome(key(e), e.body) = "ALLOW"
      BY <2>2
    <3>2. q = p /\ d = client /\ e = r
      <4>1. q = p /\ d = client /\ e.priority = r.priority
        BY <2>0, <3>1
      <4>2. e \in armorRules[p]
        BY EnforcedIsEvaluated
      <4> QED
        BY <1>2, <1>17, <4>1, <4>2 DEF OnePerPriority
    <3>3. r \in Evaluated(p, client) /\ r \in armorRules[p] /\ ~IsBanned(key(r))
      BY <1>6, <3>1, <3>2
    <3>4. /\ passed'[k].window = WindowOf(r.body.interval)
          /\ passed'[k].count <= rateWindows'[k].count
          /\ passed'[k].count <= r.body.count
      BY <1>12, <3>1, <3>2
    <3>5. rateWindows'[k].window = WindowOf(r.body.interval)
      BY <1>10, <1>17, <3>1, <3>2, <3>3
    <3>6. WindowOf(r.body.interval)' = WindowOf(r.body.interval) /\ WindowOf(r.body.interval) \in Nat
      BY <1>1, <1>11, <1>17, <3>2 DEF WindowOf
    <3> QED
      BY <3>4, <3>5, <3>6 DEF Accounted
  <2>3. CASE ~ \E e \in EnforcedRule(p, client) :
               RateLimits(e.body) /\ k = key(e) /\ Outcome(key(e), e.body) = "ALLOW"
    <3>1. passed'[k] = passed[k]
      BY <1>13, <2>0, <2>3
    <3>2. WindowOf(r.body.interval)' = WindowOf(r.body.interval)
      BY <1>1 DEF WindowOf
    <3>3. CASE k \notin keys(p)
      BY <1>9, <2>0, <2>1, <3>1, <3>2, <3>3 DEF Accounted
    <3>4. CASE k \in keys(p)
      <4>1. PICK e \in Evaluated(p, client) : /\ k = key(e) /\ RateLimits(e.body) /\ ~IsBanned(k)
                                              /\ e \in armorRules[p]
        BY <1>4, <3>4
      <4>2. q = p /\ d = client /\ e = r
        <5>1. q = p /\ d = client /\ e.priority = r.priority
          BY <2>0, <4>1
        <5> QED
          BY <1>2, <1>17, <4>1, <5>1 DEF OnePerPriority
      <4>3. /\ rateWindows'[k].window = WindowOf(r.body.interval)
            /\ rateWindows'[k].count = NextCount(rateWindows, k, WindowOf(r.body.interval))
        BY <1>10, <4>1, <4>2
      <4>4. WindowOf(r.body.interval) \in Nat
        BY <1>11, <1>17, <4>2
      <4>5. rateWindows[k] \in Windows /\ passed[k] \in Windows
        BY <1>8, <2>0
      <4>6. passed[k].count > 0 => /\ passed[k].window <= rateWindows[k].window
                                   /\ rateWindows[k].window <= WindowOf(r.body.interval)
                                   /\ passed[k].window = rateWindows[k].window => passed[k].count <= rateWindows[k].count
        BY <2>1 DEF Accounted
      <4>7. passed[k].count > 0 => /\ passed[k].window <= rateWindows'[k].window
                                   /\ rateWindows'[k].window <= WindowOf(r.body.interval)
                                   /\ passed[k].window = rateWindows'[k].window => passed[k].count <= rateWindows'[k].count
        BY <4>3, <4>4, <4>5, <4>6 DEF NextCount, Windows
      <4> QED
        BY <2>1, <3>1, <3>2, <4>7 DEF Accounted
    <3> QED
      BY <3>3, <3>4
  <2> QED
    BY <2>2, <2>3
<1>18. WindowsAgree'
  BY <1>1, <1>17 DEF WindowsAgree, LimitedRules
<1> QED
  BY <1>14, <1>15, <1>16, <1>18 DEF ArmorInv

(* A window of the clock is never behind one of before.                      *)
LEMMA TickKeeps ==
  ASSUME ArmorInv, ArmorClockTicks
  PROVE  ArmorInv'
<1>1. /\ armorNow \in Nat /\ armorNow' = armorNow + 1 /\ armorNow' \in 0 .. ArmorHorizon
      /\ UNCHANGED <<armorRules, rateWindows, banWindows, bans, passed, enforcedBans>>
  BY DEF ArmorClockTicks, counters, ArmorInv, ArmorTables
<1>2. ArmorTables' /\ PrioritiesAreUnique' /\ PreviewBansNobody'
  BY <1>1 DEF ArmorInv, ArmorTables, PrioritiesAreUnique, PreviewBansNobody
<1>3. ASSUME NEW p \in ArmorPolicies, armorRules[p] # NoRow, NEW r \in armorRules[p], RateLimits(r.body),
             NEW client \in Clients
      PROVE  Accounted(p, r, client)'
  <2> DEFINE k == <<p, r.priority, client>>
  <2>1. r \in PolicyRules /\ Accounted(p, r, client)
    BY <1>3 DEF ArmorInv, ArmorTables, WindowsAgree, LimitedRules
  <2>2. k \in RateKeys /\ r.body.interval \in Nat \ {0}
    BY <2>1, RuleParts, RuleKeys
  <2>3. rateWindows[k].window \in Nat
    BY <2>2 DEF ArmorInv, ArmorTables, Windows
  <2>4. /\ WindowOf(r.body.interval) \in Nat /\ WindowOf(r.body.interval)' \in Nat
        /\ WindowOf(r.body.interval) <= WindowOf(r.body.interval)'
    BY <1>1, <2>2, WindowsGrow DEF WindowOf
  <2> QED
    BY <1>1, <2>1, <2>3, <2>4 DEF Accounted
<1>4. WindowsAgree'
  BY <1>1, <1>3 DEF ArmorInv, WindowsAgree, LimitedRules
<1> QED
  BY <1>2, <1>4 DEF ArmorInv

LEMMA ArmorRestartKeeps ==
  ASSUME ArmorInv, ArmorRestarts
  PROVE  ArmorInv'
<1>0. NoWindow \in Windows /\ NoWindow.count = 0 /\ NoWindow.window = 0
  BY DEF NoWindow, Windows
<1>1. ArmorTables'
  BY <1>0 DEF ArmorRestarts, ArmorInv, ArmorTables
<1>2. PrioritiesAreUnique' /\ PreviewBansNobody'
  BY DEF ArmorRestarts, ArmorInv, PrioritiesAreUnique, PreviewBansNobody
<1>3. ASSUME NEW p \in ArmorPolicies, armorRules[p] # NoRow, NEW r \in armorRules[p], NEW client \in Clients
      PROVE  passed'[<<p, r.priority, client>>].count = 0 /\ r.body.count \in Nat
  <2>1. r \in PolicyRules
    BY <1>3 DEF ArmorInv, ArmorTables
  <2>2. <<p, r.priority, client>> \in RateKeys /\ r.body.count \in Nat
    BY <2>1, RuleParts, RuleKeys
  <2> QED
    BY <1>0, <2>2 DEF ArmorRestarts
<1>4. WindowsAgree'
  BY <1>3 DEF WindowsAgree, LimitedRules, Accounted, ArmorRestarts
<1> QED
  BY <1>1, <1>2, <1>4 DEF ArmorInv

LEMMA ArmorInvShows == ArmorInv => ArmorInvariant
BY DEF ArmorInv, ArmorInvariant, ArmorTables, ArmorTypeOK, WindowsAgree, LimitedRules, ThrottleHolds

(* Cloud Armor, for any policies, rules, clients and bounds: priorities stay *)
(* unique, a rule lets no more than its count through in a window, and one   *)
(* that was only ever a preview has banned nobody.                           *)
THEOREM RulesAreKept == ArmorSpec => []ArmorInvariant
<1>1. ArmorInit => ArmorInv
  <2>1. NoWindow \in Windows
    BY DEF NoWindow, Windows
  <2> QED
    BY <2>1 DEF ArmorInit, ArmorInv, ArmorTables, PrioritiesAreUnique, WindowsAgree, PreviewBansNobody
<1>2. ArmorInv /\ [ArmorNext]_armorVars => ArmorInv'
  <2> SUFFICES ASSUME ArmorInv, [ArmorNext]_armorVars PROVE ArmorInv'
    OBVIOUS
  <2>1. CASE ArmorNext
    BY <2>1, PoliciesKeep, RequestKeeps, TickKeeps, ArmorRestartKeeps DEF ArmorNext
  <2>2. CASE UNCHANGED armorVars
    BY <2>2 DEF armorVars, counters, ArmorInv, ArmorTables, PrioritiesAreUnique, WindowsAgree, LimitedRules,
                Accounted, WindowOf, PreviewBansNobody
  <2> QED
    BY <2>1, <2>2
<1> QED
  BY <1>1, <1>2, ArmorInvShows, PTL DEF ArmorSpec

HIDE ArmorAssumption

-------------------------------------------------------------------------
(* Workflows, their revisions and executions.                            *)

(* A revision has a random part of its own, and whatever names a revision  *)
(* that is stored - a row, a program that runs, an execution - has the     *)
(* program of that revision.                                               *)
Follows(x, r) == x # NoRow /\ x.revision.tag = r.revision.tag => x.source = r.source
GivenOut(x) == x # NoRow => x.revision.tag < revisionTags

RevisionsAreOwn ==
  /\ IsFiniteSet(revisions)
  /\ \A r \in revisions : r.revision.tag < revisionTags
  /\ \A r, s \in revisions : r.revision.tag = s.revision.tag => r = s
  /\ \A w \in WorkflowNames :
       GivenOut(workflows[w]) /\ \A r \in revisions : Follows(workflows[w], r)
  /\ \A e \in ExecutionIds :
       /\ GivenOut(running[e]) /\ GivenOut(executions[e])
       /\ \A r \in revisions : Follows(running[e], r) /\ Follows(executions[e], r)

WorkflowTables ==
  /\ workflows \in [WorkflowNames -> WorkflowRecords \cup {NoRow}]
  /\ running \in [ExecutionIds -> Runs \cup {NoRow}]
  /\ executions \in [ExecutionIds -> ExecutionRecords \cup {NoRow}]
  /\ revisions \in SUBSET RevisionRecords /\ revisionTags \in 0..RevisionTags

WorkflowsInv == WorkflowTables /\ RevisionsConsecutive /\ RevisionsAreOwn

USE WorkflowsAssumption

LEMMA RecordsHave ==
  /\ \A x \in WorkflowRecords : x.revision \in RevisionIds /\ x.source \in WorkflowSources /\ x # NoRow
  /\ \A x \in Runs : /\ x.revision \in RevisionIds /\ x.source \in WorkflowSources /\ x # NoRow
                     /\ x.workflow \in WorkflowNames
  /\ \A x \in ExecutionRecords : x.revision \in RevisionIds /\ x.source \in WorkflowSources /\ x # NoRow
  /\ \A x \in RevisionRecords : /\ x.revision \in RevisionIds /\ x.source \in WorkflowSources
                                /\ x.workflow \in WorkflowNames
  /\ \A x \in RevisionIds : x.tag \in Nat /\ x.ordinal \in Nat
BY DEF WorkflowRecords, Runs, ExecutionRecords, RevisionRecords, RevisionIds

(* The row of a workflow with a new revision, and its snapshot, if the     *)
(* process lives to write it.                                              *)
RowAndSnapshot(w, source, id) ==
  /\ workflows' = [workflows EXCEPT ![w] = Row(source, id)]
  /\ \/ revisions' = revisions /\ RunsLost
     \/ revisions' = revisions \cup {Snapshot(w, source, id)} /\ RunsKept

LEMMA NewRevisionKeeps ==
  ASSUME WorkflowsInv, NEW w \in WorkflowNames, NEW source \in WorkflowSources, NewRevision,
         NEW n \in Nat, n = Cardinality(RevisionsOf(w)) + 1,
         RowAndSnapshot(w, source, [ordinal |-> n, tag |-> revisionTags])
  PROVE  WorkflowsInv'
<1> USE DEF WorkflowsInv
<1> DEFINE id == [ordinal |-> n, tag |-> revisionTags]
           row == Row(source, id)
           snapshot == Snapshot(w, source, id)
<1>1. IsFiniteSet(RevisionsOf(w)) /\ Cardinality(RevisionsOf(w)) \in Nat
  BY FS_Subset, FS_CardinalityType DEF RevisionsOf, RevisionsAreOwn
<1>2. revisionTags \in Nat /\ revisionTags' = revisionTags + 1 /\ revisionTags' \in 0..RevisionTags
      /\ executions' = executions
  BY DEF NewRevision, WorkflowTables
<1>3. id \in RevisionIds /\ id.tag = revisionTags /\ id.ordinal = n
  BY <1>1, <1>2 DEF RevisionIds
<1> HIDE DEF id
<1>4. /\ row \in WorkflowRecords /\ row # NoRow /\ row.revision = id /\ row.source = source
      /\ snapshot \in RevisionRecords /\ snapshot.revision = id /\ snapshot.source = source
      /\ snapshot.workflow = w
  BY <1>3 DEF Row, Snapshot, WorkflowRecords, RevisionRecords
<1> HIDE DEF row, snapshot
<1>5. workflows' = [workflows EXCEPT ![w] = row]
      /\ (revisions' = revisions \/ revisions' = revisions \cup {snapshot})
      /\ (running' = [e \in ExecutionIds |-> NoRow] \/ running' = running)
  BY DEF RowAndSnapshot, RunsLost, RunsKept, row, snapshot, id
<1>6. /\ \A v \in WorkflowNames : workflows'[v] = IF v = w THEN row ELSE workflows[v]
      /\ \A e \in ExecutionIds : running'[e] = running[e] \/ running'[e] = NoRow
  BY <1>5 DEF WorkflowTables
<1>7. WorkflowTables'
  BY <1>2, <1>4, <1>5 DEF WorkflowTables
<1>8. snapshot \notin revisions /\ \A r \in revisions : r.revision.tag # revisionTags /\ r.revision.tag \in Nat
  BY <1>2, <1>3, <1>4, RecordsHave DEF RevisionsAreOwn, WorkflowTables
<1>9. RevisionsAreOwn'
  <2>1. IsFiniteSet(revisions')
    BY <1>5, FS_AddElement DEF RevisionsAreOwn
  <2>2. \A r \in revisions' : r \in revisions \/ r = snapshot
    BY <1>5
  <2>3. /\ \A r \in revisions' : r.revision.tag < revisionTags'
        /\ \A r, s \in revisions' : r.revision.tag = s.revision.tag => r = s
    BY <1>2, <1>3, <1>4, <1>8, <2>2 DEF RevisionsAreOwn
  <2>4. ASSUME NEW v \in WorkflowNames
        PROVE  /\ GivenOut(workflows[v])' /\ \A r \in revisions' : Follows(workflows'[v], r)
    <3>1. GivenOut(workflows[v]) /\ \A r \in revisions : Follows(workflows[v], r)
      BY DEF RevisionsAreOwn
    <3>2. workflows[v] # NoRow => workflows[v].revision.tag \in Nat
      BY RecordsHave DEF WorkflowTables
    <3> QED
      BY <1>2, <1>3, <1>4, <1>6, <1>8, <2>2, <3>1, <3>2 DEF GivenOut, Follows
  <2>5. ASSUME NEW e \in ExecutionIds
        PROVE  /\ GivenOut(running[e])' /\ GivenOut(executions[e])'
               /\ \A r \in revisions' : Follows(running'[e], r) /\ Follows(executions'[e], r)
    <3>1. /\ GivenOut(running[e]) /\ GivenOut(executions[e])
          /\ \A r \in revisions : Follows(running[e], r) /\ Follows(executions[e], r)
      BY DEF RevisionsAreOwn
    <3>2. /\ running[e] # NoRow => running[e].revision.tag \in Nat
          /\ executions[e] # NoRow => executions[e].revision.tag \in Nat
      BY RecordsHave DEF WorkflowTables
    <3> QED
      BY <1>2, <1>3, <1>4, <1>6, <2>2, <3>1, <3>2 DEF GivenOut, Follows
  <2> QED
    BY <2>1, <2>3, <2>4, <2>5 DEF RevisionsAreOwn
<1>10. RevisionsConsecutive'
  <2> SUFFICES ASSUME NEW v \in WorkflowNames
               PROVE  /\ {r.revision.ordinal : r \in RevisionsOf(v)'} = 1..Cardinality(RevisionsOf(v)')
                      /\ workflows'[v] = NoRow => RevisionsOf(v)' = {}
    BY DEF RevisionsConsecutive, RevisionsOf
  <2>1. /\ {r.revision.ordinal : r \in RevisionsOf(v)} = 1..Cardinality(RevisionsOf(v))
        /\ workflows[v] = NoRow => RevisionsOf(v) = {}
    BY DEF RevisionsConsecutive
  <2>2. CASE RevisionsOf(v)' = RevisionsOf(v)
    BY <1>4, <1>6, <2>1, <2>2, RecordsHave
  <2>3. CASE v = w /\ RevisionsOf(v)' = RevisionsOf(v) \cup {snapshot}
    <3> DEFINE old == RevisionsOf(v)
    <3>1. snapshot \notin old /\ IsFiniteSet(old) /\ n = Cardinality(old) + 1 /\ Cardinality(old) \in Nat
      BY <1>1, <1>8, <2>3 DEF RevisionsOf
    <3>2. {r.revision.ordinal : r \in old} = 1..Cardinality(old)
      BY <2>1
    <3>3. RevisionsOf(v)' = old \cup {snapshot} /\ workflows'[v] # NoRow
      BY <1>4, <1>6, <2>3
    <3> HIDE DEF old
    <3>4. Cardinality(old \cup {snapshot}) = n
      BY <3>1, FS_AddElement
    <3>5. {r.revision.ordinal : r \in old \cup {snapshot}} = {r.revision.ordinal : r \in old} \cup {n}
      BY <1>3, <1>4
    <3>6. (1..Cardinality(old)) \cup {n} = 1..n
      BY <3>1
    <3> QED
      BY <3>2, <3>3, <3>4, <3>5, <3>6
  <2>4. RevisionsOf(v)' = RevisionsOf(v) \/ (v = w /\ RevisionsOf(v)' = RevisionsOf(v) \cup {snapshot})
    BY <1>4, <1>5 DEF RevisionsOf
  <2> QED
    BY <2>2, <2>3, <2>4
<1> QED
  BY <1>7, <1>9, <1>10

LEMMA DeletionKeepsRevisions ==
  ASSUME WorkflowsInv, NEW w \in WorkflowNames, NEW killed \in BOOLEAN, DeleteWorkflow(w, killed)
  PROVE  WorkflowsInv'
<1> USE DEF WorkflowsInv
<1>1. /\ revisions' = revisions \ RevisionsOf(w) /\ revisionTags' = revisionTags /\ executions' = executions
      /\ workflows' = workflows \/ workflows' = [workflows EXCEPT ![w] = NoRow]
      /\ running' = [e \in ExecutionIds |-> NoRow] \/ running' = running
  BY DEF DeleteWorkflow, RunsLost, RunsKept
<1>2. /\ \A v \in WorkflowNames : workflows'[v] = workflows[v] \/ (v = w /\ workflows'[v] = NoRow)
      /\ \A e \in ExecutionIds : running'[e] = running[e] \/ running'[e] = NoRow
  BY <1>1 DEF WorkflowTables
<1>3. WorkflowTables'
  BY <1>1 DEF WorkflowTables
<1>4. RevisionsAreOwn'
  <2>1. IsFiniteSet(revisions') /\ revisions' \subseteq revisions
    BY <1>1, FS_Subset DEF RevisionsAreOwn
  <2> QED
    BY <1>1, <1>2, <2>1 DEF RevisionsAreOwn, GivenOut, Follows
<1>5. RevisionsConsecutive'
  <2> SUFFICES ASSUME NEW v \in WorkflowNames
               PROVE  /\ {r.revision.ordinal : r \in RevisionsOf(v)'} = 1..Cardinality(RevisionsOf(v)')
                      /\ workflows'[v] = NoRow => RevisionsOf(v)' = {}
    BY DEF RevisionsConsecutive, RevisionsOf
  <2>1. /\ {r.revision.ordinal : r \in RevisionsOf(v)} = 1..Cardinality(RevisionsOf(v))
        /\ workflows[v] = NoRow => RevisionsOf(v) = {}
    BY DEF RevisionsConsecutive
  <2>2. CASE v = w
    <3>1. RevisionsOf(v)' = {}
      BY <1>1, <2>2 DEF RevisionsOf
    <3>2. Cardinality({}) = 0
      BY FS_EmptySet
    <3>3. {r.revision.ordinal : r \in {}} = {} /\ 1..0 = {}
      OBVIOUS
    <3> QED
      BY <3>1, <3>2, <3>3
  <2>3. CASE v # w
    <3>1. RevisionsOf(v)' = RevisionsOf(v)
      BY <1>1, <2>3 DEF RevisionsOf
    <3> QED
      BY <1>2, <2>1, <2>3, <3>1
  <2> QED
    BY <2>2, <2>3
<1> QED
  BY <1>3, <1>4, <1>5

(* Executions begin and end beside the tables of workflows.                *)
LEMMA ExecutionsKeep ==
  ASSUME WorkflowsInv, UNCHANGED <<workflows, revisions, revisionTags>>,
         running' \in [ExecutionIds -> Runs \cup {NoRow}],
         executions' \in [ExecutionIds -> ExecutionRecords \cup {NoRow}],
         \A e \in ExecutionIds :
           /\ GivenOut(running'[e]) /\ GivenOut(executions'[e])
           /\ \A r \in revisions : Follows(running'[e], r) /\ Follows(executions'[e], r)
  PROVE  WorkflowsInv'
<1>1. WorkflowTables'
  BY DEF WorkflowsInv, WorkflowTables
<1>2. RevisionsAreOwn'
  BY DEF WorkflowsInv, RevisionsAreOwn, GivenOut
<1>3. RevisionsConsecutive'
  BY DEF WorkflowsInv, RevisionsConsecutive, RevisionsOf
<1> QED
  BY <1>1, <1>2, <1>3 DEF WorkflowsInv

LEMMA WorkflowsStep ==
  ASSUME WorkflowsInv, WorkflowsNext
  PROVE  WorkflowsInv'
<1>1. ASSUME NEW w \in WorkflowNames, NEW killed \in BOOLEAN, NEW source \in WorkflowSources,
             CreateWorkflow(w, source, killed)
      PROVE  WorkflowsInv'
  <2>1. RevisionsOf(w) = {} /\ Cardinality({}) = 0
    BY <1>1, FS_EmptySet DEF WorkflowsInv, RevisionsConsecutive, CreateWorkflow
  <2>2. NewRevision /\ RowAndSnapshot(w, source, [ordinal |-> 1, tag |-> revisionTags])
    BY <1>1 DEF CreateWorkflow, RowAndSnapshot
  <2>3. 1 = Cardinality(RevisionsOf(w)) + 1
    BY <2>1
  <2> QED
    BY <2>2, <2>3, NewRevisionKeeps
<1>2. ASSUME NEW w \in WorkflowNames, NEW killed \in BOOLEAN, NEW source \in WorkflowSources,
             UpdateWorkflow(w, source, killed)
      PROVE  WorkflowsInv'
  <2> DEFINE n == Cardinality(RevisionsOf(w)) + 1
  <2>1. n \in Nat
    BY FS_Subset, FS_CardinalityType DEF WorkflowsInv, RevisionsAreOwn, RevisionsOf
  <2>2. NewRevision /\ RowAndSnapshot(w, source, [ordinal |-> n, tag |-> revisionTags])
    BY <1>2 DEF UpdateWorkflow, RowAndSnapshot, NextOrdinal
  <2> QED
    BY <2>1, <2>2, NewRevisionKeeps
<1>3. ASSUME NEW w \in WorkflowNames, NEW killed \in BOOLEAN, DeleteWorkflow(w, killed) PROVE WorkflowsInv'
  BY <1>3, DeletionKeepsRevisions
<1>4. ASSUME NEW e \in ExecutionIds, NEW w \in WorkflowNames, CreateExecution(e, w) PROVE WorkflowsInv'
  <2> DEFINE run == [workflow |-> w, revision |-> workflows[w].revision, source |-> workflows[w].source]
  <2>1. workflows[w] \in WorkflowRecords
    BY <1>4 DEF CreateExecution, WorkflowsInv, WorkflowTables
  <2>2. run \in Runs /\ run.revision = workflows[w].revision /\ run.source = workflows[w].source
    BY <2>1, RecordsHave DEF Runs
  <2>3. /\ running' = [running EXCEPT ![e] = run] /\ executions' = executions
        /\ UNCHANGED <<workflows, revisions, revisionTags>>
    BY <1>4 DEF CreateExecution
  <2> HIDE DEF run
  <2>4. /\ GivenOut(run) /\ \A r \in revisions : Follows(run, r)
    BY <2>1, <2>2, RecordsHave DEF GivenOut, Follows, WorkflowsInv, RevisionsAreOwn
  <2>5. \A d \in ExecutionIds : running'[d] = IF d = e THEN run ELSE running[d]
    BY <2>3 DEF WorkflowsInv, WorkflowTables
  <2>6. /\ running' \in [ExecutionIds -> Runs \cup {NoRow}]
        /\ executions' \in [ExecutionIds -> ExecutionRecords \cup {NoRow}]
    BY <2>2, <2>3 DEF WorkflowsInv, WorkflowTables
  <2>7. \A d \in ExecutionIds :
          /\ GivenOut(running'[d]) /\ GivenOut(executions'[d])
          /\ \A r \in revisions : Follows(running'[d], r) /\ Follows(executions'[d], r)
    BY <2>3, <2>4, <2>5 DEF WorkflowsInv, RevisionsAreOwn
  <2> QED
    BY <2>3, <2>6, <2>7, ExecutionsKeep
<1>5. ASSUME NEW e \in ExecutionIds, NEW state \in {"SUCCEEDED", "FAILED"}, ExecutionAnswers(e, state)
      PROVE  WorkflowsInv'
  <2> DEFINE record == NewExecution(running[e], state)
  <2>1. running[e] \in Runs
    BY <1>5 DEF ExecutionAnswers, WorkflowsInv, WorkflowTables
  <2>2. /\ record \in ExecutionRecords /\ record.revision = running[e].revision
        /\ record.source = running[e].source
    BY <2>1, RecordsHave DEF NewExecution, ExecutionRecords
  <2>3. /\ executions' = [executions EXCEPT ![e] = record] /\ running' = [running EXCEPT ![e] = NoRow]
        /\ UNCHANGED <<workflows, revisions, revisionTags>>
    BY <1>5 DEF ExecutionAnswers
  <2> HIDE DEF record
  <2>4. /\ GivenOut(record) /\ \A r \in revisions : Follows(record, r)
    BY <2>1, <2>2, RecordsHave DEF GivenOut, Follows, WorkflowsInv, RevisionsAreOwn
  <2>5. \A d \in ExecutionIds : /\ running'[d] = IF d = e THEN NoRow ELSE running[d]
                                /\ executions'[d] = IF d = e THEN record ELSE executions[d]
    BY <2>3 DEF WorkflowsInv, WorkflowTables
  <2>6. /\ running' \in [ExecutionIds -> Runs \cup {NoRow}]
        /\ executions' \in [ExecutionIds -> ExecutionRecords \cup {NoRow}]
    BY <2>2, <2>3 DEF WorkflowsInv, WorkflowTables
  <2>7. \A d \in ExecutionIds :
          /\ GivenOut(running'[d]) /\ GivenOut(executions'[d])
          /\ \A r \in revisions : Follows(running'[d], r) /\ Follows(executions'[d], r)
    BY <2>3, <2>4, <2>5 DEF WorkflowsInv, RevisionsAreOwn, GivenOut, Follows
  <2> QED
    BY <2>3, <2>6, <2>7, ExecutionsKeep
<1>6. CASE WorkflowsCrash
  <2>1. /\ running' = [e \in ExecutionIds |-> NoRow] /\ executions' = executions
        /\ UNCHANGED <<workflows, revisions, revisionTags>>
    BY <1>6 DEF WorkflowsCrash, RunsLost
  <2>2. \A d \in ExecutionIds :
          /\ GivenOut(running'[d]) /\ GivenOut(executions'[d])
          /\ \A r \in revisions : Follows(running'[d], r) /\ Follows(executions'[d], r)
    BY <2>1 DEF WorkflowsInv, RevisionsAreOwn, GivenOut, Follows
  <2> QED
    BY <2>1, <2>2, ExecutionsKeep DEF WorkflowsInv, WorkflowTables
<1> QED
  BY <1>1, <1>2, <1>3, <1>4, <1>5, <1>6 DEF WorkflowsNext

LEMMA WorkflowsBegin ==
  ASSUME WorkflowsInit
  PROVE  WorkflowsInv
<1>1. IsFiniteSet({}) /\ Cardinality({}) = 0 /\ 1..0 = {}
  BY FS_EmptySet
<1>2. \A w \in WorkflowNames : RevisionsOf(w) = {}
  BY DEF WorkflowsInit, RevisionsOf
<1>3. RevisionsConsecutive
  BY <1>1, <1>2 DEF RevisionsConsecutive
<1>4. WorkflowTables
  BY DEF WorkflowsInit, WorkflowTables
<1>5. RevisionsAreOwn
  BY <1>1 DEF WorkflowsInit, RevisionsAreOwn, GivenOut, Follows
<1> QED
  BY <1>3, <1>4, <1>5 DEF WorkflowsInv

(* Revisions are numbered without a gap, whatever is killed, and an        *)
(* execution names the revision whose program it ran.                      *)
THEOREM ExecutionsNameTheirProgram == WorkflowsSpec => []WorkflowsInvariant
<1>1. WorkflowsInit => WorkflowsInv
  BY WorkflowsBegin
<1>2. WorkflowsInv /\ [WorkflowsNext]_workflowVars => WorkflowsInv'
  <2>1. WorkflowsInv /\ UNCHANGED workflowVars => WorkflowsInv'
    BY ZenonT(60) DEF workflowVars, WorkflowsInv, WorkflowTables, RevisionsConsecutive, RevisionsAreOwn, RevisionsOf, GivenOut
  <2> QED
    BY <2>1, WorkflowsStep
<1>3. WorkflowsInv => WorkflowsInvariant
  <2> SUFFICES ASSUME WorkflowsInv PROVE WorkflowsInvariant
    OBVIOUS
  <2>1. WorkflowsTypeOK
    BY DEF WorkflowsInv, WorkflowTables, WorkflowsTypeOK
  <2>2. ExecutionsRanTheirRevision
    BY DEF WorkflowsInv, RevisionsAreOwn, Follows, ExecutionsRanTheirRevision
  <2> QED
    BY <2>1, <2>2 DEF WorkflowsInv, WorkflowsInvariant
<1> QED
  BY <1>1, <1>2, <1>3, PTL DEF WorkflowsSpec

HIDE WorkflowsAssumption

-------------------------------------------------------------------------
(* The breakers of the gateway.                                          *)

USE DispatcherAssumption

Breakers ==
  [state : BreakerStates, failures : 0 .. FailureThreshold, total : 0 .. MinimumThroughput, due : BOOLEAN]

(* What opened a breaker: enough requests, and enough of them failed.      *)
Caused(b) == b.state # "closed" => b.failures = FailureThreshold /\ b.total = MinimumThroughput

(* The counters stop at what they are compared with.                       *)
LEMMA CountsStop ==
  ASSUME NEW limit \in Nat, NEW n \in 0 .. limit
  PROVE  UpTo(n + 1, limit) \in 0 .. limit /\ (n = limit => UpTo(n + 1, limit) = limit)
BY DEF UpTo

(* What is asked, answers or fails leaves a breaker that is open for cause.*)
LEMMA BreakerMoves ==
  ASSUME NEW b \in Breakers, Caused(b)
  PROVE  /\ Tried(b) \in Breakers /\ Caused(Tried(b))
         /\ Succeeded(b) \in Breakers /\ Caused(Succeeded(b))
         /\ FailedBreaker(b) \in Breakers /\ Caused(FailedBreaker(b))
         /\ [b EXCEPT !.due = TRUE] \in Breakers /\ Caused([b EXCEPT !.due = TRUE])
<1> DEFINE total == UpTo(b.total + 1, MinimumThroughput)
           failures == UpTo(b.failures + 1, FailureThreshold)
<1>1. /\ b.state \in BreakerStates /\ b.failures \in 0 .. FailureThreshold
      /\ b.total \in 0 .. MinimumThroughput /\ b.due \in BOOLEAN
  BY DEF Breakers
<1>2. /\ total \in 0 .. MinimumThroughput
      /\ b.total = MinimumThroughput => total = MinimumThroughput
  BY <1>1, CountsStop
<1>3. /\ failures \in 0 .. FailureThreshold
      /\ b.failures = FailureThreshold => failures = FailureThreshold
  BY <1>1, CountsStop
<1>4. Tried(b) \in Breakers /\ Caused(Tried(b))
  BY <1>1 DEF Tried, Breakers, BreakerStates, Caused
<1>5. Succeeded(b) \in Breakers /\ Caused(Succeeded(b))
  <2>1. Succeeded(b) = IF b.state = "half_open"
                       THEN [b EXCEPT !.total = total, !.state = "closed", !.failures = 0, !.due = FALSE]
                       ELSE [b EXCEPT !.total = total]
    BY <1>1 DEF Succeeded, Breakers
  <2> HIDE DEF total
  <2>2. CASE b.state = "half_open"
    <3>1. 0 \in 0 .. FailureThreshold /\ "closed" \in BreakerStates
      BY DispatcherAssumption DEF BreakerStates
    <3>2. Succeeded(b) = [state |-> "closed", failures |-> 0, total |-> total, due |-> FALSE]
      BY <1>1, <2>1, <2>2 DEF Breakers
    <3>3. Succeeded(b) \in Breakers
      BY <1>2, <3>1, <3>2 DEF Breakers
    <3> QED
      BY <3>2, <3>3 DEF Caused
  <2>3. CASE b.state # "half_open"
    <3>1. Succeeded(b) \in Breakers
      BY <1>1, <1>2, <2>1, <2>3 DEF Breakers
    <3>2. /\ Succeeded(b).state = b.state /\ Succeeded(b).failures = b.failures
          /\ Succeeded(b).total = total
      BY <1>1, <2>1, <2>3 DEF Breakers
    <3> QED
      BY <1>2, <3>1, <3>2 DEF Caused
  <2> QED
    BY <2>2, <2>3
<1>6. FailedBreaker(b) \in Breakers /\ Caused(FailedBreaker(b))
  <2>1. FailedBreaker(b) =
          IF b.state # "open" /\ failures = FailureThreshold /\ total = MinimumThroughput
          THEN [b EXCEPT !.total = total, !.failures = failures, !.state = "open", !.due = FALSE]
          ELSE [b EXCEPT !.total = total, !.failures = failures]
    BY <1>1 DEF FailedBreaker, Breakers
  <2> HIDE DEF total, failures
  <2> QED
    BY <1>1, <1>2, <1>3, <2>1 DEF Breakers, BreakerStates, Caused
<1>7. [b EXCEPT !.due = TRUE] \in Breakers /\ Caused([b EXCEPT !.due = TRUE])
  BY <1>1 DEF Breakers, Caused
<1> QED
  BY <1>4, <1>5, <1>6, <1>7

Sound(bs) == bs \in [Services -> Breakers] /\ \A s \in Services : Caused(bs[s])

(* A delay is followed by another attempt.                                 *)
DelaysAreShort ==
  \A d \in Dispatches :
    dispatches[d] # NoRow /\ dispatches[d].at = "delay" => dispatches[d].attempt < MaxAttempts

DispatcherInv == DispatcherTypeOK /\ Sound(breakers) /\ DelaysAreShort

(* What a dispatch sends goes to a breaker that lets it through.           *)
Sends(d, bs) ==
  dispatches'[d] # NoRow => dispatches'[d].at = "fetch" /\ CanExecute(bs[dispatches'[d].service])

LEMMA SomeSent ==
  ASSUME DispatcherInv, NEW d \in Dispatches, NEW endpoints \in SUBSET Services,
         NEW made \in 0 .. MaxAttempts - 1, NEW bs, Sound(bs), NEW s \in endpoints, CanExecute(bs[s]),
         DispatchSends(d, endpoints, made, bs, s)
  PROVE  /\ dispatches' \in [Dispatches -> DispatchRecords \cup {NoRow}]
         /\ Sound(breakers') /\ Sends(d, bs)
         /\ \A e \in Dispatches : e # d => dispatches'[e] = dispatches[e]
<1> DEFINE sent == [endpoints |-> endpoints, attempt |-> made + 1, at |-> "fetch", service |-> s]
<1>1. sent \in DispatchRecords
  <2>1. made + 1 \in 1 .. MaxAttempts /\ s \in Services
    OBVIOUS
  <2> QED
    BY <2>1 DEF DispatchRecords
<1>2. dispatches \in [Dispatches -> DispatchRecords \cup {NoRow}]
  BY DEF DispatcherInv, DispatcherTypeOK
<1>3. s \in Services /\ bs[s] \in Breakers /\ Caused(bs[s])
  BY DEF Sound
<1>4. Tried(bs[s]) \in Breakers /\ Caused(Tried(bs[s]))
  BY <1>3, BreakerMoves
<1>5. FailedBreaker(Tried(bs[s])) \in Breakers /\ Caused(FailedBreaker(Tried(bs[s])))
  BY <1>4, BreakerMoves
<1>6. CASE s \in registered
  <2>1. breakers' = [bs EXCEPT ![s] = Tried(bs[s])] /\ dispatches' = [dispatches EXCEPT ![d] = sent]
    BY <1>6 DEF DispatchSends
  <2>2. sent.at = "fetch" /\ sent.service = s
    OBVIOUS
  <2> HIDE DEF sent
  <2>3. dispatches'[d] = sent
    BY <1>2, <2>1
  <2>4. Sends(d, bs)
    BY <2>2, <2>3 DEF Sends
  <2>5. Sound(breakers')
    BY <1>3, <1>4, <2>1 DEF Sound
  <2> QED
    BY <1>1, <1>2, <2>1, <2>4, <2>5
<1>7. CASE s \notin registered
  <2>1. /\ breakers' = [bs EXCEPT ![s] = FailedBreaker(Tried(bs[s]))]
        /\ dispatches' = [dispatches EXCEPT ![d] = NoRow]
    BY <1>7 DEF DispatchSends, DispatchReturns
  <2>2. Sends(d, bs)
    BY <1>2, <2>1 DEF Sends
  <2>3. Sound(breakers')
    BY <1>3, <1>5, <2>1 DEF Sound
  <2> QED
    BY <1>2, <2>1, <2>2, <2>3
<1> QED
  BY <1>6, <1>7

(* A run of the loop sends to no endpoint whose breaker is open.           *)
LEMMA LoopSends ==
  ASSUME DispatcherInv, NEW d \in Dispatches, NEW endpoints \in SUBSET Services,
         NEW made \in 0 .. MaxAttempts - 1, NEW bs, Sound(bs), Loops(d, endpoints, made, bs)
  PROVE  /\ dispatches' \in [Dispatches -> DispatchRecords \cup {NoRow}]
         /\ sessions' \in [Sessions -> Services \cup {NoRow}]
         /\ Sound(breakers') /\ Sends(d, bs)
         /\ \A e \in Dispatches : e # d => dispatches'[e] = dispatches[e]
<1>1. /\ dispatches \in [Dispatches -> DispatchRecords \cup {NoRow}]
      /\ sessions \in [Sessions -> Services \cup {NoRow}]
  BY DEF DispatcherInv, DispatcherTypeOK
<1>2. ASSUME breakers' = bs, DispatchReturns(d)
      PROVE  /\ dispatches' \in [Dispatches -> DispatchRecords \cup {NoRow}]
             /\ Sound(breakers') /\ Sends(d, bs)
             /\ \A e \in Dispatches : e # d => dispatches'[e] = dispatches[e]
  BY <1>1, <1>2 DEF DispatchReturns, Sends
<1>3. CASE SessionOf[d] = NoRow /\ LoopsFreely(d, endpoints, made, bs)
  <2>1. PICK skipped \in 0 .. MaxAttempts - made :
          /\ \/ made + skipped = MaxAttempts /\ breakers' = bs /\ DispatchReturns(d)
             \/ /\ made + skipped < MaxAttempts
                /\ \E s \in endpoints \ {t \in endpoints : ~CanExecute(bs[t])} :
                     DispatchSends(d, endpoints, made + skipped, bs, s)
          /\ UNCHANGED sessions
    BY <1>3, Zenon DEF LoopsFreely
  <2>2. CASE made + skipped < MaxAttempts
    <3>1. PICK s \in endpoints : CanExecute(bs[s]) /\ DispatchSends(d, endpoints, made + skipped, bs, s)
      BY <2>1, <2>2
    <3>2. made + skipped \in 0 .. MaxAttempts - 1
      BY <2>2
    <3> QED
      BY <1>1, <2>1, <3>1, <3>2, SomeSent
  <2>3. CASE ~(made + skipped < MaxAttempts)
    BY <1>1, <1>2, <2>1, <2>3
  <2> QED
    BY <2>2, <2>3
<1>4. CASE SessionOf[d] # NoRow /\ LoopsSticky(d, endpoints, made, bs)
  <2> DEFINE x == SessionOf[d]
  <2>1. x \in Sessions
    BY <1>4
  <2>2. PICK s \in endpoints :
          /\ sessions' = [sessions EXCEPT ![x] = s]
          /\ IF CanExecute(bs[s]) THEN DispatchSends(d, endpoints, made, bs, s)
             ELSE breakers' = bs /\ DispatchReturns(d)
    BY <1>4 DEF LoopsSticky
  <2>3. sessions' \in [Sessions -> Services \cup {NoRow}]
    BY <1>1, <2>1, <2>2
  <2>4. CASE CanExecute(bs[s])
    BY <2>2, <2>3, <2>4, SomeSent
  <2>5. CASE ~CanExecute(bs[s])
    BY <1>2, <2>2, <2>3, <2>5
  <2> QED
    BY <2>4, <2>5
<1> QED
  BY <1>3, <1>4, Zenon DEF Loops

(* Breakers as a dispatch looks at them: what it may use was closed, half  *)
(* open or due before.                                                     *)
LetsThrough(bs) ==
  \A s \in Services : CanExecute(bs[s]) /\ breakers[s].state = "open" => breakers[s].due
SendsPastNoOpen ==
  \A d \in Dispatches :
    dispatches'[d] # NoRow /\ dispatches'[d] # dispatches[d] /\ dispatches'[d].at = "fetch" =>
      LET b == breakers[dispatches'[d].service] IN b.state = "open" => b.due

LEMMA OneSends ==
  ASSUME NEW d \in Dispatches, NEW bs, LetsThrough(bs), Sends(d, bs),
         dispatches' \in [Dispatches -> DispatchRecords \cup {NoRow}],
         \A e \in Dispatches : e # d => dispatches'[e] = dispatches[e]
  PROVE  SendsPastNoOpen
<1> SUFFICES ASSUME NEW e \in Dispatches, dispatches'[e] # NoRow, dispatches'[e] # dispatches[e],
                    dispatches'[e].at = "fetch", breakers[dispatches'[e].service].state = "open"
             PROVE  breakers[dispatches'[e].service].due
  BY DEF SendsPastNoOpen
<1>1. e = d
  OBVIOUS
<1> DEFINE s == dispatches'[d].service
<1>2. s \in Services
  BY <1>1 DEF DispatchRecords
<1>3. CanExecute(bs[s])
  BY <1>1 DEF Sends
<1> QED
  BY <1>1, <1>2, <1>3 DEF LetsThrough

LEMMA DispatcherStep ==
  ASSUME DispatcherInv, DispatcherNext
  PROVE  DispatcherInv' /\ SendsPastNoOpen
<1>1. /\ registered \subseteq Services /\ unhealthy \subseteq registered
      /\ breakers \in [Services -> Breakers] /\ Sound(breakers)
      /\ sessions \in [Sessions -> Services \cup {NoRow}]
      /\ dispatches \in [Dispatches -> DispatchRecords \cup {NoRow}]
  BY DEF DispatcherInv, DispatcherTypeOK, Breakers
<1>2. ASSUME registered' \subseteq Services, unhealthy' \subseteq registered', Sound(breakers'),
             sessions' \in [Sessions -> Services \cup {NoRow}],
             dispatches' \in [Dispatches -> DispatchRecords \cup {NoRow}], DelaysAreShort'
      PROVE  DispatcherInv'
  BY <1>2 DEF DispatcherInv, DispatcherTypeOK, Breakers, Sound
<1>4. ASSUME NEW d \in Dispatches, Dispatch(d)
      PROVE  DispatcherInv' /\ \E bs : /\ Sends(d, bs)
        /\ LetsThrough(bs)
        /\ \A e \in Dispatches : e # d => dispatches'[e] = dispatches[e]
  <2> DEFINE found == registered \ unhealthy
             endpoints == {s \in found : CanExecute(breakers[s])}
             asked == [s \in Services |-> IF s \in found THEN Tried(breakers[s]) ELSE breakers[s]]
  <2>1. endpoints \in SUBSET Services
    BY <1>1
  <2>2. Sound(asked)
    BY <1>1, BreakerMoves DEF Sound
  <2>3. LetsThrough(asked)
    BY DEF LetsThrough, CanExecute, Tried
  <2>4. /\ dispatches[d] = NoRow /\ UNCHANGED registryVars
        /\ \/ endpoints = {} /\ breakers' = asked /\ UNCHANGED <<dispatches, sessions>>
           \/ endpoints # {} /\ Loops(d, endpoints, 0, asked)
    BY <1>4, Zenon DEF Dispatch
  <2> HIDE DEF endpoints, asked
  <2>5. 0 \in 0 .. MaxAttempts - 1
    BY DispatcherAssumption
  <2>6. CASE Loops(d, endpoints, 0, asked)
    <3>1. /\ dispatches' \in [Dispatches -> DispatchRecords \cup {NoRow}]
          /\ sessions' \in [Sessions -> Services \cup {NoRow}]
          /\ Sound(breakers') /\ Sends(d, asked)
          /\ \A e \in Dispatches : e # d => dispatches'[e] = dispatches[e]
      BY <2>1, <2>2, <2>5, <2>6, LoopSends
    <3>2. DelaysAreShort'
      BY <3>1 DEF DelaysAreShort, DispatcherInv, Sends
    <3> QED
      BY <1>1, <1>2, <2>3, <2>4, <3>1, <3>2 DEF registryVars
  <2>7. CASE breakers' = asked /\ UNCHANGED <<dispatches, sessions>>
    <3>1. Sends(d, asked)
      BY <2>4, <2>7 DEF Sends
    <3> QED
      BY <1>1, <1>2, <2>2, <2>3, <2>4, <2>7, <3>1 DEF registryVars, DispatcherInv, DelaysAreShort
  <2> QED
    BY <2>4, <2>6, <2>7
<1>5. ASSUME NEW d \in Dispatches, DelayEnds(d)
      PROVE  DispatcherInv' /\ \E bs : /\ Sends(d, bs)
        /\ LetsThrough(bs)
        /\ \A e \in Dispatches : e # d => dispatches'[e] = dispatches[e]
  <2>1. /\ dispatches[d] # NoRow /\ dispatches[d].at = "delay" /\ UNCHANGED registryVars
        /\ Loops(d, dispatches[d].endpoints, dispatches[d].attempt, breakers)
    BY <1>5 DEF DelayEnds
  <2>2. dispatches[d] \in DispatchRecords /\ dispatches[d].attempt < MaxAttempts
    BY <1>1, <2>1 DEF DispatcherInv, DelaysAreShort
  <2> DEFINE endpoints == dispatches[d].endpoints
             made == dispatches[d].attempt
  <2>3. endpoints \in SUBSET Services /\ made \in 0 .. MaxAttempts - 1
    BY <2>2, DispatcherAssumption DEF DispatchRecords
  <2>4. Loops(d, endpoints, made, breakers)
    BY <2>1
  <2> HIDE DEF endpoints, made
  <2>5. /\ dispatches' \in [Dispatches -> DispatchRecords \cup {NoRow}]
        /\ sessions' \in [Sessions -> Services \cup {NoRow}]
        /\ Sound(breakers') /\ Sends(d, breakers)
        /\ \A e \in Dispatches : e # d => dispatches'[e] = dispatches[e]
    BY <1>1, <2>3, <2>4, LoopSends
  <2>6. DelaysAreShort'
    BY <2>5 DEF DelaysAreShort, DispatcherInv, Sends
  <2>7. LetsThrough(breakers)
    BY DEF LetsThrough, CanExecute
  <2> QED
    BY <1>1, <1>2, <2>1, <2>5, <2>6, <2>7 DEF registryVars
<1>6. ASSUME NEW d \in Dispatches, FetchSucceeds(d) \/ FetchFails(d)
      PROVE  DispatcherInv' /\ \A e \in Dispatches :
               dispatches'[e] # NoRow /\ dispatches'[e] # dispatches[e] => dispatches'[e].at # "fetch"
  <2> DEFINE s == dispatches[d].service
  <2>1. dispatches[d] \in DispatchRecords
    BY <1>1, <1>6 DEF FetchSucceeds, FetchFails
  <2>2. s \in Services /\ breakers[s] \in Breakers /\ Caused(breakers[s])
    BY <1>1, <2>1 DEF DispatchRecords, Sound
  <2>3. /\ \/ breakers' = [breakers EXCEPT ![s] = Succeeded(breakers[s])]
           \/ breakers' = [breakers EXCEPT ![s] = FailedBreaker(breakers[s])]
        /\ UNCHANGED <<registered, unhealthy, sessions>>
    BY <1>6 DEF FetchSucceeds, FetchFails, registryVars
  <2>4. \/ dispatches' = [dispatches EXCEPT ![d] = NoRow]
        \/ /\ dispatches[d].attempt < MaxAttempts
           /\ dispatches' = [dispatches EXCEPT ![d].at = "delay"]
    BY <1>6, <2>1, DispatcherAssumption DEF FetchSucceeds, FetchFails, DispatchReturns, DispatchRecords
  <2> HIDE DEF s
  <2>5. Sound(breakers')
    <3>1. PICK b \in Breakers : Caused(b) /\ breakers' = [breakers EXCEPT ![s] = b]
      BY <2>2, <2>3, BreakerMoves, Zenon
    <3> QED
      BY <1>1, <2>2, <3>1 DEF Sound
  <2>6. CASE dispatches' = [dispatches EXCEPT ![d] = NoRow]
    <3>1. DelaysAreShort'
      BY <1>1, <2>6 DEF DelaysAreShort, DispatcherInv
    <3> QED
      BY <1>1, <1>2, <2>3, <2>5, <2>6, <3>1
  <2>7. CASE dispatches[d].attempt < MaxAttempts /\ dispatches' = [dispatches EXCEPT ![d].at = "delay"]
    <3> DEFINE then == [dispatches[d] EXCEPT !.at = "delay"]
    <3>1. then \in DispatchRecords /\ then.at = "delay" /\ then.attempt = dispatches[d].attempt
      BY <2>1 DEF DispatchRecords
    <3>2. dispatches' = [dispatches EXCEPT ![d] = then]
      BY <2>7
    <3> HIDE DEF then
    <3>3. DelaysAreShort'
      BY <1>1, <2>7, <3>1, <3>2 DEF DelaysAreShort, DispatcherInv
    <3> QED
      BY <1>1, <1>2, <2>3, <2>5, <3>1, <3>2, <3>3
  <2> QED
    BY <2>4, <2>6, <2>7
<1>7. ASSUME NEW s \in Services, RecoveryElapses(s) \/ RegistryChanges(s)
      PROVE  DispatcherInv' /\ UNCHANGED dispatches
  <2>1. UNCHANGED <<sessions, dispatches>>
    BY <1>7 DEF RecoveryElapses, RegistryChanges
  <2>2. registered' \subseteq Services /\ unhealthy' \subseteq registered'
    BY <1>1, <1>7 DEF RecoveryElapses, RegistryChanges, registryVars
  <2>3. Sound(breakers')
    BY <1>1, <1>7, BreakerMoves DEF RecoveryElapses, RegistryChanges, Sound
  <2> QED
    BY <1>1, <1>2, <2>1, <2>2, <2>3 DEF DispatcherInv, DelaysAreShort
<1>8. ASSUME NEW x \in Sessions, SessionExpires(x)
      PROVE  DispatcherInv' /\ UNCHANGED dispatches
  BY <1>1, <1>2, <1>8 DEF SessionExpires, registryVars, DispatcherInv, DelaysAreShort
<1>9. CASE \E d \in Dispatches : Dispatch(d) \/ DelayEnds(d)
  <2>1. PICK d \in Dispatches : Dispatch(d) \/ DelayEnds(d)
    BY <1>9
  <2>2. DispatcherInv' /\ dispatches' \in [Dispatches -> DispatchRecords \cup {NoRow}]
    BY <1>4, <1>5, <2>1 DEF DispatcherInv, DispatcherTypeOK
  <2>3. PICK bs : /\ Sends(d, bs)
        /\ LetsThrough(bs)
        /\ \A e \in Dispatches : e # d => dispatches'[e] = dispatches[e]
    BY <1>4, <1>5, <2>1
  <2>4. SendsPastNoOpen
    BY <2>2, <2>3, OneSends
  <2> QED
    BY <2>2, <2>4
<1>10. CASE \E d \in Dispatches : FetchSucceeds(d) \/ FetchFails(d)
  BY <1>6, <1>10 DEF SendsPastNoOpen
<1>11. CASE \E s \in Services : RecoveryElapses(s) \/ RegistryChanges(s)
  BY <1>7, <1>11 DEF SendsPastNoOpen
<1>12. CASE \E x \in Sessions : SessionExpires(x)
  BY <1>8, <1>12 DEF SendsPastNoOpen
<1> QED
  BY <1>9, <1>10, <1>11, <1>12, Zenon DEF DispatcherNext

(* No attempt is sent past an open breaker, a retry after a delay and what *)
(* a session sticks to included; a breaker is open or on trial only as     *)
(* enough requests have failed, whatever answers come late.                *)
THEOREM NothingGoesPastABreaker == DispatcherSpec => BreakersHold
<1>1. DispatcherInit => DispatcherInv
  <2> SUFFICES ASSUME DispatcherInit PROVE DispatcherInv
    OBVIOUS
  <2>1. [state |-> "closed", failures |-> 0, total |-> 0, due |-> FALSE] \in Breakers
    BY DispatcherAssumption DEF Breakers, BreakerStates
  <2>2. Sound(breakers)
    BY <2>1 DEF DispatcherInit, Sound, Caused
  <2>3. DelaysAreShort
    BY DEF DispatcherInit, DelaysAreShort
  <2> QED
    BY <2>2, <2>3 DEF DispatcherInit, DispatcherInv, DispatcherTypeOK, Sound, Breakers
<1>2. DispatcherInv /\ [DispatcherNext]_dispatcherVars => DispatcherInv'
  <2>1. DispatcherInv /\ UNCHANGED dispatcherVars => DispatcherInv'
    BY DEF dispatcherVars, registryVars, DispatcherInv, DispatcherTypeOK, Sound, DelaysAreShort
  <2> QED
    BY <2>1, DispatcherStep
<1>3. DispatcherInv => DispatcherTypeOK /\ OpenForCause
  BY DEF DispatcherInv, Sound, Caused, OpenForCause
<1>4. DispatcherInv /\ [DispatcherNext]_dispatcherVars => [SendsPastNoOpen]_dispatcherVars
  BY DispatcherStep
<1>5. DispatcherSpec => [][DispatcherNext]_dispatcherVars
  BY PTL DEF DispatcherSpec
<1> QED
  BY <1>1, <1>2, <1>3, <1>4, PTL DEF DispatcherSpec, BreakersHold, NothingPastAnOpenBreaker, SendsPastNoOpen

HIDE DispatcherAssumption

-------------------------------------------------------------------------
(* The process.                                                          *)

(* The orders main(), shutdown() and the catch block go through.           *)
LEMMA StartPlaces ==
  /\ Len(StartOrder) = 17
  /\ \A n \in 1 .. 17 : StartOrder[n] \in Parts
  /\ \A m, n \in 1 .. 17 : StartOrder[m] = StartOrder[n] => m = n
  /\ StartOrder[9] = "memorystore" /\ StartOrder[14] = "routes" /\ StartOrder[15] = "http"
  /\ StartOrder[17] = "listener"
<1>1. Len(StartOrder) = 17
  BY DEF StartOrder
<1>2. \A n \in 1 .. 17 : StartOrder[n] \in Parts
  BY DEF StartOrder, Parts, Enableable
<1>3. \A m, n \in 1 .. 17 : StartOrder[m] = StartOrder[n] => m = n
  BY DEF StartOrder
<1>4. /\ StartOrder[9] = "memorystore" /\ StartOrder[14] = "routes" /\ StartOrder[15] = "http"
      /\ StartOrder[17] = "listener"
  BY DEF StartOrder
<1> QED
  BY <1>1, <1>2, <1>3, <1>4

LEMMA StopPlaces ==
  /\ Len(StopOrder) = 14
  /\ \A n \in 1 .. 14 : StopOrder[n] \in Parts \ {"config", "routes", "listener"}
  /\ \A m, n \in 1 .. 14 : StopOrder[m] = StopOrder[n] => m = n
  /\ StopOrder[8] = "memorystore" /\ StopOrder[14] = "store"
  /\ \A n \in 1 .. 14 : StopOrder[n] \in MayReject => n > 8 /\ n < 14
<1>1. Len(StopOrder) = 14
  BY DEF StopOrder
<1>2. \A n \in 1 .. 14 : StopOrder[n] \in Parts \ {"config", "routes", "listener"}
  BY DEF StopOrder, Parts, Enableable
<1>3. \A m, n \in 1 .. 14 : StopOrder[m] = StopOrder[n] => m = n
  BY DEF StopOrder
<1>4. StopOrder[8] = "memorystore" /\ StopOrder[14] = "store"
  BY DEF StopOrder
<1>5. \A n \in 1 .. 14 : StopOrder[n] \in MayReject => n > 8 /\ n < 14
  BY DEF StopOrder, MayReject
<1> QED
  BY <1>1, <1>2, <1>3, <1>4, <1>5

LEMMA FailurePlaces ==
  /\ Len(FailureOrder) = 5
  /\ \A n \in 1 .. 5 : FailureOrder[n] \in Parts \ {"config", "routes", "listener", "http", "store"}
  /\ \A n \in 1 .. 5 : FailureOrder[n] = "memorystore" <=> n = 1
  /\ "memorystore" \notin MayReject
BY DEF FailureOrder, Parts, Enableable, MayReject

(* main() comes past nothing that is enabled, and the routes always are.   *)
LEMMA NextIsEnabled ==
  ASSUME NEW n \in 1 .. 18
  PROVE  /\ NextEnabled(n) \in n .. 18
         /\ NextEnabled(n) <= 17 => IsEnabled(StartOrder[NextEnabled(n)])
         /\ n <= 14 => NextEnabled(n) <= 14
<1> DEFINE Ready(m) == m <= Len(StartOrder) => IsEnabled(StartOrder[m])
           S == {m \in n .. 18 : Ready(m)}
<1>1. Len(StartOrder) = 17
  BY StartPlaces
<1>2. 18 \in S /\ S \in SUBSET Nat
  BY <1>1
<1> HIDE DEF Ready
<1>3. PICK least \in S : \A m \in S : least <= m
  BY <1>2, LeastNatural
<1>4. \E m \in n .. Len(StartOrder) + 1 : Ready(m) /\ \A k \in n .. m - 1 : ~IsEnabled(StartOrder[k])
  <2>1. least \in n .. Len(StartOrder) + 1 /\ Ready(least)
    BY <1>1
  <2>2. ASSUME NEW k \in n .. least - 1, IsEnabled(StartOrder[k]) PROVE FALSE
    <3>1. k \in S
      BY <2>1, <2>2, <1>1 DEF Ready
    <3> QED
      BY <1>3, <2>1, <3>1
  <2> QED
    BY <2>1, <2>2
<1>5. LET e == NextEnabled(n) IN
        e \in n .. Len(StartOrder) + 1 /\ Ready(e) /\ \A k \in n .. e - 1 : ~IsEnabled(StartOrder[k])
  BY <1>4 DEF NextEnabled, Ready
<1>6. IsEnabled("routes")
  BY DEF IsEnabled, Enableable
<1> DEFINE e == NextEnabled(n)
<1>7. e \in n .. 18 /\ Ready(e) /\ \A k \in n .. e - 1 : ~IsEnabled(StartOrder[k])
  BY <1>1, <1>5
<1> HIDE DEF e
<1>8. ASSUME n <= 14 PROVE e <= 14
  <2>1. StartOrder[14] = "routes"
    BY StartPlaces
  <2>2. e > 14 => 14 \in n .. e - 1
    BY <1>7, <1>8
  <2> QED
    BY <1>6, <1>7, <2>1, <2>2
<1> QED
  BY <1>1, <1>7, <1>8 DEF e, Ready

-----------------------------------------------------------------------------
(* Where main() is in its order: what lies before it has not begun.        *)
StartsInOrder ==
  main.at = "starts" =>
    /\ \A n \in 1 .. 17 : n > main.step \/ (n = main.step /\ ~main.busy) => parts[StartOrder[n]] = "none"
    /\ main.busy => /\ main.step <= 17 /\ parts[StartOrder[main.step]] = "starting"
                    /\ main.step # 14 /\ main.step # 15
    /\ main.step <= 17 => IsEnabled(StartOrder[main.step])

(* A valkey-server is known to its service from its spawning on, and a     *)
(* teardown that has come past Memorystore has killed what was there.      *)
Past(place) == teardown # NoRow /\ teardown.step > place
At(place) == teardown # NoRow /\ teardown.step = place /\ teardown.busy
ChildIsKnown ==
  /\ parts["memorystore"] = "none" => child = "none"
  /\ child = "spawning" => main.at = "starts" /\ main.busy /\ main.step = 9
  /\ main.at = "fails" /\ (main.step > 1 \/ main.busy) => child # "up"
  /\ main.at = "fails" /\ main.step > 1 => child # "dying"
  /\ (Past(8) \/ At(8)) /\ "memorystore" \notin missed => child \notin {"spawning", "up"}
  /\ Past(8) /\ "memorystore" \notin missed => child # "dying"

(* What shutdown() has come past is down, or was not up as it came.        *)
PastIsDown ==
  /\ \A n \in 1 .. 14 :
       /\ Past(n) => parts[StopOrder[n]] = "down" \/ StopOrder[n] \in missed
       /\ At(n) => parts[StopOrder[n]] \in {"stopping", "down"} \/ StopOrder[n] \in missed
  /\ teardown # NoRow => teardown.code = trigger /\ (teardown.busy => teardown.step <= 14)
  /\ teardown = NoRow => trigger = NoRow
  /\ parts["store"] \in {"stopping", "down"} => Past(14) \/ At(14)

(* Who called process.exit(), and when.                                    *)
ExitIsCaused ==
  exited # NoRow =>
    \/ exited.by = "failure" /\ exited.code = 1 /\ main.at = "fails" /\ main.step > 1
    \/ exited.by = "shutdown" /\ exited.code = trigger /\ Past(8) /\ (rejected \/ Past(14))

OwnerIsKnown == owner = NoRow <=> enabled \cap OperationsServices = {}
RoutesAreOwned ==
  /\ main.failed # "routes"
  /\ main.at = "starts" /\ main.step > 14 => OwnerIsKnown
  /\ parts["http"] # "none" => OwnerIsKnown

HealthIsKept ==
  /\ "compute" \notin enabled => health = NoRow
  /\ "compute" \in enabled /\ parts["http"] # "none" => health # NoRow
  /\ health = "up" => /\ parts["listener"] = "up" \/ teardown # NoRow
                      /\ main.at = "ended" \/ (main.at = "starts" /\ main.step = 18)

ProcessInv ==
  /\ ProcessTypeOK /\ StartsInOrder /\ ChildIsKnown /\ PastIsDown /\ ExitIsCaused /\ RoutesAreOwned
  /\ HealthIsKept

LEMMA ProcessParts ==
  ASSUME ProcessInv
  PROVE  /\ enabled \in Configurations
         /\ parts \in [Parts -> {"none", "starting", "up", "stopping", "down"}]
         /\ main = [at |-> main.at, step |-> main.step, busy |-> main.busy, failed |-> main.failed]
         /\ main.at \in {"starts", "ended", "fails", "abandoned"} /\ main.step \in 1 .. 18
         /\ main.busy \in BOOLEAN /\ main.failed \in {NoRow} \cup Parts
         /\ teardown \in Teardowns \cup {NoRow}
         /\ child \in {"none", "spawning", "up", "dying", "dead"}
         /\ owner \in Owners \cup {NoRow} /\ health \in HealthStates \cup {NoRow}
         /\ exited \in Exits \cup {NoRow} /\ trigger \in {0, 1, NoRow}
BY StartPlaces DEF ProcessInv, ProcessTypeOK

LEMMA MainFits ==
  ASSUME NEW a \in {"starts", "ended", "fails", "abandoned"}, NEW n \in 1 .. 18, NEW b \in BOOLEAN,
         NEW f \in {NoRow} \cup Parts, main' = [at |-> a, step |-> n, busy |-> b, failed |-> f]
  PROVE  /\ main'.at = a /\ main'.step = n /\ main'.busy = b /\ main'.failed = f
         /\ main' \in [at : {"starts", "ended", "fails", "abandoned"}, step : 1..Len(StartOrder) + 1,
                       busy : BOOLEAN, failed : {NoRow} \cup Parts]
<1>1. Len(StartOrder) = 17
  BY StartPlaces
<1> QED
  BY <1>1

LEMMA TeardownFits ==
  ASSUME NEW n \in 1 .. 15, NEW b \in BOOLEAN, NEW c \in {0, 1},
         teardown' = [step |-> n, busy |-> b, code |-> c]
  PROVE  /\ teardown'.step = n /\ teardown'.busy = b /\ teardown'.code = c
         /\ teardown' \in Teardowns /\ teardown' # NoRow
<1>1. Len(StopOrder) = 14
  BY StopPlaces
<1>2. teardown' \in Teardowns
  BY <1>1 DEF Teardowns
<1> QED
  BY <1>2, ProcessAssumption

LEMMA TeardownParts ==
  ASSUME ProcessInv, teardown # NoRow
  PROVE  /\ teardown = [step |-> teardown.step, busy |-> teardown.busy, code |-> teardown.code]
         /\ teardown.step \in 1 .. 15 /\ teardown.busy \in BOOLEAN /\ teardown.code \in {0, 1}
<1>1. teardown \in Teardowns /\ Len(StopOrder) = 14
  BY ProcessParts, StopPlaces
<1> QED
  BY <1>1 DEF Teardowns

LEMMA StartsPartKeeps ==
  ASSUME ProcessInv, NEW p \in Parts, StartsPart(p)
  PROVE  ProcessInv'
<1>1. /\ main.at = "starts" /\ main.step \in 1 .. 17 /\ StartOrder[main.step] = p /\ main.busy = FALSE
      /\ p \notin {"routes", "http"} /\ exited = NoRow
  BY StartPlaces, ProcessParts DEF StartsPart, Starting, Running
<1>2. /\ main' = [main EXCEPT !.busy = TRUE] /\ parts' = [parts EXCEPT ![p] = "starting"]
      /\ child' = IF p = "memorystore" THEN "spawning" ELSE child
      /\ UNCHANGED <<enabled, teardown, owner, health, exited, trigger, missed, rejected>>
  BY DEF StartsPart, Becomes, historyVars
<1>3. parts[p] = "none"
  BY <1>1 DEF ProcessInv, StartsInOrder
<1>8. main' = [at |-> "starts", step |-> main.step, busy |-> TRUE, failed |-> main.failed]
  BY <1>1, <1>2, ProcessParts
<1>9. /\ main'.at = "starts" /\ main'.step = main.step /\ main'.busy = TRUE /\ main'.failed = main.failed
      /\ main' \in [at : {"starts", "ended", "fails", "abandoned"}, step : 1..Len(StartOrder) + 1,
                     busy : BOOLEAN, failed : {NoRow} \cup Parts]
  <2>1. "starts" \in {"starts", "ended", "fails", "abandoned"} /\ main.step \in 1 .. 18
    BY <1>1, <1>2
  <2>2. TRUE \in BOOLEAN /\ main.failed \in {NoRow} \cup Parts
    BY ProcessParts, Zenon
  <2> QED
    BY <1>8, <2>1, <2>2, MainFits
<1>10. /\ \A q \in Parts : parts'[q] = IF q = p THEN "starting" ELSE parts[q]
       /\ parts' \in [Parts -> {"none", "starting", "up", "stopping", "down"}]
  BY <1>1, <1>2, ProcessParts
<1>11. ProcessTypeOK'
  BY <1>1, <1>2, <1>9, ProcessParts DEF ProcessTypeOK, HealthStates
<1>12. StartsInOrder'
  <2>1. ASSUME NEW n \in 1 .. 17, main'.at = "starts", n > main'.step \/ (n = main'.step /\ ~main'.busy)
        PROVE  parts'[StartOrder[n]] = "none"
    <3>1. StartOrder[n] \in Parts /\ (n # main.step => StartOrder[n] # StartOrder[main.step])
      BY <1>1, StartPlaces
    <3>2. n # main.step /\ n > main.step
      BY <1>1, <1>2, <2>1
    <3>3. parts[StartOrder[n]] = "none"
      BY <1>1, <3>2 DEF ProcessInv, StartsInOrder
    <3> QED
      BY <1>1, <1>10, <3>1, <3>2, <3>3
  <2>2. main'.at = "starts" /\ main'.busy => /\ main'.step <= 17 /\ parts'[StartOrder[main'.step]] = "starting"
                                           /\ main'.step # 14 /\ main'.step # 15
    BY <1>1, <1>2, ProcessParts, StartPlaces
  <2>3. (main.at = "starts" /\ main.step <= 17 => IsEnabled(StartOrder[main.step]))'
    BY <1>1, <1>2 DEF ProcessInv, StartsInOrder, IsEnabled
  <2> QED
    BY <2>1, <2>2, <2>3 DEF StartsInOrder
<1>13. ChildIsKnown'
  <2>1. (parts["memorystore"] = "none" => child = "none")'
    BY <1>1, <1>2, ProcessParts DEF ProcessInv, ChildIsKnown, Past, At
  <2>2. (child = "spawning" => main.at = "starts" /\ main.busy /\ main.step = 9)'
    BY <1>1, <1>2, StartPlaces DEF ProcessInv, ChildIsKnown, Past, At
  <2>3. (main.at = "fails" /\ (main.step > 1 \/ main.busy) => child # "up")'
    BY <1>1, <1>2 DEF ProcessInv, ChildIsKnown, Past, At
  <2>4. (main.at = "fails" /\ main.step > 1 => child # "dying")'
    BY <1>1, <1>2 DEF ProcessInv, ChildIsKnown, Past, At
  <2>5. ((Past(8) \/ At(8)) /\ "memorystore" \notin missed => child \notin {"spawning", "up"})'
    BY <1>1, <1>2, <1>3, StopPlaces DEF ProcessInv, ChildIsKnown, Past, At, PastIsDown
  <2>6. (Past(8) /\ "memorystore" \notin missed => child # "dying")'
    BY <1>1, <1>2 DEF ProcessInv, ChildIsKnown, Past, At, PastIsDown
  <2> QED
    BY <2>1, <2>2, <2>3, <2>4, <2>5, <2>6 DEF ChildIsKnown, Past, At
<1>14. PastIsDown'
  BY <1>1, <1>2, <1>3 DEF ProcessInv, PastIsDown, Past, At
<1>15. ExitIsCaused'
  BY <1>1, <1>2 DEF ProcessInv, ExitIsCaused, Past
<1>16. RoutesAreOwned'
  BY <1>1, <1>2 DEF ProcessInv, RoutesAreOwned, OwnerIsKnown, Parts
<1>17. HealthIsKept'
  BY <1>1, <1>2 DEF ProcessInv, HealthIsKept, HealthStates, Parts
<1> QED
  BY <1>11, <1>12, <1>13, <1>14, <1>15, <1>16, <1>17 DEF ProcessInv

LEMMA StartedPartKeeps ==
  ASSUME ProcessInv, NEW p \in Parts, StartedPart(p)
  PROVE  ProcessInv'
<1>1. /\ main.at = "starts" /\ main.step \in 1 .. 17 /\ StartOrder[main.step] = p /\ main.busy = TRUE
      /\ exited = NoRow
  BY StartPlaces, ProcessParts DEF StartedPart, Starting, Running
<1> DEFINE next == NextEnabled(main.step + 1)
<1>2. /\ main' = [main EXCEPT !.step = next, !.busy = FALSE]
      /\ parts' = [parts EXCEPT ![p] = "up"]
      /\ child' \in IF p = "memorystore" THEN {"up", "dead"} ELSE {child}
      /\ health' = IF p = "listener" THEN "up" ELSE health
      /\ UNCHANGED <<enabled, teardown, owner, exited, trigger, missed, rejected>>
  BY DEF StartedPart, StartsNext, Becomes, historyVars
<1>3. parts[p] = "starting" /\ p \notin {"routes", "http"} /\ IsEnabled(p)
  BY <1>1, StartPlaces DEF ProcessInv, StartsInOrder
<1>4. /\ next \in main.step + 1 .. 18 /\ (next <= 17 => IsEnabled(StartOrder[next]))
      /\ (main.step < 14 => next <= 14)
  BY <1>1, NextIsEnabled
<1>5. p = "listener" => "compute" \in enabled /\ main.step = 17
  BY <1>1, <1>3, StartPlaces DEF IsEnabled, Enableable
<1> HIDE DEF next
<1>8. main' = [at |-> "starts", step |-> next, busy |-> FALSE, failed |-> main.failed]
  BY <1>1, <1>2, ProcessParts
<1>9. /\ main'.at = "starts" /\ main'.step = next /\ main'.busy = FALSE /\ main'.failed = main.failed
      /\ main' \in [at : {"starts", "ended", "fails", "abandoned"}, step : 1..Len(StartOrder) + 1,
                     busy : BOOLEAN, failed : {NoRow} \cup Parts]
  <2>1. "starts" \in {"starts", "ended", "fails", "abandoned"} /\ next \in 1 .. 18
    BY <1>1, <1>2, <1>4
  <2>2. FALSE \in BOOLEAN /\ main.failed \in {NoRow} \cup Parts
    BY ProcessParts, Zenon
  <2> QED
    BY <1>8, <2>1, <2>2, MainFits
<1>10. /\ \A q \in Parts : parts'[q] = IF q = p THEN "up" ELSE parts[q]
       /\ parts' \in [Parts -> {"none", "starting", "up", "stopping", "down"}]
  BY <1>1, <1>2, ProcessParts
<1>11. ProcessTypeOK'
  BY <1>1, <1>2, <1>9, ProcessParts DEF ProcessTypeOK, HealthStates
<1>12. StartsInOrder'
  <2>1. ASSUME NEW n \in 1 .. 17, main'.at = "starts", n > main'.step \/ (n = main'.step /\ ~main'.busy)
        PROVE  parts'[StartOrder[n]] = "none"
    <3>1. StartOrder[n] \in Parts /\ (n # main.step => StartOrder[n] # StartOrder[main.step])
      BY <1>1, StartPlaces
    <3>2. n # main.step /\ n > main.step
      BY <1>1, <1>2, <2>1, <1>4, StartPlaces
    <3>3. parts[StartOrder[n]] = "none"
      BY <1>1, <3>2 DEF ProcessInv, StartsInOrder
    <3> QED
      BY <1>1, <1>10, <3>1, <3>2, <3>3
  <2>2. main'.at = "starts" /\ main'.busy => /\ main'.step <= 17 /\ parts'[StartOrder[main'.step]] = "starting"
                                           /\ main'.step # 14 /\ main'.step # 15
    BY <1>1, <1>2
  <2>3. (main.at = "starts" /\ main.step <= 17 => IsEnabled(StartOrder[main.step]))'
    BY <1>1, <1>2, <1>4 DEF ProcessInv, StartsInOrder, IsEnabled
  <2> QED
    BY <2>1, <2>2, <2>3 DEF StartsInOrder
<1>13. ChildIsKnown'
  <2>1. (parts["memorystore"] = "none" => child = "none")'
    BY <1>1, <1>2, ProcessParts DEF ProcessInv, ChildIsKnown, Past, At
  <2>2. (child = "spawning" => main.at = "starts" /\ main.busy /\ main.step = 9)'
    BY <1>1, <1>2, StartPlaces DEF ProcessInv, ChildIsKnown, Past, At
  <2>3. (main.at = "fails" /\ (main.step > 1 \/ main.busy) => child # "up")'
    BY <1>1, <1>2 DEF ProcessInv, ChildIsKnown, Past, At
  <2>4. (main.at = "fails" /\ main.step > 1 => child # "dying")'
    BY <1>1, <1>2 DEF ProcessInv, ChildIsKnown, Past, At
  <2>5. ((Past(8) \/ At(8)) /\ "memorystore" \notin missed => child \notin {"spawning", "up"})'
    BY <1>1, <1>2, <1>3, StopPlaces DEF ProcessInv, ChildIsKnown, Past, At, PastIsDown
  <2>6. (Past(8) /\ "memorystore" \notin missed => child # "dying")'
    BY <1>1, <1>2 DEF ProcessInv, ChildIsKnown, Past, At, PastIsDown
  <2> QED
    BY <2>1, <2>2, <2>3, <2>4, <2>5, <2>6 DEF ChildIsKnown, Past, At
<1>14. PastIsDown'
  BY <1>1, <1>2, <1>3, StartPlaces DEF ProcessInv, PastIsDown, Past, At
<1>15. ExitIsCaused'
  BY <1>1, <1>2 DEF ProcessInv, ExitIsCaused, Past
<1>16. RoutesAreOwned'
  BY <1>1, <1>2, <1>3, <1>4, StartPlaces DEF ProcessInv, RoutesAreOwned, OwnerIsKnown, Parts
<1>17. HealthIsKept'
  BY <1>1, <1>2, ProcessParts, <1>3, <1>4, <1>5, ProcessAssumption DEF ProcessInv, HealthIsKept, HealthStates, Parts
<1> QED
  BY <1>11, <1>12, <1>13, <1>14, <1>15, <1>16, <1>17 DEF ProcessInv

LEMMA ServesKeeps ==
  ASSUME ProcessInv, Starting("http"), StartsNext, Becomes("http", "up"),
         health' = IF "compute" \in enabled THEN "waiting" ELSE health,
         UNCHANGED <<enabled, teardown, child, owner, exited, historyVars>>
  PROVE  ProcessInv'
<1>1. /\ main.at = "starts" /\ main.step = 15 /\ exited = NoRow /\ StartOrder[main.step] = "http"
  BY StartPlaces, ProcessParts DEF Starting, Running
<1> DEFINE next == NextEnabled(16)
<1>2. /\ main' = [main EXCEPT !.step = next, !.busy = FALSE] /\ parts' = [parts EXCEPT !["http"] = "up"]
      /\ health' = IF "compute" \in enabled THEN "waiting" ELSE health
      /\ UNCHANGED <<enabled, teardown, child, owner, exited, trigger, missed, rejected>>
  BY <1>1 DEF StartsNext, Becomes, historyVars
<1>3. parts["http"] = "none" /\ "http" \in Parts /\ main.busy = FALSE
  BY <1>1, StartPlaces, ProcessParts DEF ProcessInv, StartsInOrder
<1>4. next \in 16 .. 18 /\ (next <= 17 => IsEnabled(StartOrder[next]))
  BY NextIsEnabled
<1> HIDE DEF next
<1>8. main' = [at |-> "starts", step |-> next, busy |-> FALSE, failed |-> main.failed]
  BY <1>1, <1>2, ProcessParts
<1>9. /\ main'.at = "starts" /\ main'.step = next /\ main'.busy = FALSE /\ main'.failed = main.failed
      /\ main' \in [at : {"starts", "ended", "fails", "abandoned"}, step : 1..Len(StartOrder) + 1,
                     busy : BOOLEAN, failed : {NoRow} \cup Parts]
  <2>1. "starts" \in {"starts", "ended", "fails", "abandoned"} /\ next \in 1 .. 18
    BY <1>1, <1>2, <1>4
  <2>2. FALSE \in BOOLEAN /\ main.failed \in {NoRow} \cup Parts
    BY ProcessParts, Zenon
  <2> QED
    BY <1>8, <2>1, <2>2, MainFits
<1>10. /\ \A q \in Parts : parts'[q] = IF q = "http" THEN "up" ELSE parts[q]
       /\ parts' \in [Parts -> {"none", "starting", "up", "stopping", "down"}]
  BY <1>1, <1>2, ProcessParts
<1>11. ProcessTypeOK'
  BY <1>1, <1>2, <1>9, ProcessParts DEF ProcessTypeOK, HealthStates
<1>12. StartsInOrder'
  <2>1. ASSUME NEW n \in 1 .. 17, main'.at = "starts", n > main'.step \/ (n = main'.step /\ ~main'.busy)
        PROVE  parts'[StartOrder[n]] = "none"
    <3>1. StartOrder[n] \in Parts /\ (n # main.step => StartOrder[n] # StartOrder[main.step])
      BY <1>1, StartPlaces
    <3>2. n # main.step /\ n > main.step
      BY <1>1, <1>2, <2>1, <1>4
    <3>3. parts[StartOrder[n]] = "none"
      BY <1>1, <3>2 DEF ProcessInv, StartsInOrder
    <3> QED
      BY <1>1, <1>10, <3>1, <3>2, <3>3
  <2>2. main'.at = "starts" /\ main'.busy => /\ main'.step <= 17 /\ parts'[StartOrder[main'.step]] = "starting"
                                           /\ main'.step # 14 /\ main'.step # 15
    BY <1>1, <1>2
  <2>3. (main.at = "starts" /\ main.step <= 17 => IsEnabled(StartOrder[main.step]))'
    BY <1>1, <1>2, <1>4 DEF ProcessInv, StartsInOrder, IsEnabled
  <2> QED
    BY <2>1, <2>2, <2>3 DEF StartsInOrder
<1>13. ChildIsKnown'
  <2>1. (parts["memorystore"] = "none" => child = "none")'
    BY <1>1, <1>2 DEF ProcessInv, ChildIsKnown, Past, At
  <2>2. (child = "spawning" => main.at = "starts" /\ main.busy /\ main.step = 9)'
    BY <1>1, <1>2 DEF ProcessInv, ChildIsKnown, Past, At
  <2>3. (main.at = "fails" /\ (main.step > 1 \/ main.busy) => child # "up")'
    BY <1>1, <1>2 DEF ProcessInv, ChildIsKnown, Past, At
  <2>4. (main.at = "fails" /\ main.step > 1 => child # "dying")'
    BY <1>1, <1>2 DEF ProcessInv, ChildIsKnown, Past, At
  <2>5. ((Past(8) \/ At(8)) /\ "memorystore" \notin missed => child \notin {"spawning", "up"})'
    BY <1>1, <1>2 DEF ProcessInv, ChildIsKnown, Past, At, PastIsDown
  <2>6. (Past(8) /\ "memorystore" \notin missed => child # "dying")'
    BY <1>1, <1>2 DEF ProcessInv, ChildIsKnown, Past, At, PastIsDown
  <2> QED
    BY <2>1, <2>2, <2>3, <2>4, <2>5, <2>6 DEF ChildIsKnown, Past, At
<1>14. PastIsDown'
  BY <1>1, <1>2, <1>3, StartPlaces DEF ProcessInv, PastIsDown, Past, At
<1>15. ExitIsCaused'
  BY <1>1, <1>2 DEF ProcessInv, ExitIsCaused, Past
<1>16. RoutesAreOwned'
  BY <1>1, <1>2 DEF ProcessInv, RoutesAreOwned, OwnerIsKnown, Parts
<1>17. HealthIsKept'
  BY <1>1, <1>2, ProcessAssumption DEF ProcessInv, HealthIsKept, HealthStates, Parts
<1> QED
  BY <1>11, <1>12, <1>13, <1>14, <1>15, <1>16, <1>17 DEF ProcessInv

LEMMA ServingFails ==
  ASSUME ProcessInv, Starting("http"), Fails("http"), UNCHANGED parts,
         health' = IF "compute" \in enabled THEN "waiting" ELSE health,
         UNCHANGED <<enabled, teardown, child, owner, exited, historyVars>>
  PROVE  ProcessInv'
<1>1. /\ main.at = "starts" /\ main.step = 15 /\ exited = NoRow /\ StartOrder[main.step] = "http"
  BY StartPlaces, ProcessParts DEF Starting, Running
<1>2. /\ main' = [main EXCEPT !.at = "fails", !.step = 1, !.busy = FALSE, !.failed = "http"]
      /\ health' = IF "compute" \in enabled THEN "waiting" ELSE health
      /\ UNCHANGED <<enabled, parts, teardown, child, owner, exited, trigger, missed, rejected>>
  BY <1>1 DEF Fails, historyVars
<1>3. "http" \in Parts /\ main.busy = FALSE
  BY <1>1, StartPlaces, ProcessParts DEF ProcessInv, StartsInOrder
<1>8. main' = [at |-> "fails", step |-> 1, busy |-> FALSE, failed |-> "http"]
  BY <1>1, <1>2, ProcessParts
<1>9. /\ main'.at = "fails" /\ main'.step = 1 /\ main'.busy = FALSE /\ main'.failed = "http"
      /\ main' \in [at : {"starts", "ended", "fails", "abandoned"}, step : 1..Len(StartOrder) + 1,
                     busy : BOOLEAN, failed : {NoRow} \cup Parts]
  <2>1. "fails" \in {"starts", "ended", "fails", "abandoned"} /\ 1 \in 1 .. 18
    BY <1>1, <1>2
  <2>2. FALSE \in BOOLEAN /\ "http" \in {NoRow} \cup Parts
    BY ProcessParts, <1>3, Zenon
  <2> QED
    BY <1>8, <2>1, <2>2, MainFits
<1>11. ProcessTypeOK'
  BY <1>1, <1>2, <1>9, ProcessParts DEF ProcessTypeOK, HealthStates
<1>12. StartsInOrder'
  BY <1>9 DEF StartsInOrder
<1>13. ChildIsKnown'
  <2>1. (parts["memorystore"] = "none" => child = "none")'
    BY <1>1, <1>2 DEF ProcessInv, ChildIsKnown, Past, At
  <2>2. (child = "spawning" => main.at = "starts" /\ main.busy /\ main.step = 9)'
    BY <1>1, <1>2 DEF ProcessInv, ChildIsKnown, Past, At
  <2>3. (main.at = "fails" /\ (main.step > 1 \/ main.busy) => child # "up")'
    BY <1>1, <1>2 DEF ProcessInv, ChildIsKnown, Past, At
  <2>4. (main.at = "fails" /\ main.step > 1 => child # "dying")'
    BY <1>1, <1>2 DEF ProcessInv, ChildIsKnown, Past, At
  <2>5. ((Past(8) \/ At(8)) /\ "memorystore" \notin missed => child \notin {"spawning", "up"})'
    BY <1>1, <1>2 DEF ProcessInv, ChildIsKnown, Past, At, PastIsDown
  <2>6. (Past(8) /\ "memorystore" \notin missed => child # "dying")'
    BY <1>1, <1>2 DEF ProcessInv, ChildIsKnown, Past, At, PastIsDown
  <2> QED
    BY <2>1, <2>2, <2>3, <2>4, <2>5, <2>6 DEF ChildIsKnown, Past, At
<1>14. PastIsDown'
  BY <1>1, <1>2 DEF ProcessInv, PastIsDown, Past, At
<1>15. ExitIsCaused'
  BY <1>1, <1>2 DEF ProcessInv, ExitIsCaused, Past
<1>16. RoutesAreOwned'
  BY <1>1, <1>2 DEF ProcessInv, RoutesAreOwned, OwnerIsKnown, Parts
<1>17. HealthIsKept'
  BY <1>1, <1>2, ProcessAssumption DEF ProcessInv, HealthIsKept, HealthStates, Parts
<1> QED
  BY <1>11, <1>12, <1>13, <1>14, <1>15, <1>16, <1>17 DEF ProcessInv

LEMMA ListenerKeeps ==
  ASSUME ProcessInv, ListenerDoesNotBind
  PROVE  ProcessInv'
<1>1. /\ main.at = "starts" /\ main.step = 17 /\ main.busy = TRUE /\ exited = NoRow
  BY StartPlaces, ProcessParts DEF ListenerDoesNotBind, Starting, Running
<1> DEFINE next == NextEnabled(18)
<1>2. /\ main' = [main EXCEPT !.step = next, !.busy = FALSE] /\ parts' = [parts EXCEPT !["listener"] = "none"]
      /\ health' = "down"
      /\ UNCHANGED <<enabled, teardown, child, owner, exited, trigger, missed, rejected>>
  BY <1>1 DEF ListenerDoesNotBind, StartsNext, Becomes, historyVars
<1>3. "compute" \in enabled /\ "listener" \in Parts
  BY <1>1, StartPlaces DEF ProcessInv, StartsInOrder, IsEnabled, Enableable
<1>4. next \in 18 .. 18
  BY NextIsEnabled
<1> HIDE DEF next
<1>8. main' = [at |-> "starts", step |-> next, busy |-> FALSE, failed |-> main.failed]
  BY <1>1, <1>2, ProcessParts
<1>9. /\ main'.at = "starts" /\ main'.step = next /\ main'.busy = FALSE /\ main'.failed = main.failed
      /\ main' \in [at : {"starts", "ended", "fails", "abandoned"}, step : 1..Len(StartOrder) + 1,
                     busy : BOOLEAN, failed : {NoRow} \cup Parts]
  <2>1. "starts" \in {"starts", "ended", "fails", "abandoned"} /\ next \in 1 .. 18
    BY <1>1, <1>2, <1>4
  <2>2. FALSE \in BOOLEAN /\ main.failed \in {NoRow} \cup Parts
    BY ProcessParts, Zenon
  <2> QED
    BY <1>8, <2>1, <2>2, MainFits
<1>10. /\ \A q \in Parts : parts'[q] = IF q = "listener" THEN "none" ELSE parts[q]
       /\ parts' \in [Parts -> {"none", "starting", "up", "stopping", "down"}]
  BY <1>1, <1>2, ProcessParts
<1>11. ProcessTypeOK'
  BY <1>1, <1>2, <1>9, ProcessParts DEF ProcessTypeOK, HealthStates
<1>12. StartsInOrder'
  <2>1. ASSUME NEW n \in 1 .. 17, main'.at = "starts", n > main'.step \/ (n = main'.step /\ ~main'.busy)
        PROVE  parts'[StartOrder[n]] = "none"
    <3>1. StartOrder[n] \in Parts /\ (n # main.step => StartOrder[n] # StartOrder[main.step])
      BY <1>1, StartPlaces
    <3>2. n # main.step /\ n > main.step
      BY <1>1, <1>2, <2>1, <1>4
    <3>3. parts[StartOrder[n]] = "none"
      BY <1>1, <3>2 DEF ProcessInv, StartsInOrder
    <3> QED
      BY <1>1, <3>1, <3>2, <3>3
  <2>2. main'.at = "starts" /\ main'.busy => /\ main'.step <= 17 /\ parts'[StartOrder[main'.step]] = "starting"
                                           /\ main'.step # 14 /\ main'.step # 15
    BY <1>1, <1>2
  <2>3. (main.at = "starts" /\ main.step <= 17 => IsEnabled(StartOrder[main.step]))'
    BY <1>1, <1>2, <1>4 DEF ProcessInv, StartsInOrder, IsEnabled
  <2> QED
    BY <2>1, <2>2, <2>3 DEF StartsInOrder
<1>13. ChildIsKnown'
  <2>1. (parts["memorystore"] = "none" => child = "none")'
    BY <1>1, <1>2 DEF ProcessInv, ChildIsKnown, Past, At
  <2>2. (child = "spawning" => main.at = "starts" /\ main.busy /\ main.step = 9)'
    BY <1>1, <1>2 DEF ProcessInv, ChildIsKnown, Past, At
  <2>3. (main.at = "fails" /\ (main.step > 1 \/ main.busy) => child # "up")'
    BY <1>1, <1>2 DEF ProcessInv, ChildIsKnown, Past, At
  <2>4. (main.at = "fails" /\ main.step > 1 => child # "dying")'
    BY <1>1, <1>2 DEF ProcessInv, ChildIsKnown, Past, At
  <2>5. ((Past(8) \/ At(8)) /\ "memorystore" \notin missed => child \notin {"spawning", "up"})'
    BY <1>1, <1>2 DEF ProcessInv, ChildIsKnown, Past, At, PastIsDown
  <2>6. (Past(8) /\ "memorystore" \notin missed => child # "dying")'
    BY <1>1, <1>2 DEF ProcessInv, ChildIsKnown, Past, At, PastIsDown
  <2> QED
    BY <2>1, <2>2, <2>3, <2>4, <2>5, <2>6 DEF ChildIsKnown, Past, At
<1>14. PastIsDown'
  BY <1>1, <1>2, StopPlaces DEF ProcessInv, PastIsDown, Past, At
<1>15. ExitIsCaused'
  BY <1>1, <1>2 DEF ProcessInv, ExitIsCaused, Past
<1>16. RoutesAreOwned'
  BY <1>1, <1>2 DEF ProcessInv, RoutesAreOwned, OwnerIsKnown, Parts
<1>17. HealthIsKept'
  BY <1>1, <1>2, <1>3, ProcessAssumption DEF ProcessInv, HealthIsKept, HealthStates, Parts
<1> QED
  BY <1>11, <1>12, <1>13, <1>14, <1>15, <1>16, <1>17 DEF ProcessInv

LEMMA StartThrowsKeeps ==
  ASSUME ProcessInv, NEW p \in Parts, StartThrows(p)
  PROVE  ProcessInv'
<1>1. /\ main.at = "starts" /\ main.step \in 1 .. 17 /\ StartOrder[main.step] = p /\ main.busy = TRUE
      /\ exited = NoRow /\ p # "listener"
  BY StartPlaces, ProcessParts DEF StartThrows, Starting, Running
<1>2. /\ main' = [main EXCEPT !.at = "fails", !.step = 1, !.busy = FALSE, !.failed = p]
      /\ parts' = IF p = "config" THEN [parts EXCEPT ![p] = "none"] ELSE parts
      /\ child' \in IF p = "memorystore" THEN {"up", "dead"} ELSE {child}
      /\ UNCHANGED <<enabled, teardown, owner, health, exited, trigger, missed, rejected>>
  BY DEF StartThrows, Fails, historyVars
<1>3. parts[p] = "starting" /\ p \notin {"routes", "http"}
  BY <1>1, StartPlaces DEF ProcessInv, StartsInOrder
<1>8. main' = [at |-> "fails", step |-> 1, busy |-> FALSE, failed |-> p]
  BY <1>1, <1>2, ProcessParts
<1>9. /\ main'.at = "fails" /\ main'.step = 1 /\ main'.busy = FALSE /\ main'.failed = p
      /\ main' \in [at : {"starts", "ended", "fails", "abandoned"}, step : 1..Len(StartOrder) + 1,
                     busy : BOOLEAN, failed : {NoRow} \cup Parts]
  <2>1. "fails" \in {"starts", "ended", "fails", "abandoned"} /\ 1 \in 1 .. 18
    BY <1>1, <1>2
  <2>2. FALSE \in BOOLEAN /\ p \in {NoRow} \cup Parts
    BY ProcessParts, Zenon
  <2> QED
    BY <1>8, <2>1, <2>2, MainFits
<1>10. /\ \A q \in Parts : parts'[q] = IF q = p /\ p = "config" THEN "none" ELSE parts[q]
       /\ parts' \in [Parts -> {"none", "starting", "up", "stopping", "down"}]
  BY <1>1, <1>2, ProcessParts
<1>11. ProcessTypeOK'
  BY <1>1, <1>2, <1>9, ProcessParts DEF ProcessTypeOK, HealthStates
<1>12. StartsInOrder'
  BY <1>9 DEF StartsInOrder
<1>13. ChildIsKnown'
  <2>1. (parts["memorystore"] = "none" => child = "none")'
    BY <1>1, <1>2, <1>3 DEF ProcessInv, ChildIsKnown, Past, At
  <2>2. (child = "spawning" => main.at = "starts" /\ main.busy /\ main.step = 9)'
    BY <1>1, <1>2, StartPlaces DEF ProcessInv, ChildIsKnown, Past, At
  <2>3. (main.at = "fails" /\ (main.step > 1 \/ main.busy) => child # "up")'
    BY <1>1, <1>2 DEF ProcessInv, ChildIsKnown, Past, At
  <2>4. (main.at = "fails" /\ main.step > 1 => child # "dying")'
    BY <1>1, <1>2 DEF ProcessInv, ChildIsKnown, Past, At
  <2>5. ((Past(8) \/ At(8)) /\ "memorystore" \notin missed => child \notin {"spawning", "up"})'
    BY <1>1, <1>2, <1>3, StopPlaces DEF ProcessInv, ChildIsKnown, Past, At, PastIsDown
  <2>6. (Past(8) /\ "memorystore" \notin missed => child # "dying")'
    BY <1>1, <1>2 DEF ProcessInv, ChildIsKnown, Past, At, PastIsDown
  <2> QED
    BY <2>1, <2>2, <2>3, <2>4, <2>5, <2>6 DEF ChildIsKnown, Past, At
<1>14. PastIsDown'
  BY <1>1, <1>2, <1>3 DEF ProcessInv, PastIsDown, Past, At
<1>15. ExitIsCaused'
  BY <1>1, <1>2 DEF ProcessInv, ExitIsCaused, Past
<1>16. RoutesAreOwned'
  BY <1>1, <1>2, <1>3 DEF ProcessInv, RoutesAreOwned, OwnerIsKnown, Parts
<1>17. HealthIsKept'
  BY <1>1, <1>2 DEF ProcessInv, HealthIsKept, HealthStates, Parts
<1> QED
  BY <1>11, <1>12, <1>13, <1>14, <1>15, <1>16, <1>17 DEF ProcessInv

LEMMA AddsRoutesKeeps ==
  ASSUME ProcessInv, AddsRoutes
  PROVE  ProcessInv'
<1>1. /\ main.at = "starts" /\ main.step = 14 /\ exited = NoRow
  BY StartPlaces, ProcessParts DEF AddsRoutes, Starting, Running
<1> DEFINE next == NextEnabled(15)
           stores == enabled \cap OperationsServices
           owners == IF Composed(stores) THEN {"composed"} ELSE stores
<1>3. /\ IsFiniteSet(stores) /\ Cardinality(owners) \in Nat /\ Cardinality(owners) <= 1
      /\ owners = {} <=> stores = {}
      /\ owners \subseteq Owners
  <2>1. IsFiniteSet(OperationsServices)
    <3>1. OperationsServices = (({"workflows"} \cup {"memorystore"}) \cup {"alloydb"}) \cup {"networksecurity"}
      BY DEF OperationsServices
    <3>2. IsFiniteSet({"workflows"} \cup {"memorystore"})
      BY FS_Singleton, FS_Union
    <3>3. IsFiniteSet(({"workflows"} \cup {"memorystore"}) \cup {"alloydb"})
      BY <3>2, FS_Singleton, FS_Union
    <3> QED
      BY <3>1, <3>3, FS_Singleton, FS_Union
  <2>2. IsFiniteSet(stores) /\ Cardinality(stores) \in Nat
    BY <2>1, FS_Intersection, FS_CardinalityType
  <2>3. stores = {} => Cardinality(stores) = 0
    BY FS_EmptySet
  <2>4. Cardinality({"composed"}) = 1
    BY FS_Singleton
  <2>5. CASE Composed(stores)
    <3>1. owners = {"composed"} /\ stores # {}
      BY <2>2, <2>3, <2>5 DEF Composed
    <3> QED
      BY <2>2, <2>4, <3>1 DEF Owners
  <2>6. CASE ~Composed(stores)
    <3>1. owners = stores /\ Cardinality(stores) <= 1 /\ stores \subseteq OperationsServices
      BY <2>2, <2>6 DEF Composed
    <3> QED
      BY <2>2, <3>1 DEF Owners
  <2> QED
    BY <2>5, <2>6
<1>5. owner' = IF owners = {} THEN NoRow ELSE CHOOSE s \in owners : TRUE
  BY DEF AddsRoutes
<1>2. /\ main' = [main EXCEPT !.step = next, !.busy = FALSE]
      /\ UNCHANGED <<enabled, parts, teardown, child, health, exited, trigger, missed, rejected>>
      /\ owner' \in Owners \cup {NoRow} /\ (owner' = NoRow <=> enabled \cap OperationsServices = {})
  <2>1. ~(Cardinality(owners) > 1)
    BY <1>3
  <2>2. StartsNext /\ UNCHANGED <<enabled, parts, teardown, child, health, exited, historyVars>>
    BY <2>1 DEF AddsRoutes
  <2>3. owners # {} => (CHOOSE s \in owners : TRUE) \in owners
    OBVIOUS
  <2>4. owner' \in Owners \cup {NoRow} /\ (owner' = NoRow <=> stores = {})
    BY <1>3, <1>5, <2>3, ProcessAssumption
  <2> QED
    BY <1>1, <2>2, <2>4 DEF StartsNext, historyVars
<1>4. next \in 15 .. 18 /\ (next <= 17 => IsEnabled(StartOrder[next])) /\ main.busy = FALSE
  BY <1>1, NextIsEnabled, ProcessParts DEF ProcessInv, StartsInOrder
<1> HIDE DEF next, stores, owners
<1>8. main' = [at |-> "starts", step |-> next, busy |-> FALSE, failed |-> main.failed]
  BY <1>1, <1>2, ProcessParts
<1>9. /\ main'.at = "starts" /\ main'.step = next /\ main'.busy = FALSE /\ main'.failed = main.failed
      /\ main' \in [at : {"starts", "ended", "fails", "abandoned"}, step : 1..Len(StartOrder) + 1,
                     busy : BOOLEAN, failed : {NoRow} \cup Parts]
  <2>1. "starts" \in {"starts", "ended", "fails", "abandoned"} /\ next \in 1 .. 18
    BY <1>1, <1>2, <1>4
  <2>2. FALSE \in BOOLEAN /\ main.failed \in {NoRow} \cup Parts
    BY ProcessParts, Zenon
  <2> QED
    BY <1>8, <2>1, <2>2, MainFits
<1>11. ProcessTypeOK'
  BY <1>1, <1>2, <1>9, ProcessParts DEF ProcessTypeOK, HealthStates
<1>12. StartsInOrder'
  BY <1>1, <1>2, <1>4, StartPlaces DEF ProcessInv, StartsInOrder, IsEnabled
<1>13. ChildIsKnown'
  <2>1. (parts["memorystore"] = "none" => child = "none")'
    BY <1>1, <1>2 DEF ProcessInv, ChildIsKnown, Past, At
  <2>2. (child = "spawning" => main.at = "starts" /\ main.busy /\ main.step = 9)'
    BY <1>1, <1>2 DEF ProcessInv, ChildIsKnown, Past, At
  <2>3. (main.at = "fails" /\ (main.step > 1 \/ main.busy) => child # "up")'
    BY <1>1, <1>2 DEF ProcessInv, ChildIsKnown, Past, At
  <2>4. (main.at = "fails" /\ main.step > 1 => child # "dying")'
    BY <1>1, <1>2 DEF ProcessInv, ChildIsKnown, Past, At
  <2>5. ((Past(8) \/ At(8)) /\ "memorystore" \notin missed => child \notin {"spawning", "up"})'
    BY <1>1, <1>2 DEF ProcessInv, ChildIsKnown, Past, At, PastIsDown
  <2>6. (Past(8) /\ "memorystore" \notin missed => child # "dying")'
    BY <1>1, <1>2 DEF ProcessInv, ChildIsKnown, Past, At, PastIsDown
  <2> QED
    BY <2>1, <2>2, <2>3, <2>4, <2>5, <2>6 DEF ChildIsKnown, Past, At
<1>14. PastIsDown'
  BY <1>1, <1>2 DEF ProcessInv, PastIsDown, Past, At
<1>15. ExitIsCaused'
  BY <1>1, <1>2 DEF ProcessInv, ExitIsCaused, Past
<1>16. RoutesAreOwned'
  BY <1>1, <1>2 DEF ProcessInv, RoutesAreOwned, OwnerIsKnown, Parts
<1>17. HealthIsKept'
  BY <1>1, <1>2 DEF ProcessInv, HealthIsKept, HealthStates, Parts
<1> QED
  BY <1>11, <1>12, <1>13, <1>14, <1>15, <1>16, <1>17 DEF ProcessInv

LEMMA MainEndsKeeps ==
  ASSUME ProcessInv, MainEnds
  PROVE  ProcessInv'
<1>1. /\ main.at = "starts" /\ main.step = 18 /\ exited = NoRow
  BY StartPlaces, ProcessParts DEF MainEnds, Running
<1>2. /\ main' = [main EXCEPT !.at = "ended"]
      /\ UNCHANGED <<enabled, parts, teardown, child, owner, health, exited, trigger, missed, rejected>>
  BY DEF MainEnds, historyVars
<1>8. main' = [at |-> "ended", step |-> main.step, busy |-> main.busy, failed |-> main.failed]
  BY <1>1, <1>2, ProcessParts
<1>9. /\ main'.at = "ended" /\ main'.step = main.step /\ main'.busy = main.busy /\ main'.failed = main.failed
      /\ main' \in [at : {"starts", "ended", "fails", "abandoned"}, step : 1..Len(StartOrder) + 1,
                     busy : BOOLEAN, failed : {NoRow} \cup Parts]
  <2>1. "ended" \in {"starts", "ended", "fails", "abandoned"} /\ main.step \in 1 .. 18
    BY <1>1, <1>2
  <2>2. main.busy \in BOOLEAN /\ main.failed \in {NoRow} \cup Parts
    BY ProcessParts, Zenon
  <2> QED
    BY <1>8, <2>1, <2>2, MainFits
<1>11. ProcessTypeOK'
  BY <1>1, <1>2, <1>9, ProcessParts DEF ProcessTypeOK, HealthStates
<1>12. StartsInOrder'
  BY <1>9 DEF StartsInOrder
<1>13. ChildIsKnown'
  <2>1. (parts["memorystore"] = "none" => child = "none")'
    BY <1>1, <1>2 DEF ProcessInv, ChildIsKnown, Past, At
  <2>2. (child = "spawning" => main.at = "starts" /\ main.busy /\ main.step = 9)'
    BY <1>1, <1>2 DEF ProcessInv, ChildIsKnown, Past, At
  <2>3. (main.at = "fails" /\ (main.step > 1 \/ main.busy) => child # "up")'
    BY <1>1, <1>2 DEF ProcessInv, ChildIsKnown, Past, At
  <2>4. (main.at = "fails" /\ main.step > 1 => child # "dying")'
    BY <1>1, <1>2 DEF ProcessInv, ChildIsKnown, Past, At
  <2>5. ((Past(8) \/ At(8)) /\ "memorystore" \notin missed => child \notin {"spawning", "up"})'
    BY <1>1, <1>2 DEF ProcessInv, ChildIsKnown, Past, At, PastIsDown
  <2>6. (Past(8) /\ "memorystore" \notin missed => child # "dying")'
    BY <1>1, <1>2 DEF ProcessInv, ChildIsKnown, Past, At, PastIsDown
  <2> QED
    BY <2>1, <2>2, <2>3, <2>4, <2>5, <2>6 DEF ChildIsKnown, Past, At
<1>14. PastIsDown'
  BY <1>1, <1>2 DEF ProcessInv, PastIsDown, Past, At
<1>15. ExitIsCaused'
  BY <1>1, <1>2 DEF ProcessInv, ExitIsCaused, Past
<1>16. RoutesAreOwned'
  BY <1>1, <1>2 DEF ProcessInv, RoutesAreOwned, OwnerIsKnown, Parts
<1>17. HealthIsKept'
  BY <1>1, <1>2 DEF ProcessInv, HealthIsKept, HealthStates, Parts
<1> QED
  BY <1>11, <1>12, <1>13, <1>14, <1>15, <1>16, <1>17 DEF ProcessInv

LEMMA ChildDiesKeeps ==
  ASSUME ProcessInv, ChildDies
  PROVE  ProcessInv'
<1>1. exited = NoRow /\ child = "dying"
  BY DEF ChildDies, Running
<1>2. /\ child' = "dead"
      /\ UNCHANGED <<enabled, parts, main, teardown, owner, health, exited, trigger, missed, rejected>>
  BY DEF ChildDies, historyVars
<1>11. ProcessTypeOK'
  BY <1>1, <1>2, ProcessParts, StartPlaces DEF ProcessTypeOK, HealthStates
<1>12. StartsInOrder'
  BY <1>1, <1>2, ProcessParts DEF ProcessInv, StartsInOrder, IsEnabled
<1>13. ChildIsKnown'
  <2>1. (parts["memorystore"] = "none" => child = "none")'
    BY <1>1, <1>2, ProcessParts DEF ProcessInv, ChildIsKnown, Past, At
  <2>2. (child = "spawning" => main.at = "starts" /\ main.busy /\ main.step = 9)'
    BY <1>1, <1>2, ProcessParts DEF ProcessInv, ChildIsKnown, Past, At
  <2>3. (main.at = "fails" /\ (main.step > 1 \/ main.busy) => child # "up")'
    BY <1>1, <1>2, ProcessParts DEF ProcessInv, ChildIsKnown, Past, At
  <2>4. (main.at = "fails" /\ main.step > 1 => child # "dying")'
    BY <1>1, <1>2, ProcessParts DEF ProcessInv, ChildIsKnown, Past, At
  <2>5. ((Past(8) \/ At(8)) /\ "memorystore" \notin missed => child \notin {"spawning", "up"})'
    BY <1>1, <1>2, ProcessParts DEF ProcessInv, ChildIsKnown, Past, At, PastIsDown
  <2>6. (Past(8) /\ "memorystore" \notin missed => child # "dying")'
    BY <1>1, <1>2, ProcessParts DEF ProcessInv, ChildIsKnown, Past, At, PastIsDown
  <2> QED
    BY <2>1, <2>2, <2>3, <2>4, <2>5, <2>6 DEF ChildIsKnown, Past, At
<1>14. PastIsDown'
  BY <1>1, <1>2, ProcessParts DEF ProcessInv, PastIsDown, Past, At
<1>15. ExitIsCaused'
  BY <1>1, <1>2, ProcessParts DEF ProcessInv, ExitIsCaused, Past
<1>16. RoutesAreOwned'
  BY <1>1, <1>2, ProcessParts DEF ProcessInv, RoutesAreOwned, OwnerIsKnown, Parts
<1>17. HealthIsKept'
  BY <1>1, <1>2, ProcessParts DEF ProcessInv, HealthIsKept, HealthStates, Parts
<1> QED
  BY <1>11, <1>12, <1>13, <1>14, <1>15, <1>16, <1>17 DEF ProcessInv

LEMMA FailureComesPast ==
  ASSUME ProcessInv, NEW p \in Parts, Failing(p), ~main.busy, parts[p] = "none", FailureGoesOn, UNCHANGED <<parts, child>>,
         UNCHANGED <<enabled, teardown, owner, health, exited, historyVars>>
  PROVE  ProcessInv'
<1>1. /\ main.at = "fails" /\ main.step \in 1 .. 5 /\ FailureOrder[main.step] = p /\ exited = NoRow
      /\ p \in Parts \ {"config", "routes", "listener", "http", "store"} /\ (p = "memorystore" <=> main.step = 1)
  BY FailurePlaces, ProcessParts DEF Failing, Running
<1>2. /\ main' = [main EXCEPT !.step = @ + 1, !.busy = FALSE]
      /\ UNCHANGED <<enabled, parts, teardown, child, owner, health, exited, trigger, missed, rejected>>
  BY DEF FailureGoesOn, historyVars
<1>8. main' = [at |-> "fails", step |-> main.step + 1, busy |-> FALSE, failed |-> main.failed]
  BY <1>1, <1>2, ProcessParts
<1>9. /\ main'.at = "fails" /\ main'.step = main.step + 1 /\ main'.busy = FALSE /\ main'.failed = main.failed
      /\ main' \in [at : {"starts", "ended", "fails", "abandoned"}, step : 1..Len(StartOrder) + 1,
                     busy : BOOLEAN, failed : {NoRow} \cup Parts]
  <2>1. "fails" \in {"starts", "ended", "fails", "abandoned"} /\ main.step + 1 \in 1 .. 18
    BY <1>1, <1>2, FailurePlaces
  <2>2. FALSE \in BOOLEAN /\ main.failed \in {NoRow} \cup Parts
    BY ProcessParts, Zenon
  <2> QED
    BY <1>8, <2>1, <2>2, MainFits
<1>11. ProcessTypeOK'
  BY <1>1, <1>2, <1>9, ProcessParts, FailurePlaces DEF ProcessTypeOK, HealthStates
<1>12. StartsInOrder'
  BY <1>9 DEF StartsInOrder
<1>13. ChildIsKnown'
  <2>1. (parts["memorystore"] = "none" => child = "none")'
    BY <1>1, <1>2, FailurePlaces DEF ProcessInv, ChildIsKnown, Past, At
  <2>2. (child = "spawning" => main.at = "starts" /\ main.busy /\ main.step = 9)'
    BY <1>1, <1>2, FailurePlaces DEF ProcessInv, ChildIsKnown, Past, At
  <2>3. (main.at = "fails" /\ (main.step > 1 \/ main.busy) => child # "up")'
    BY <1>1, <1>2, FailurePlaces DEF ProcessInv, ChildIsKnown, Past, At
  <2>4. (main.at = "fails" /\ main.step > 1 => child # "dying")'
    BY <1>1, <1>2, FailurePlaces DEF ProcessInv, ChildIsKnown, Past, At
  <2>5. ((Past(8) \/ At(8)) /\ "memorystore" \notin missed => child \notin {"spawning", "up"})'
    BY <1>1, <1>2, FailurePlaces DEF ProcessInv, ChildIsKnown, Past, At, PastIsDown
  <2>6. (Past(8) /\ "memorystore" \notin missed => child # "dying")'
    BY <1>1, <1>2, FailurePlaces DEF ProcessInv, ChildIsKnown, Past, At, PastIsDown
  <2> QED
    BY <2>1, <2>2, <2>3, <2>4, <2>5, <2>6 DEF ChildIsKnown, Past, At
<1>14. PastIsDown'
  BY <1>1, <1>2, FailurePlaces DEF ProcessInv, PastIsDown, Past, At
<1>15. ExitIsCaused'
  BY <1>1, <1>2, FailurePlaces DEF ProcessInv, ExitIsCaused, Past
<1>16. RoutesAreOwned'
  BY <1>1, <1>2, FailurePlaces DEF ProcessInv, RoutesAreOwned, OwnerIsKnown, Parts
<1>17. HealthIsKept'
  BY <1>1, <1>2, FailurePlaces DEF ProcessInv, HealthIsKept, HealthStates, Parts
<1> QED
  BY <1>11, <1>12, <1>13, <1>14, <1>15, <1>16, <1>17 DEF ProcessInv

LEMMA FailureStopsKeeps ==
  ASSUME ProcessInv, NEW p \in Parts, Failing(p), StopBegins(p), main' = [main EXCEPT !.busy = TRUE],
         UNCHANGED <<enabled, teardown, owner, health, exited, historyVars>>
  PROVE  ProcessInv'
<1>1. /\ main.at = "fails" /\ main.step \in 1 .. 5 /\ FailureOrder[main.step] = p /\ exited = NoRow
      /\ p \in Parts \ {"config", "routes", "listener", "http", "store"} /\ (p = "memorystore" <=> main.step = 1)
  BY FailurePlaces, ProcessParts DEF Failing, Running
<1>2. /\ main' = [main EXCEPT !.busy = TRUE]
      /\ parts' = [q \in Parts |->
                    CASE q = p /\ parts[q] = "up" -> "stopping"
                      [] q = "listener" /\ p = "compute" /\ parts[q] = "up" -> "down"
                      [] OTHER -> parts[q]]
      /\ child' = IF p = "memorystore" /\ child = "up" THEN "dying" ELSE child
      /\ UNCHANGED <<enabled, teardown, owner, health, exited, trigger, missed, rejected>>
  BY DEF StopBegins, historyVars
<1>8. main' = [at |-> "fails", step |-> main.step, busy |-> TRUE, failed |-> main.failed]
  BY <1>1, <1>2, ProcessParts
<1>9. /\ main'.at = "fails" /\ main'.step = main.step /\ main'.busy = TRUE /\ main'.failed = main.failed
      /\ main' \in [at : {"starts", "ended", "fails", "abandoned"}, step : 1..Len(StartOrder) + 1,
                     busy : BOOLEAN, failed : {NoRow} \cup Parts]
  <2>1. "fails" \in {"starts", "ended", "fails", "abandoned"} /\ main.step \in 1 .. 18
    BY <1>1, <1>2
  <2>2. TRUE \in BOOLEAN /\ main.failed \in {NoRow} \cup Parts
    BY ProcessParts, Zenon
  <2> QED
    BY <1>8, <2>1, <2>2, MainFits
<1>10. /\ \A q \in Parts : parts'[q] = IF q = p /\ parts[q] = "up" THEN "stopping"
            ELSE IF q = "listener" /\ p = "compute" /\ parts[q] = "up" THEN "down" ELSE parts[q]
       /\ parts' \in [Parts -> {"none", "starting", "up", "stopping", "down"}]
  BY <1>1, <1>2, ProcessParts
<1>11. ProcessTypeOK'
  BY <1>1, <1>2, <1>9, ProcessParts DEF ProcessTypeOK, HealthStates
<1>12. StartsInOrder'
  BY <1>9 DEF StartsInOrder
<1>13. ChildIsKnown'
  <2>1. (parts["memorystore"] = "none" => child = "none")'
    BY <1>1, <1>2, StopPlaces DEF ProcessInv, ChildIsKnown, Past, At
  <2>2. (child = "spawning" => main.at = "starts" /\ main.busy /\ main.step = 9)'
    BY <1>1, <1>2 DEF ProcessInv, ChildIsKnown, Past, At
  <2>3. (main.at = "fails" /\ (main.step > 1 \/ main.busy) => child # "up")'
    BY <1>1, <1>2 DEF ProcessInv, ChildIsKnown, Past, At
  <2>4. (main.at = "fails" /\ main.step > 1 => child # "dying")'
    BY <1>1, <1>2 DEF ProcessInv, ChildIsKnown, Past, At
  <2>5. ((Past(8) \/ At(8)) /\ "memorystore" \notin missed => child \notin {"spawning", "up"})'
    BY <1>1, <1>2 DEF ProcessInv, ChildIsKnown, Past, At, PastIsDown
  <2>6. (Past(8) /\ "memorystore" \notin missed => child # "dying")'
    BY <1>1, <1>2 DEF ProcessInv, ChildIsKnown, Past, At, PastIsDown
  <2> QED
    BY <2>1, <2>2, <2>3, <2>4, <2>5, <2>6 DEF ChildIsKnown, Past, At
<1>14. PastIsDown'
  <2>1. ASSUME NEW n \in 1 .. 14 PROVE Past(n)' = Past(n) /\ At(n)' = At(n)
    BY <1>2 DEF Past, At
  <2>2. ASSUME NEW n \in 1 .. 14
        PROVE  /\ parts[StopOrder[n]] = "down" => parts'[StopOrder[n]] = "down"
               /\ parts[StopOrder[n]] \in {"stopping", "down"} => parts'[StopOrder[n]] \in {"stopping", "down"}
    <3>1. StopOrder[n] \in Parts \ {"listener"}
      BY StopPlaces
    <3> QED
      BY <1>10, <3>1
  <2>3. parts'["store"] = parts["store"]
    BY <1>1, <1>10 DEF Parts
  <2>4. (teardown # NoRow => teardown.code = trigger /\ (teardown.busy => teardown.step <= 14))'
    BY <1>2 DEF ProcessInv, PastIsDown
  <2>5. (teardown = NoRow => trigger = NoRow)'
    BY <1>2 DEF ProcessInv, PastIsDown
  <2>6. ASSUME NEW n \in 1 .. 14, Past(n)' PROVE (parts[StopOrder[n]] = "down" \/ StopOrder[n] \in missed)'
    BY <1>2, <2>1, <2>2, <2>6 DEF ProcessInv, PastIsDown
  <2>7. ASSUME NEW n \in 1 .. 14, At(n)' PROVE (parts[StopOrder[n]] \in {"stopping", "down"} \/ StopOrder[n] \in missed)'
    BY <1>2, <2>1, <2>2, <2>7 DEF ProcessInv, PastIsDown
  <2>8. (parts["store"] \in {"stopping", "down"} => Past(14) \/ At(14))'
    <3>1. Past(14)' = Past(14) /\ At(14)' = At(14)
      BY <2>1
    <3> QED
      BY <2>3, <3>1 DEF ProcessInv, PastIsDown
  <2> QED
    BY <2>4, <2>5, <2>6, <2>7, <2>8 DEF PastIsDown
<1>15. ExitIsCaused'
  BY <1>1, <1>2 DEF ProcessInv, ExitIsCaused, Past
<1>16. RoutesAreOwned'
  BY <1>1, <1>2 DEF ProcessInv, RoutesAreOwned, OwnerIsKnown, Parts
<1>17. HealthIsKept'
  BY <1>1, <1>2 DEF ProcessInv, HealthIsKept, HealthStates, Parts
<1> QED
  BY <1>11, <1>12, <1>13, <1>14, <1>15, <1>16, <1>17 DEF ProcessInv

LEMMA FailureStopEndsKeeps ==
  ASSUME ProcessInv, NEW p \in Parts, Failing(p), main.busy, StopEnds(p), FailureGoesOn,
         UNCHANGED <<enabled, teardown, child, owner, health, exited, historyVars>>
  PROVE  ProcessInv'
<1>1. /\ main.at = "fails" /\ main.step \in 1 .. 5 /\ FailureOrder[main.step] = p /\ exited = NoRow
      /\ p \in Parts \ {"config", "routes", "listener", "http", "store"} /\ (p = "memorystore" <=> main.step = 1)
  BY FailurePlaces, ProcessParts DEF Failing, Running
<1>2. /\ main' = [main EXCEPT !.step = @ + 1, !.busy = FALSE]
      /\ p = "memorystore" => child # "dying"
      /\ parts' = [parts EXCEPT ![p] = IF @ = "stopping" THEN "down" ELSE @]
      /\ UNCHANGED <<enabled, teardown, child, owner, health, exited, trigger, missed, rejected>>
  BY DEF StopEnds, FailureGoesOn, historyVars
<1>3. child # "up" /\ (main.step > 1 => child # "dying")
  BY <1>1 DEF ProcessInv, ChildIsKnown
<1>8. main' = [at |-> "fails", step |-> main.step + 1, busy |-> FALSE, failed |-> main.failed]
  BY <1>1, <1>2, ProcessParts
<1>9. /\ main'.at = "fails" /\ main'.step = main.step + 1 /\ main'.busy = FALSE /\ main'.failed = main.failed
      /\ main' \in [at : {"starts", "ended", "fails", "abandoned"}, step : 1..Len(StartOrder) + 1,
                     busy : BOOLEAN, failed : {NoRow} \cup Parts]
  <2>1. "fails" \in {"starts", "ended", "fails", "abandoned"} /\ main.step + 1 \in 1 .. 18
    BY <1>1, <1>2
  <2>2. FALSE \in BOOLEAN /\ main.failed \in {NoRow} \cup Parts
    BY ProcessParts, Zenon
  <2> QED
    BY <1>8, <2>1, <2>2, MainFits
<1>10. /\ \A q \in Parts : parts'[q] = IF q = p /\ parts[q] = "stopping" THEN "down" ELSE parts[q]
       /\ parts' \in [Parts -> {"none", "starting", "up", "stopping", "down"}]
  BY <1>1, <1>2, ProcessParts
<1>11. ProcessTypeOK'
  BY <1>1, <1>2, <1>9, ProcessParts DEF ProcessTypeOK, HealthStates
<1>12. StartsInOrder'
  BY <1>9 DEF StartsInOrder
<1>13. ChildIsKnown'
  <2>1. (parts["memorystore"] = "none" => child = "none")'
    BY <1>1, <1>2 DEF ProcessInv, ChildIsKnown, Past, At
  <2>2. (child = "spawning" => main.at = "starts" /\ main.busy /\ main.step = 9)'
    BY <1>1, <1>2 DEF ProcessInv, ChildIsKnown, Past, At
  <2>3. (main.at = "fails" /\ (main.step > 1 \/ main.busy) => child # "up")'
    BY <1>1, <1>2 DEF ProcessInv, ChildIsKnown, Past, At
  <2>4. (main.at = "fails" /\ main.step > 1 => child # "dying")'
    BY <1>1, <1>2 DEF ProcessInv, ChildIsKnown, Past, At
  <2>5. ((Past(8) \/ At(8)) /\ "memorystore" \notin missed => child \notin {"spawning", "up"})'
    BY <1>1, <1>2 DEF ProcessInv, ChildIsKnown, Past, At, PastIsDown
  <2>6. (Past(8) /\ "memorystore" \notin missed => child # "dying")'
    BY <1>1, <1>2 DEF ProcessInv, ChildIsKnown, Past, At, PastIsDown
  <2> QED
    BY <2>1, <2>2, <2>3, <2>4, <2>5, <2>6 DEF ChildIsKnown, Past, At
<1>14. PastIsDown'
  <2>1. ASSUME NEW n \in 1 .. 14 PROVE Past(n)' = Past(n) /\ At(n)' = At(n)
    BY <1>2 DEF Past, At
  <2>2. ASSUME NEW n \in 1 .. 14
        PROVE  /\ parts[StopOrder[n]] = "down" => parts'[StopOrder[n]] = "down"
               /\ parts[StopOrder[n]] \in {"stopping", "down"} => parts'[StopOrder[n]] \in {"stopping", "down"}
    <3>1. StopOrder[n] \in Parts \ {"listener"}
      BY StopPlaces
    <3> QED
      BY <1>10, <3>1
  <2>3. parts'["store"] = parts["store"]
    BY <1>1, <1>10 DEF Parts
  <2>4. (teardown # NoRow => teardown.code = trigger /\ (teardown.busy => teardown.step <= 14))'
    BY <1>2 DEF ProcessInv, PastIsDown
  <2>5. (teardown = NoRow => trigger = NoRow)'
    BY <1>2 DEF ProcessInv, PastIsDown
  <2>6. ASSUME NEW n \in 1 .. 14, Past(n)' PROVE (parts[StopOrder[n]] = "down" \/ StopOrder[n] \in missed)'
    BY <1>2, <2>1, <2>2, <2>6 DEF ProcessInv, PastIsDown
  <2>7. ASSUME NEW n \in 1 .. 14, At(n)' PROVE (parts[StopOrder[n]] \in {"stopping", "down"} \/ StopOrder[n] \in missed)'
    BY <1>2, <2>1, <2>2, <2>7 DEF ProcessInv, PastIsDown
  <2>8. (parts["store"] \in {"stopping", "down"} => Past(14) \/ At(14))'
    <3>1. Past(14)' = Past(14) /\ At(14)' = At(14)
      BY <2>1
    <3> QED
      BY <2>3, <3>1 DEF ProcessInv, PastIsDown
  <2> QED
    BY <2>4, <2>5, <2>6, <2>7, <2>8 DEF PastIsDown
<1>15. ExitIsCaused'
  BY <1>1, <1>2 DEF ProcessInv, ExitIsCaused, Past
<1>16. RoutesAreOwned'
  BY <1>1, <1>2 DEF ProcessInv, RoutesAreOwned, OwnerIsKnown, Parts
<1>17. HealthIsKept'
  BY <1>1, <1>2 DEF ProcessInv, HealthIsKept, HealthStates, Parts
<1> QED
  BY <1>11, <1>12, <1>13, <1>14, <1>15, <1>16, <1>17 DEF ProcessInv

LEMMA FailureIsAbandoned ==
  ASSUME ProcessInv, NEW p \in Parts, Failing(p), main' = [main EXCEPT !.at = "abandoned"], UNCHANGED parts,
         UNCHANGED <<enabled, teardown, child, owner, health, exited, historyVars>>
  PROVE  ProcessInv'
<1>1. /\ main.at = "fails" /\ main.step \in 1 .. 5 /\ FailureOrder[main.step] = p /\ exited = NoRow
      /\ p \in Parts \ {"config", "routes", "listener", "http", "store"} /\ (p = "memorystore" <=> main.step = 1)
  BY FailurePlaces, ProcessParts DEF Failing, Running
<1>2. /\ main' = [main EXCEPT !.at = "abandoned"]
      /\ UNCHANGED <<enabled, parts, teardown, child, owner, health, exited, trigger, missed, rejected>>
  BY DEF historyVars
<1>8. main' = [at |-> "abandoned", step |-> main.step, busy |-> main.busy, failed |-> main.failed]
  BY <1>1, <1>2, ProcessParts
<1>9. /\ main'.at = "abandoned" /\ main'.step = main.step /\ main'.busy = main.busy /\ main'.failed = main.failed
      /\ main' \in [at : {"starts", "ended", "fails", "abandoned"}, step : 1..Len(StartOrder) + 1,
                     busy : BOOLEAN, failed : {NoRow} \cup Parts]
  <2>1. "abandoned" \in {"starts", "ended", "fails", "abandoned"} /\ main.step \in 1 .. 18
    BY <1>1, <1>2
  <2>2. main.busy \in BOOLEAN /\ main.failed \in {NoRow} \cup Parts
    BY ProcessParts, Zenon
  <2> QED
    BY <1>8, <2>1, <2>2, MainFits, ZenonT(60)
<1>11. ProcessTypeOK'
  BY <1>1, <1>2, <1>9, ProcessParts DEF ProcessTypeOK, HealthStates
<1>12. StartsInOrder'
  BY <1>9 DEF StartsInOrder
<1>13. ChildIsKnown'
  <2>1. (parts["memorystore"] = "none" => child = "none")'
    BY <1>1, <1>2 DEF ProcessInv, ChildIsKnown, Past, At
  <2>2. (child = "spawning" => main.at = "starts" /\ main.busy /\ main.step = 9)'
    BY <1>1, <1>2 DEF ProcessInv, ChildIsKnown, Past, At
  <2>3. (main.at = "fails" /\ (main.step > 1 \/ main.busy) => child # "up")'
    BY <1>1, <1>2 DEF ProcessInv, ChildIsKnown, Past, At
  <2>4. (main.at = "fails" /\ main.step > 1 => child # "dying")'
    BY <1>1, <1>2 DEF ProcessInv, ChildIsKnown, Past, At
  <2>5. ((Past(8) \/ At(8)) /\ "memorystore" \notin missed => child \notin {"spawning", "up"})'
    BY <1>1, <1>2 DEF ProcessInv, ChildIsKnown, Past, At, PastIsDown
  <2>6. (Past(8) /\ "memorystore" \notin missed => child # "dying")'
    BY <1>1, <1>2 DEF ProcessInv, ChildIsKnown, Past, At, PastIsDown
  <2> QED
    BY <2>1, <2>2, <2>3, <2>4, <2>5, <2>6 DEF ChildIsKnown, Past, At
<1>14. PastIsDown'
  BY <1>1, <1>2 DEF ProcessInv, PastIsDown, Past, At
<1>15. ExitIsCaused'
  BY <1>1, <1>2 DEF ProcessInv, ExitIsCaused, Past
<1>16. RoutesAreOwned'
  BY <1>1, <1>2 DEF ProcessInv, RoutesAreOwned, OwnerIsKnown, Parts
<1>17. HealthIsKept'
  BY <1>1, <1>2 DEF ProcessInv, HealthIsKept, HealthStates, Parts
<1> QED
  BY <1>11, <1>12, <1>13, <1>14, <1>15, <1>16, <1>17 DEF ProcessInv

LEMMA FailureExitsKeeps ==
  ASSUME ProcessInv, FailureExits
  PROVE  ProcessInv'
<1>1. exited = NoRow /\ main.at = "fails" /\ main.step > 5
  BY FailurePlaces DEF FailureExits, Running
<1>2. /\ exited' = [code |-> 1, by |-> "failure"] /\ exited' \in Exits /\ exited'.by = "failure" /\ exited'.code = 1
      /\ UNCHANGED <<enabled, parts, main, teardown, child, owner, health, trigger, missed, rejected>>
  BY DEF FailureExits, historyVars, Exits
<1>11. ProcessTypeOK'
  BY <1>1, <1>2, ProcessParts, StartPlaces DEF ProcessTypeOK, HealthStates
<1>12. StartsInOrder'
  BY <1>1, <1>2, ProcessParts DEF ProcessInv, StartsInOrder, IsEnabled
<1>13. ChildIsKnown'
  <2>1. (parts["memorystore"] = "none" => child = "none")'
    BY <1>1, <1>2, ProcessParts DEF ProcessInv, ChildIsKnown, Past, At
  <2>2. (child = "spawning" => main.at = "starts" /\ main.busy /\ main.step = 9)'
    BY <1>1, <1>2, ProcessParts DEF ProcessInv, ChildIsKnown, Past, At
  <2>3. (main.at = "fails" /\ (main.step > 1 \/ main.busy) => child # "up")'
    BY <1>1, <1>2, ProcessParts DEF ProcessInv, ChildIsKnown, Past, At
  <2>4. (main.at = "fails" /\ main.step > 1 => child # "dying")'
    BY <1>1, <1>2, ProcessParts DEF ProcessInv, ChildIsKnown, Past, At
  <2>5. ((Past(8) \/ At(8)) /\ "memorystore" \notin missed => child \notin {"spawning", "up"})'
    BY <1>1, <1>2, ProcessParts DEF ProcessInv, ChildIsKnown, Past, At, PastIsDown
  <2>6. (Past(8) /\ "memorystore" \notin missed => child # "dying")'
    BY <1>1, <1>2, ProcessParts DEF ProcessInv, ChildIsKnown, Past, At, PastIsDown
  <2> QED
    BY <2>1, <2>2, <2>3, <2>4, <2>5, <2>6 DEF ChildIsKnown, Past, At
<1>14. PastIsDown'
  BY <1>1, <1>2, ProcessParts DEF ProcessInv, PastIsDown, Past, At
<1>15. ExitIsCaused'
  BY <1>1, <1>2, ProcessParts DEF ProcessInv, ExitIsCaused, Past
<1>16. RoutesAreOwned'
  BY <1>1, <1>2, ProcessParts DEF ProcessInv, RoutesAreOwned, OwnerIsKnown, Parts
<1>17. HealthIsKept'
  BY <1>1, <1>2, ProcessParts DEF ProcessInv, HealthIsKept, HealthStates, Parts
<1> QED
  BY <1>11, <1>12, <1>13, <1>14, <1>15, <1>16, <1>17 DEF ProcessInv

LEMMA TriggeredKeeps ==
  ASSUME ProcessInv, NEW code \in {0, 1}, Triggered(code)
  PROVE  ProcessInv'
<1>1. exited = NoRow /\ teardown = NoRow /\ trigger = NoRow
  BY DEF Triggered, Running, IsShuttingDown, ProcessInv, PastIsDown
<1>2. /\ teardown' = [step |-> 1, busy |-> FALSE, code |-> code] /\ trigger' = code
      /\ UNCHANGED <<enabled, parts, main, child, owner, health, exited, missed, rejected>>
  BY <1>1 DEF Triggered, historyVars
<1>6. teardown' = [step |-> 1, busy |-> FALSE, code |-> code]
  BY <1>1, <1>2, ProcessParts
<1>7. /\ teardown'.step = 1 /\ teardown'.busy = FALSE /\ teardown'.code = code
      /\ teardown' \in Teardowns /\ teardown' # NoRow
  <2>1. 1 \in 1 .. 15 /\ code \in {0, 1}
    BY <1>1, TeardownParts
  <2> QED
    BY <1>6, <2>1, TeardownFits
<1>11. ProcessTypeOK'
  BY <1>1, <1>2, <1>7, ProcessParts, StartPlaces DEF ProcessTypeOK, HealthStates
<1>12. StartsInOrder'
  BY <1>1, <1>2, <1>7 DEF ProcessInv, StartsInOrder, IsEnabled
<1>13. ChildIsKnown'
  <2>1. (parts["memorystore"] = "none" => child = "none")'
    BY <1>1, <1>2, <1>7 DEF ProcessInv, ChildIsKnown, Past, At
  <2>2. (child = "spawning" => main.at = "starts" /\ main.busy /\ main.step = 9)'
    BY <1>1, <1>2, <1>7 DEF ProcessInv, ChildIsKnown, Past, At
  <2>3. (main.at = "fails" /\ (main.step > 1 \/ main.busy) => child # "up")'
    BY <1>1, <1>2, <1>7 DEF ProcessInv, ChildIsKnown, Past, At
  <2>4. (main.at = "fails" /\ main.step > 1 => child # "dying")'
    BY <1>1, <1>2, <1>7 DEF ProcessInv, ChildIsKnown, Past, At
  <2>5. ((Past(8) \/ At(8)) /\ "memorystore" \notin missed => child \notin {"spawning", "up"})'
    BY <1>1, <1>2, <1>7 DEF ProcessInv, ChildIsKnown, Past, At, PastIsDown
  <2>6. (Past(8) /\ "memorystore" \notin missed => child # "dying")'
    BY <1>1, <1>2, <1>7 DEF ProcessInv, ChildIsKnown, Past, At, PastIsDown
  <2> QED
    BY <2>1, <2>2, <2>3, <2>4, <2>5, <2>6 DEF ChildIsKnown, Past, At
<1>14. PastIsDown'
  BY <1>1, <1>2, <1>7 DEF ProcessInv, PastIsDown, Past, At
<1>15. ExitIsCaused'
  BY <1>1, <1>2, <1>7 DEF ProcessInv, ExitIsCaused, Past
<1>16. RoutesAreOwned'
  BY <1>1, <1>2, <1>7 DEF ProcessInv, RoutesAreOwned, OwnerIsKnown, Parts
<1>17. HealthIsKept'
  BY <1>1, <1>2, <1>7 DEF ProcessInv, HealthIsKept, HealthStates, Parts
<1> QED
  BY <1>11, <1>12, <1>13, <1>14, <1>15, <1>16, <1>17 DEF ProcessInv

LEMMA ShutdownComesPast ==
  ASSUME ProcessInv, NEW p \in Parts, Stopping(p), ~teardown.busy, parts[p] = "none", ComesPast, UNCHANGED <<parts, child>>,
         missed' = missed \cup {p}, UNCHANGED <<enabled, main, owner, health, exited, trigger, rejected>>
  PROVE  ProcessInv'
<1>1. /\ exited = NoRow /\ teardown # NoRow /\ teardown.step \in 1 .. 14 /\ StopOrder[teardown.step] = p
  BY StopPlaces, TeardownParts DEF Stopping, Running
<1>2. /\ teardown' = [teardown EXCEPT !.step = @ + 1, !.busy = FALSE] /\ teardown.busy = FALSE
      /\ parts[p] = "none" /\ missed' = missed \cup {p}
      /\ UNCHANGED <<enabled, parts, main, child, owner, health, exited, trigger, rejected>>
  BY <1>1, TeardownParts DEF ComesPast
<1>3. (p = "memorystore" <=> teardown.step = 8) /\ (p = "store" <=> teardown.step = 14) /\ p \notin {"config", "routes", "listener"}
  BY <1>1, StopPlaces
<1>6. teardown' = [step |-> teardown.step + 1, busy |-> FALSE, code |-> teardown.code]
  BY <1>1, <1>2, TeardownParts
<1>7. /\ teardown'.step = teardown.step + 1 /\ teardown'.busy = FALSE /\ teardown'.code = teardown.code
      /\ teardown' \in Teardowns /\ teardown' # NoRow
  <2>1. teardown.step + 1 \in 1 .. 15 /\ teardown.code \in {0, 1}
    BY <1>1, TeardownParts
  <2> QED
    BY <1>6, <2>1, TeardownFits
<1>11. ProcessTypeOK'
  BY <1>1, <1>2, <1>7, ProcessParts, StartPlaces DEF ProcessTypeOK, HealthStates
<1>12. StartsInOrder'
  BY <1>1, <1>2, <1>7 DEF ProcessInv, StartsInOrder, IsEnabled
<1>13. ChildIsKnown'
  <2>1. (parts["memorystore"] = "none" => child = "none")'
    BY <1>1, <1>2, <1>7 DEF ProcessInv, ChildIsKnown, Past, At
  <2>2. (child = "spawning" => main.at = "starts" /\ main.busy /\ main.step = 9)'
    BY <1>1, <1>2, <1>7 DEF ProcessInv, ChildIsKnown, Past, At
  <2>3. (main.at = "fails" /\ (main.step > 1 \/ main.busy) => child # "up")'
    BY <1>1, <1>2, <1>7 DEF ProcessInv, ChildIsKnown, Past, At
  <2>4. (main.at = "fails" /\ main.step > 1 => child # "dying")'
    BY <1>1, <1>2, <1>7 DEF ProcessInv, ChildIsKnown, Past, At
  <2>5. ((Past(8) \/ At(8)) /\ "memorystore" \notin missed => child \notin {"spawning", "up"})'
    BY <1>1, <1>2, <1>7, <1>3 DEF ProcessInv, ChildIsKnown, Past, At, PastIsDown
  <2>6. (Past(8) /\ "memorystore" \notin missed => child # "dying")'
    BY <1>1, <1>2, <1>7, <1>3 DEF ProcessInv, ChildIsKnown, Past, At, PastIsDown
  <2> QED
    BY <2>1, <2>2, <2>3, <2>4, <2>5, <2>6 DEF ChildIsKnown, Past, At
<1>14. PastIsDown'
  BY <1>1, <1>2, <1>7 DEF ProcessInv, PastIsDown, Past, At
<1>15. ExitIsCaused'
  BY <1>1, <1>2, <1>7 DEF ProcessInv, ExitIsCaused, Past
<1>16. RoutesAreOwned'
  BY <1>1, <1>2, <1>7 DEF ProcessInv, RoutesAreOwned, OwnerIsKnown, Parts
<1>17. HealthIsKept'
  BY <1>1, <1>2, <1>7 DEF ProcessInv, HealthIsKept, HealthStates, Parts
<1> QED
  BY <1>11, <1>12, <1>13, <1>14, <1>15, <1>16, <1>17 DEF ProcessInv

LEMMA ShutdownStopsKeeps ==
  ASSUME ProcessInv, NEW p \in Parts, Stopping(p), ~teardown.busy, parts[p] # "none",
         missed' = IF parts[p] \in {"none", "starting"} THEN missed \cup {p} ELSE missed,
         StopBegins(p), teardown' = [teardown EXCEPT !.busy = TRUE],
         UNCHANGED <<enabled, main, owner, health, exited, trigger, rejected>>
  PROVE  ProcessInv'
<1>1. /\ exited = NoRow /\ teardown # NoRow /\ teardown.step \in 1 .. 14 /\ StopOrder[teardown.step] = p
  BY StopPlaces, TeardownParts DEF Stopping, Running
<1>2. /\ teardown' = [teardown EXCEPT !.busy = TRUE] /\ teardown.busy = FALSE
      /\ parts[p] # "none" /\ missed' = IF parts[p] = "starting" THEN missed \cup {p} ELSE missed
      /\ parts' = [q \in Parts |->
                    CASE q = p /\ parts[q] = "up" -> "stopping"
                      [] q = "listener" /\ p = "compute" /\ parts[q] = "up" -> "down"
                      [] OTHER -> parts[q]]
      /\ child' = IF p = "memorystore" /\ child = "up" THEN "dying" ELSE child
      /\ UNCHANGED <<enabled, main, owner, health, exited, trigger, rejected>>
  BY <1>1, TeardownParts DEF StopBegins
<1>3. (p = "memorystore" <=> teardown.step = 8) /\ (p = "store" <=> teardown.step = 14) /\ p \notin {"config", "routes", "listener"}
  BY <1>1, StopPlaces
<1>4. child = "spawning" => parts["memorystore"] = "starting"
  BY StartPlaces DEF ProcessInv, ChildIsKnown, StartsInOrder
<1>6. teardown' = [step |-> teardown.step, busy |-> TRUE, code |-> teardown.code]
  BY <1>1, <1>2, TeardownParts
<1>7. /\ teardown'.step = teardown.step /\ teardown'.busy = TRUE /\ teardown'.code = teardown.code
      /\ teardown' \in Teardowns /\ teardown' # NoRow
  <2>1. teardown.step \in 1 .. 15 /\ teardown.code \in {0, 1}
    BY <1>1, TeardownParts
  <2> QED
    BY <1>6, <2>1, TeardownFits
<1>10. /\ \A q \in Parts : parts'[q] = IF q = p /\ parts[q] = "up" THEN "stopping"
            ELSE IF q = "listener" /\ p = "compute" /\ parts[q] = "up" THEN "down" ELSE parts[q]
       /\ parts' \in [Parts -> {"none", "starting", "up", "stopping", "down"}]
  BY <1>1, <1>2, ProcessParts
<1>11. ProcessTypeOK'
  BY <1>1, <1>2, <1>7, ProcessParts, StartPlaces DEF ProcessTypeOK, HealthStates
<1>12. StartsInOrder'
  <2>1. ASSUME NEW n \in 1 .. 17, parts[StartOrder[n]] \in {"none", "starting"}
        PROVE  parts'[StartOrder[n]] = parts[StartOrder[n]]
    BY <1>10, <2>1, StartPlaces
  <2>2. main' = main /\ enabled' = enabled
    BY <1>2
  <2> QED
    BY <2>1, <2>2, ProcessParts DEF ProcessInv, StartsInOrder, IsEnabled
<1>13. ChildIsKnown'
  <2>1. (parts["memorystore"] = "none" => child = "none")'
    BY <1>1, <1>2, <1>7, StopPlaces DEF ProcessInv, ChildIsKnown, Past, At
  <2>2. (child = "spawning" => main.at = "starts" /\ main.busy /\ main.step = 9)'
    BY <1>1, <1>2, <1>7 DEF ProcessInv, ChildIsKnown, Past, At
  <2>3. (main.at = "fails" /\ (main.step > 1 \/ main.busy) => child # "up")'
    BY <1>1, <1>2, <1>7 DEF ProcessInv, ChildIsKnown, Past, At
  <2>4. (main.at = "fails" /\ main.step > 1 => child # "dying")'
    BY <1>1, <1>2, <1>7 DEF ProcessInv, ChildIsKnown, Past, At
  <2>5. ((Past(8) \/ At(8)) /\ "memorystore" \notin missed => child \notin {"spawning", "up"})'
    BY <1>1, <1>2, <1>7, <1>3, <1>4 DEF ProcessInv, ChildIsKnown, Past, At, PastIsDown
  <2>6. (Past(8) /\ "memorystore" \notin missed => child # "dying")'
    BY <1>1, <1>2, <1>7 DEF ProcessInv, ChildIsKnown, Past, At, PastIsDown
  <2> QED
    BY <2>1, <2>2, <2>3, <2>4, <2>5, <2>6 DEF ChildIsKnown, Past, At
<1>14. PastIsDown'
  <2>1. ASSUME NEW n \in 1 .. 14, Past(n)' PROVE (parts[StopOrder[n]] = "down" \/ StopOrder[n] \in missed)'
    <3>1. Past(n) /\ missed \subseteq missed'
      BY <1>1, <1>2, <1>7, <2>1 DEF Past
    <3>2. parts[StopOrder[n]] = "down" \/ StopOrder[n] \in missed
      BY <3>1 DEF ProcessInv, PastIsDown
    <3>3. StopOrder[n] \in Parts \ {"listener"}
      BY StopPlaces
    <3> QED
      BY <1>10, <3>1, <3>2, <3>3
  <2>2. ASSUME NEW n \in 1 .. 14, At(n)' PROVE (parts[StopOrder[n]] \in {"stopping", "down"} \/ StopOrder[n] \in missed)'
    <3>1. StopOrder[n] = p
      BY <1>1, <1>7, <2>2 DEF At
    <3>2. parts[p] \in {"starting", "up", "stopping", "down"}
      BY <1>2, ProcessParts
    <3>3. p \in Parts /\ p # "listener"
      BY <1>3
    <3> QED
      BY <1>2, <1>10, <3>1, <3>2, <3>3
  <2>3. (teardown # NoRow => teardown.code = trigger /\ (teardown.busy => teardown.step <= 14))'
    BY <1>1, <1>2, <1>7 DEF ProcessInv, PastIsDown
  <2>4. (teardown = NoRow => trigger = NoRow)'
    BY <1>7
  <2>5. (parts["store"] \in {"stopping", "down"} => Past(14) \/ At(14))'
    <3>1. CASE p = "store"
      BY <1>3, <1>7, <3>1 DEF At
    <3>2. CASE p # "store"
      <4>1. parts'["store"] = parts["store"]
        BY <1>10, <3>2 DEF Parts
      <4>2. parts["store"] \in {"stopping", "down"} => Past(14) \/ At(14)
        BY DEF ProcessInv, PastIsDown
      <4>3. Past(14) => Past(14)'
        BY <1>7 DEF Past
      <4>4. At(14) => At(14)'
        BY <1>7 DEF At
      <4> QED
        BY <4>1, <4>2, <4>3, <4>4
    <3> QED
      BY <3>1, <3>2
  <2> QED
    BY <2>1, <2>2, <2>3, <2>4, <2>5 DEF PastIsDown
<1>15. ExitIsCaused'
  BY <1>1, <1>2, <1>7 DEF ProcessInv, ExitIsCaused, Past
<1>16. RoutesAreOwned'
  BY <1>1, <1>2, <1>7 DEF ProcessInv, RoutesAreOwned, OwnerIsKnown, Parts
<1>17. HealthIsKept'
  BY <1>1, <1>2, <1>7 DEF ProcessInv, HealthIsKept, HealthStates, Parts
<1> QED
  BY <1>11, <1>12, <1>13, <1>14, <1>15, <1>16, <1>17 DEF ProcessInv

LEMMA ShutdownStopEndsKeeps ==
  ASSUME ProcessInv, NEW p \in Parts, Stopping(p), teardown.busy, StopEnds(p), ComesPast, UNCHANGED <<exited, rejected>>,
         UNCHANGED <<enabled, main, child, owner, health, trigger, missed>>
  PROVE  ProcessInv'
<1>1. /\ exited = NoRow /\ teardown # NoRow /\ teardown.step \in 1 .. 14 /\ StopOrder[teardown.step] = p
  BY StopPlaces, TeardownParts DEF Stopping, Running
<1>2. /\ teardown' = [teardown EXCEPT !.step = @ + 1, !.busy = FALSE] /\ teardown.busy = TRUE
      /\ p = "memorystore" => child # "dying"
      /\ parts' = [parts EXCEPT ![p] = IF @ = "stopping" THEN "down" ELSE @]
      /\ UNCHANGED <<enabled, main, child, owner, health, exited, trigger, missed, rejected>>
  BY <1>1, TeardownParts DEF StopEnds, ComesPast
<1>3. (p = "memorystore" <=> teardown.step = 8) /\ (p = "store" <=> teardown.step = 14) /\ p \notin {"config", "routes", "listener"}
  BY <1>1, StopPlaces
<1>6. teardown' = [step |-> teardown.step + 1, busy |-> FALSE, code |-> teardown.code]
  BY <1>1, <1>2, TeardownParts
<1>7. /\ teardown'.step = teardown.step + 1 /\ teardown'.busy = FALSE /\ teardown'.code = teardown.code
      /\ teardown' \in Teardowns /\ teardown' # NoRow
  <2>1. teardown.step + 1 \in 1 .. 15 /\ teardown.code \in {0, 1}
    BY <1>1, TeardownParts
  <2> QED
    BY <1>6, <2>1, TeardownFits
<1>10. /\ \A q \in Parts : parts'[q] = IF q = p /\ parts[q] = "stopping" THEN "down" ELSE parts[q]
       /\ parts' \in [Parts -> {"none", "starting", "up", "stopping", "down"}]
  BY <1>1, <1>2, ProcessParts
<1>11. ProcessTypeOK'
  BY <1>1, <1>2, <1>7, ProcessParts, StartPlaces DEF ProcessTypeOK, HealthStates
<1>12. StartsInOrder'
  <2>1. ASSUME NEW n \in 1 .. 17, parts[StartOrder[n]] \in {"none", "starting"}
        PROVE  parts'[StartOrder[n]] = parts[StartOrder[n]]
    BY <1>10, <2>1, StartPlaces
  <2>2. main' = main /\ enabled' = enabled
    BY <1>2
  <2> QED
    BY <2>1, <2>2, ProcessParts DEF ProcessInv, StartsInOrder, IsEnabled
<1>13. ChildIsKnown'
  <2>1. (parts["memorystore"] = "none" => child = "none")'
    BY <1>1, <1>2, <1>7 DEF ProcessInv, ChildIsKnown, Past, At
  <2>2. (child = "spawning" => main.at = "starts" /\ main.busy /\ main.step = 9)'
    BY <1>1, <1>2, <1>7 DEF ProcessInv, ChildIsKnown, Past, At
  <2>3. (main.at = "fails" /\ (main.step > 1 \/ main.busy) => child # "up")'
    BY <1>1, <1>2, <1>7 DEF ProcessInv, ChildIsKnown, Past, At
  <2>4. (main.at = "fails" /\ main.step > 1 => child # "dying")'
    BY <1>1, <1>2, <1>7 DEF ProcessInv, ChildIsKnown, Past, At
  <2>5. ((Past(8) \/ At(8)) /\ "memorystore" \notin missed => child \notin {"spawning", "up"})'
    BY <1>1, <1>2, <1>7 DEF ProcessInv, ChildIsKnown, Past, At, PastIsDown
  <2>6. (Past(8) /\ "memorystore" \notin missed => child # "dying")'
    BY <1>1, <1>2, <1>7, <1>3 DEF ProcessInv, ChildIsKnown, Past, At, PastIsDown
  <2> QED
    BY <2>1, <2>2, <2>3, <2>4, <2>5, <2>6 DEF ChildIsKnown, Past, At
<1>14. PastIsDown'
  BY <1>1, <1>2, <1>7, ProcessParts DEF ProcessInv, PastIsDown, Past, At
<1>15. ExitIsCaused'
  BY <1>1, <1>2, <1>7 DEF ProcessInv, ExitIsCaused, Past
<1>16. RoutesAreOwned'
  BY <1>1, <1>2, <1>7 DEF ProcessInv, RoutesAreOwned, OwnerIsKnown, Parts
<1>17. HealthIsKept'
  BY <1>1, <1>2, <1>7 DEF ProcessInv, HealthIsKept, HealthStates, Parts
<1> QED
  BY <1>11, <1>12, <1>13, <1>14, <1>15, <1>16, <1>17 DEF ProcessInv

LEMMA ShutdownIsRejected ==
  ASSUME ProcessInv, NEW p \in Parts, Stopping(p), p \in MayReject, rejected' = TRUE,
         exited' = [code |-> teardown.code, by |-> "shutdown"], UNCHANGED <<parts, teardown>>,
         UNCHANGED <<enabled, main, child, owner, health, trigger, missed>>
  PROVE  ProcessInv'
<1>1. /\ exited = NoRow /\ teardown # NoRow /\ teardown.step \in 1 .. 14 /\ StopOrder[teardown.step] = p
  BY StopPlaces, TeardownParts DEF Stopping, Running
<1>3. exited' \in Exits /\ exited'.by = "shutdown" /\ exited'.code = teardown.code /\ teardown.step > 8
  BY <1>1, TeardownParts, StopPlaces DEF Exits
<1>2. /\ rejected' = TRUE
      /\ UNCHANGED <<enabled, parts, main, teardown, child, owner, health, trigger, missed>>
  OBVIOUS
<1>11. ProcessTypeOK'
  BY <1>1, <1>2, ProcessParts, StartPlaces, <1>3 DEF ProcessTypeOK, HealthStates
<1>12. StartsInOrder'
  BY <1>1, <1>2 DEF ProcessInv, StartsInOrder, IsEnabled
<1>13. ChildIsKnown'
  <2>1. (parts["memorystore"] = "none" => child = "none")'
    BY <1>1, <1>2 DEF ProcessInv, ChildIsKnown, Past, At
  <2>2. (child = "spawning" => main.at = "starts" /\ main.busy /\ main.step = 9)'
    BY <1>1, <1>2 DEF ProcessInv, ChildIsKnown, Past, At
  <2>3. (main.at = "fails" /\ (main.step > 1 \/ main.busy) => child # "up")'
    BY <1>1, <1>2 DEF ProcessInv, ChildIsKnown, Past, At
  <2>4. (main.at = "fails" /\ main.step > 1 => child # "dying")'
    BY <1>1, <1>2 DEF ProcessInv, ChildIsKnown, Past, At
  <2>5. ((Past(8) \/ At(8)) /\ "memorystore" \notin missed => child \notin {"spawning", "up"})'
    BY <1>1, <1>2 DEF ProcessInv, ChildIsKnown, Past, At, PastIsDown
  <2>6. (Past(8) /\ "memorystore" \notin missed => child # "dying")'
    BY <1>1, <1>2 DEF ProcessInv, ChildIsKnown, Past, At, PastIsDown
  <2> QED
    BY <2>1, <2>2, <2>3, <2>4, <2>5, <2>6 DEF ChildIsKnown, Past, At
<1>14. PastIsDown'
  BY <1>1, <1>2 DEF ProcessInv, PastIsDown, Past, At
<1>15. ExitIsCaused'
  BY <1>1, <1>2, <1>3, TeardownParts DEF ProcessInv, ExitIsCaused, PastIsDown, Past
<1>16. RoutesAreOwned'
  BY <1>1, <1>2 DEF ProcessInv, RoutesAreOwned, OwnerIsKnown, Parts
<1>17. HealthIsKept'
  BY <1>1, <1>2 DEF ProcessInv, HealthIsKept, HealthStates, Parts
<1> QED
  BY <1>11, <1>12, <1>13, <1>14, <1>15, <1>16, <1>17 DEF ProcessInv

LEMMA ShutdownExitsKeeps ==
  ASSUME ProcessInv, ShutdownExits
  PROVE  ProcessInv'
<1>1. exited = NoRow /\ teardown # NoRow /\ teardown.step > 14
  BY StopPlaces DEF ShutdownExits, Running
<1>3. exited' \in Exits /\ exited'.by = "shutdown" /\ exited'.code = teardown.code
  BY <1>1, TeardownParts DEF Exits, ShutdownExits
<1>2. UNCHANGED <<enabled, parts, main, teardown, child, owner, health, trigger, missed, rejected>>
  BY DEF ShutdownExits, historyVars
<1>11. ProcessTypeOK'
  BY <1>1, <1>2, ProcessParts, StartPlaces, <1>3 DEF ProcessTypeOK, HealthStates
<1>12. StartsInOrder'
  BY <1>1, <1>2 DEF ProcessInv, StartsInOrder, IsEnabled
<1>13. ChildIsKnown'
  <2>1. (parts["memorystore"] = "none" => child = "none")'
    BY <1>1, <1>2 DEF ProcessInv, ChildIsKnown, Past, At
  <2>2. (child = "spawning" => main.at = "starts" /\ main.busy /\ main.step = 9)'
    BY <1>1, <1>2 DEF ProcessInv, ChildIsKnown, Past, At
  <2>3. (main.at = "fails" /\ (main.step > 1 \/ main.busy) => child # "up")'
    BY <1>1, <1>2 DEF ProcessInv, ChildIsKnown, Past, At
  <2>4. (main.at = "fails" /\ main.step > 1 => child # "dying")'
    BY <1>1, <1>2 DEF ProcessInv, ChildIsKnown, Past, At
  <2>5. ((Past(8) \/ At(8)) /\ "memorystore" \notin missed => child \notin {"spawning", "up"})'
    BY <1>1, <1>2 DEF ProcessInv, ChildIsKnown, Past, At, PastIsDown
  <2>6. (Past(8) /\ "memorystore" \notin missed => child # "dying")'
    BY <1>1, <1>2 DEF ProcessInv, ChildIsKnown, Past, At, PastIsDown
  <2> QED
    BY <2>1, <2>2, <2>3, <2>4, <2>5, <2>6 DEF ChildIsKnown, Past, At
<1>14. PastIsDown'
  BY <1>1, <1>2 DEF ProcessInv, PastIsDown, Past, At
<1>15. ExitIsCaused'
  BY <1>1, <1>2, <1>3, TeardownParts DEF ProcessInv, ExitIsCaused, PastIsDown, Past
<1>16. RoutesAreOwned'
  BY <1>1, <1>2 DEF ProcessInv, RoutesAreOwned, OwnerIsKnown, Parts
<1>17. HealthIsKept'
  BY <1>1, <1>2 DEF ProcessInv, HealthIsKept, HealthStates, Parts
<1> QED
  BY <1>11, <1>12, <1>13, <1>14, <1>15, <1>16, <1>17 DEF ProcessInv

-----------------------------------------------------------------------------
LEMMA StartsSound == ProcessInit => ProcessInv
<1> SUFFICES ASSUME ProcessInit PROVE ProcessInv
  OBVIOUS
<1>1. StartOrder[1] = "config" /\ IsEnabled("config")
  BY DEF StartOrder, IsEnabled, Enableable
<1>2. /\ main.at = "starts" /\ main.step = 1 /\ main.busy = FALSE /\ main.failed = NoRow
      /\ main \in [at : {"starts", "ended", "fails", "abandoned"}, step : 1..Len(StartOrder) + 1,
                   busy : BOOLEAN, failed : {NoRow} \cup Parts]
  BY StartPlaces DEF ProcessInit
<1>3. ProcessTypeOK
  BY <1>2 DEF ProcessInit, ProcessTypeOK
<1>4. StartsInOrder
  BY <1>1, <1>2, StartPlaces DEF ProcessInit, StartsInOrder
<1>5. ChildIsKnown /\ ExitIsCaused
  BY <1>2 DEF ProcessInit, ChildIsKnown, ExitIsCaused, Past, At
<1>6. PastIsDown
  BY DEF ProcessInit, PastIsDown, Past, At, Parts
<1>7. RoutesAreOwned
  BY <1>2, ProcessAssumption DEF ProcessInit, RoutesAreOwned, OwnerIsKnown, Parts
<1>8. HealthIsKept
  BY <1>2, ProcessAssumption DEF ProcessInit, HealthIsKept, HealthStates, Parts
<1> QED
  BY <1>3, <1>4, <1>5, <1>6, <1>7, <1>8 DEF ProcessInv

LEMMA StutterKeeps ==
  ASSUME ProcessInv, UNCHANGED processVars
  PROVE  ProcessInv'
BY DEF processVars, ProcessInv, ProcessTypeOK, StartsInOrder, IsEnabled, ChildIsKnown, PastIsDown, ExitIsCaused,
       Past, At, RoutesAreOwned, OwnerIsKnown, HealthIsKept

LEMMA EveryStepKeeps ==
  ASSUME ProcessInv, ProcessNext
  PROVE  ProcessInv'
<1>1. ASSUME NEW p \in Parts, FailureStops(p) PROVE ProcessInv'
  <2>1. Failing(p) /\ ~main.busy /\ UNCHANGED <<enabled, teardown, owner, health, exited, historyVars>>
    BY <1>1 DEF FailureStops
  <2>2. CASE parts[p] = "none"
    <3>1. FailureGoesOn /\ UNCHANGED <<parts, child>>
      BY <1>1, <2>2 DEF FailureStops
    <3> QED
      BY <2>1, <2>2, <3>1, FailureComesPast
  <2>3. CASE parts[p] # "none"
    <3>1. StopBegins(p) /\ main' = [main EXCEPT !.busy = TRUE]
      BY <1>1, <2>3 DEF FailureStops
    <3> QED
      BY <2>1, <3>1, FailureStopsKeeps
  <2> QED
    BY <2>2, <2>3
<1>2. ASSUME NEW p \in Parts, FailureStopEnds(p) PROVE ProcessInv'
  <2>1. Failing(p) /\ main.busy /\ UNCHANGED <<enabled, teardown, child, owner, health, exited, historyVars>>
    BY <1>2 DEF FailureStopEnds
  <2>2. CASE StopEnds(p) /\ FailureGoesOn
    BY <2>1, <2>2, FailureStopEndsKeeps
  <2>3. CASE main' = [main EXCEPT !.at = "abandoned"] /\ UNCHANGED parts
    BY <2>1, <2>3, FailureIsAbandoned
  <2> QED
    BY <1>2, <2>2, <2>3 DEF FailureStopEnds
<1>3. ASSUME NEW p \in Parts, ShutdownStops(p) PROVE ProcessInv'
  <2>1. /\ Stopping(p) /\ ~teardown.busy
        /\ missed' = IF parts[p] \in {"none", "starting"} THEN missed \cup {p} ELSE missed
        /\ UNCHANGED <<enabled, main, owner, health, exited, trigger, rejected>>
    BY <1>3 DEF ShutdownStops
  <2>2. CASE parts[p] = "none"
    <3>1. ComesPast /\ UNCHANGED <<parts, child>> /\ missed' = missed \cup {p}
      BY <1>3, <2>1, <2>2 DEF ShutdownStops
    <3> QED
      BY <2>1, <2>2, <3>1, ShutdownComesPast
  <2>3. CASE parts[p] # "none"
    <3>1. StopBegins(p) /\ teardown' = [teardown EXCEPT !.busy = TRUE]
      BY <1>3, <2>3 DEF ShutdownStops
    <3> QED
      BY <2>1, <2>3, <3>1, ShutdownStopsKeeps
  <2> QED
    BY <2>2, <2>3
<1>4. ASSUME NEW p \in Parts, ShutdownStopEnds(p) PROVE ProcessInv'
  <2>1. Stopping(p) /\ teardown.busy /\ UNCHANGED <<enabled, main, child, owner, health, trigger, missed>>
    BY <1>4 DEF ShutdownStopEnds
  <2>2. CASE StopEnds(p) /\ ComesPast /\ UNCHANGED <<exited, rejected>>
    BY <2>1, <2>2, ShutdownStopEndsKeeps
  <2>3. CASE /\ p \in MayReject /\ rejected' = TRUE
             /\ exited' = [code |-> teardown.code, by |-> "shutdown"]
             /\ UNCHANGED <<parts, teardown>>
    BY <2>1, <2>3, ShutdownIsRejected
  <2> QED
    BY <1>4, <2>2, <2>3 DEF ShutdownStopEnds
<1>5. ASSUME Serves PROVE ProcessInv'
  <2>1. /\ Starting("http") /\ health' = IF "compute" \in enabled THEN "waiting" ELSE health
        /\ UNCHANGED <<enabled, teardown, child, owner, exited, historyVars>>
        /\ \/ StartsNext /\ Becomes("http", "up")
           \/ Fails("http") /\ UNCHANGED parts
    BY <1>5 DEF Serves
  <2>2. CASE StartsNext /\ Becomes("http", "up")
    BY <2>1, <2>2, ServesKeeps
  <2>3. CASE Fails("http") /\ UNCHANGED parts
    BY <2>1, <2>3, ServingFails
  <2> QED
    BY <2>1, <2>2, <2>3
<1>6. ASSUME NEW p \in Parts, StartsPart(p) \/ StartedPart(p) \/ StartThrows(p) PROVE ProcessInv'
  BY <1>6, StartsPartKeeps, StartedPartKeeps, StartThrowsKeeps
<1>7. ASSUME ListenerDoesNotBind \/ AddsRoutes \/ MainEnds \/ ChildDies \/ FailureExits \/ ShutdownExits
      PROVE  ProcessInv'
  BY <1>7, ListenerKeeps, AddsRoutesKeeps, MainEndsKeeps, ChildDiesKeeps, FailureExitsKeeps, ShutdownExitsKeeps
<1>8. ASSUME NEW code \in {0, 1}, Triggered(code) PROVE ProcessInv'
  BY <1>8, TriggeredKeeps
<1> QED
  BY <1>1, <1>2, <1>3, <1>4, <1>5, <1>6, <1>7, <1>8 DEF ProcessNext

LEMMA ProcessIsSafe == ProcessInv => ProcessInvariant
<1> SUFFICES ASSUME ProcessInv PROVE ProcessInvariant
  OBVIOUS
<1>1. /\ exited # NoRow /\ exited.by = "failure" => exited.code = 1 /\ main.at = "fails" /\ main.step > 1
      /\ exited # NoRow /\ exited.by = "shutdown" => exited.code = trigger /\ Past(8) /\ (rejected \/ Past(14))
      /\ exited # NoRow => exited.by \in {"failure", "shutdown"}
  BY DEF ProcessInv, ExitIsCaused
<1>2. ChildrenDie
  BY <1>1 DEF ProcessInv, ChildIsKnown, ChildrenDie
<1>3. ASSUME Past(14) \/ At(14), NEW p \in ToStop \ {"store"}
      PROVE  parts[p] \in {"up", "stopping"} => p \in missed
  <2>1. PICK n \in 1 .. 14 : p = StopOrder[n]
    BY StopPlaces DEF ToStop
  <2>2. n # 14
    BY <2>1, StopPlaces
  <2>3. Past(n)
    BY <1>3, <2>1, <2>2, TeardownParts DEF Past, At
  <2> QED
    BY <2>1, <2>3 DEF ProcessInv, PastIsDown
<1>4. Past(14) => (parts["store"] = "up" => "store" \in missed)
  BY StopPlaces DEF ProcessInv, PastIsDown
<1>5. ShutdownIsComplete
  <2>1. ASSUME exited # NoRow, exited.by = "shutdown", ~rejected, NEW p \in ToStop, parts[p] = "up"
        PROVE  p \in missed
    BY <1>1, <1>3, <1>4, <2>1
  <2>2. ASSUME parts["store"] \in {"stopping", "down"}, NEW p \in ToStop \ {"store"},
               parts[p] \in {"up", "stopping"}
        PROVE  p \in missed
    <3>1. Past(14) \/ At(14)
      BY <2>2 DEF ProcessInv, PastIsDown
    <3> QED
      BY <1>3, <2>2, <3>1
  <2> QED
    BY <2>1, <2>2 DEF ShutdownIsComplete
<1>6. CrashIsNotCleanStop
  BY <1>1 DEF CrashIsNotCleanStop
<1>7. OperationsHaveOneOwner
  BY DEF ProcessInv, RoutesAreOwned, OwnerIsKnown, OperationsHaveOneOwner
<1>8. HealthIsTrue
  BY DEF ProcessInv, HealthIsKept, HealthIsTrue
<1> QED
  BY <1>2, <1>5, <1>6, <1>7, <1>8 DEF ProcessInv, ProcessInvariant

(* The process stops as it should: its invariant, of index.ts from main()  *)
(* to process.exit(), holds whatever is enabled, fails or is signalled.    *)
THEOREM ProcessEndsWell == ProcessSpec => []ProcessInvariant
<1>1. ProcessInit => ProcessInv
  BY StartsSound
<1>2. ProcessInv /\ [ProcessNext]_processVars => ProcessInv'
  BY EveryStepKeeps, StutterKeeps
<1>3. ProcessInv => ProcessInvariant
  BY ProcessIsSafe
<1> QED
  BY <1>1, <1>2, <1>3, PTL DEF ProcessSpec

(* The gateway's dispatcher and the process around it (index.ts,           *)
(* service-dispatcher.ts): no request goes past an open breaker, and the   *)
(* process starts and stops as above.                                      *)
THEOREM EmulatorIsSound == ProcessSpec /\ DispatcherSpec => EmulatorHolds
BY ProcessEndsWell, NothingGoesPastABreaker, PTL DEF EmulatorHolds
=========================================================================
