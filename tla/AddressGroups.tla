---------------------------- MODULE AddressGroups ----------------------------
(***************************************************************************)
(* Address groups of Network Security (AddressGroupService), and the         *)
(* lookup the Cloud Armor server makes of them: the groups of the policy's   *)
(* project in location "global", listed anew for each request.  A mutation   *)
(* runs alone for its name (ResourceMutex) and waits for storage only: it    *)
(* is one step.  A request that is refused changes nothing; the done         *)
(* operation each leaves is a row of OperationsStore.                        *)
(***************************************************************************)
EXTENDS Absent, Naturals, Sequences

CONSTANTS
  GroupNames,      (* project and location, as characters, and id            *)
  GlobalLocation,
  TypeOfItem,      (* by list item: IPV4, IPV6, or NoRow when it is neither  *)
  ItemLists,       (* the lists a body may have                              *)
  Capacities,
  Wildcards        (* SQLite: {"_"}; the memory provider: none               *)

GroupTypes == {"IPV4", "IPV6"}
Mutable == {"items", "labels"}
GroupRows == [type : GroupTypes, capacity : Capacities, items : ItemLists]
GroupProjects == {n.project : n \in GroupNames}

(* A body: a field absent is NoRow.  Of labels, purpose and description only *)
(* counts that what normalizeLabels() or normalizePurpose() refuses is "bad".*)
GroupBodies ==
  [type : GroupTypes \cup {NoRow}, capacity : Capacities \cup {NoRow},
   items : ItemLists \cup {NoRow}, labels : {NoRow, "good", "bad"}]

ASSUME GroupAssumption ==
  /\ NoRow \notin GroupRows /\ <<>> \in ItemLists /\ ItemLists \subseteq Seq(DOMAIN TypeOfItem)
  /\ Capacities \subseteq Nat \ {0}
  /\ GlobalLocation \in Seq(STRING)
  /\ \A n \in GroupNames : /\ n.project \in Seq(STRING) /\ n.location \in Seq(STRING)
                           /\ NoRow \notin {n.project, n.location}

VARIABLE groups  (* the rows, by name                                        *)

GroupsInit == groups = [n \in GroupNames |-> NoRow]

(* assertItemsMatchType() and assertItemsWithinCapacity().                   *)
Fit(items, type, capacity) ==
  /\ \A i \in 1 .. Len(items) : TypeOfItem[items[i]] = type
  /\ Len(items) <= capacity

(* normalizeItems(): absent items are none.                                  *)
NormalItems(items) == IF items = NoRow THEN <<>> ELSE items

CreateGroup(name, body) ==
  /\ groups[name] = NoRow
  /\ body.type # NoRow /\ body.capacity # NoRow /\ body.labels # "bad"
  /\ Fit(NormalItems(body.items), body.type, body.capacity)
  /\ groups' = [groups EXCEPT ![name] =
       [type |-> body.type, capacity |-> body.capacity,
        items |-> NormalItems(body.items)]]

(* resolveMaskedFields(): no mask takes the mutable fields of the body.      *)
MaskedFields(body, mask) ==
  IF mask = {} THEN {f \in Mutable : body[f] # NoRow} ELSE mask

(* A mask that names anything but a mutable field is refused; the items that *)
(* result are checked against the type and the capacity of the row.          *)
UpdateGroup(name, body, mask) ==
  /\ groups[name] # NoRow /\ mask \subseteq Mutable
  /\ LET fields == MaskedFields(body, mask)
         row == groups[name]
         items == IF "items" \in fields THEN NormalItems(body.items) ELSE row.items IN
       /\ "labels" \in fields => body.labels # "bad"
       /\ Fit(items, row.type, row.capacity)
       /\ groups' = [groups EXCEPT ![name].items = items]

DeleteGroup(name) ==
  /\ groups[name] # NoRow
  /\ groups' = [groups EXCEPT ![name] = NoRow]

(* LIKE of SQLite: a wildcard is any character, and case does not count.     *)
Folded(c) == IF Wildcards = {} THEN c ELSE CASE c = "A" -> "a" [] c = "B" -> "b" [] OTHER -> c
Like(text, pattern) ==
  /\ Len(text) = Len(pattern)
  /\ \A i \in 1 .. Len(text) : pattern[i] \in Wildcards \/ Folded(text[i]) = Folded(pattern[i])

ListedAnywhere(project) ==  \* mutant: the prefix ends at the project
  {n \in GroupNames : groups[n] # NoRow /\ Like(n.project, project)}

(* listAllByPrefix(): the rows whose name is LIKE the prefix.                *)
ListedGroups(project) ==
  {n \in GroupNames : /\ groups[n] # NoRow
                      /\ Like(n.project, project) /\ Like(n.location, GlobalLocation)}

(* loadAddressGroupLookup(): the items an expression's group has, by its id  *)
(* whatever the project of the row (of two rows of one id the one that sorts *)
(* last, here any); a full name must be of the policy's project, in "global".*)
AskedGroups == GroupNames \cup {[project |-> NoRow, location |-> NoRow, id |-> n.id] : n \in GroupNames}
FoundItems(project, asked) ==
  LET foreign == asked.project # NoRow /\ (asked.project # project \/ asked.location # GlobalLocation)
      rows == {n \in ListedGroups(project) : n.id = asked.id} IN
    IF foreign THEN {} ELSE {groups[n].items : n \in rows}

GroupsNext ==
  \E name \in GroupNames :
    \/ \E body \in GroupBodies :
         \/ CreateGroup(name, body)
         \/ \E mask \in {{}, {"items"}, {"items", "labels"}, {"type"}} : UpdateGroup(name, body, mask)
    \/ DeleteGroup(name)

GroupsSpec == GroupsInit /\ [][GroupsNext]_groups
-----------------------------------------------------------------------------
GroupsTypeOK == groups \in [GroupNames -> GroupRows \cup {NoRow}]

(* However it came about, by which masks and bodies, a group holds addresses *)
(* of its type and no more than its capacity (service.ts updateAddressGroup, *)
(* types.ts assertItemsMatchType and assertItemsWithinCapacity).             *)
ItemsFitTheGroup ==
  \A n \in GroupNames : groups[n] # NoRow => Fit(groups[n].items, groups[n].type, groups[n].capacity)

(* "does not match another project, another location, or a missing group"    *)
(* (address-group-lookup.test.ts line 60): an evaluation finds the group of  *)
(* its own project in "global", with the items it has now, or none.          *)
LookupFindsItsOwn ==
  \A project \in GroupProjects, asked \in AskedGroups :
    FoundItems(project, asked) =
      {groups[n].items : n \in {m \in GroupNames :
         /\ groups[m] # NoRow /\ m.id = asked.id
         /\ m.project = project /\ m.location = GlobalLocation
         /\ asked.project \in {NoRow, project} /\ asked.location \in {NoRow, GlobalLocation}}}

(* Groups keep their shape, and evaluations find their own.                  *)
GroupsInvariant == GroupsTypeOK /\ ItemsFitTheGroup /\ LookupFindsItsOwn
=============================================================================
