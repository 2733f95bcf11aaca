----------------------------- MODULE MCServices -----------------------------
(***************************************************************************)
(* TLC instance of the services that keep rows with the storage below them,  *)
(* and of what decides about a request.  They share no state: a behaviour is *)
(* one of a single service, chosen at the start, and the others stay as they *)
(* begin.                                                                    *)
(***************************************************************************)
EXTENDS Memorystore, CloudStorage, StorageCache, StorageProviders,
        Workflows, AddressGroups, OperationsStore,
        WorkflowExpression, ArmorExpression, ArmorRequest, ArmorPolicy,
        Process, TLC

-----------------------------------------------------------------------------
(* Constants of the services that keep rows, and of the storage below them.  *)
CONSTANTS m1, m2, k1, k2, k3, u1, p1, p2, e1, e2, w1, q1, q2

(* Two instances of Memorystore with the same preferred port.                *)
SamePort == [i \in {m1, m2} |-> 1]
(* The first is changed, the second only created.                            *)
MCInstanceRequests ==
  [what : {"create"}, inst : {m1, m2}]
  \cup [what : {"delete", "addUser", "addToken", "backup"}, inst : {m1}]

(* A copy, and an object composed of one source.                             *)
MCCopySources == {<< <<"b", "o">>, <<"b", "p">> >>, << <<"b", "p">> >>}

(* The second record is large, and the first is once it is updated.         *)
MCMaxVersion == [k \in {k1, k2, k3} |-> IF k = k1 THEN 2 ELSE 1]
Large == {<<k1, 2>>, <<k2, 1>>}
MCBytesOf ==
  [es \in SUBSET (Large \cup {<<k1, 1>>, <<k3, 1>>}) |-> Cardinality(es) + Cardinality(es \cap Large)]
MCFiltered == {{k1, k2}}

(* The calls in flight, whatever they are calls of, may change places.       *)
Symmetry == Permutations({q1, q2})

(* Releases of an application: columns added, dropped, made required.        *)
Declares(cs, required) == [x \in cs |-> IF x \in required THEN Required ELSE Nullable]
MCSchemas == <<Declares({"a", "c"}, {"a", "c"}), Declares({"a", "b", "c"}, {"a", "c"}),
               Declares({"b", "c"}, {"b"}), Declares({"a", "d"}, {"a", "d"})>>

(* Names one of which begins another, and what a list call asks for.         *)
MCRowNames == << <<"a">>, <<"a", "x">>, <<"b">> >>
MCListPrefixes == {<<"a">>, <<"a", "x">>}

N(project, location) == [project |-> project, location |-> location, id |-> "bad"]
MCGroupNames == {N(<<"a">>, <<"g">>), N(<<"b">>, <<"g">>), N(<<"a">>, <<"l">>)}
(* What SQLite's LIKE does not tell from "a".                                *)
LikelyGroupNames == {N(<<"a">>, <<"g">>), N(<<"_">>, <<"g">>)}
Global == <<"g">>
MCTypeOfItem == ("4" :> "IPV4") @@ ("6" :> "IPV6") @@ ("x" :> NoRow)
MCItemLists == {<<>>, <<"4">>, <<"6">>, <<"4", "4">>, <<"x">>}
-----------------------------------------------------------------------------
(* Constants of what decides about a request.                               *)

CONSTANTS d1, d2

(* Texts of JSON values, as sequences of characters.                         *)
MCValueTexts ==
  {<<Quote, "a", Quote>>, <<Quote, Backslash, Quote, "}", Quote>>,
   <<Quote, Backslash, "u", "0", "0", "2", "2", Quote>>, <<"1", "2">>,
   <<"-", "1", ".", "5", "e", "1">>, <<"0">>, <<"t", "r", "u", "e">>, <<"n", "u", "l", "l">>,
   <<"[", "{", Quote, "]", Quote, ":", "1", "}", "]">>}

(* Rules of Cloud Armor: the default, a throttle, a ban in preview, a ban.   *)
RuleBody(action, preview, count, banCount) ==
  [action |-> action, clients |-> Clients, preview |-> preview, count |-> count, interval |-> 2,
   banCount |-> banCount, banFor |-> IF action = "rate_based_ban" THEN 2 ELSE 0]
Throttle == RuleBody("throttle", FALSE, 1, 0)
MCRuleBodies ==
  {DefaultBody, Throttle, RuleBody("rate_based_ban", TRUE, 1, 0), RuleBody("rate_based_ban", FALSE, 1, 2)}
(* Rules brought with a policy, two of one priority among them.              *)
MCRuleLists ==
  {{}} \cup {{[priority |-> 1, body |-> b] : b \in bodies} :
               bodies \in SUBSET {Throttle, DefaultBody} \ {{}}}

(* Routes: a static segment, a parameter, a parameter with a verb.           *)
Static(name, size) == [kind |-> "static", name |-> name, suffix |-> "", size |-> size]
Param(size) == [kind |-> "param", name |-> "p", suffix |-> "", size |-> size]
Verb(size, suffix) == [kind |-> "param", name |-> "p", suffix |-> suffix, size |-> size]
MCRoutePatterns ==
  {<<Static("schemas", 7), Param(7)>>, <<Static("schemas", 7), Param(9)>>,
   <<Static("schemas", 7), Verb(14, ":commit")>>, <<Static("schemas", 7), Verb(16, ":rollback")>>,
   <<Param(7), Static("schemas", 7)>>, <<Param(8), Param(7)>>, <<Static("schemas", 7)>>}
Word(name, suffix) == [name |-> name, suffix |-> suffix]
MCRequestPaths ==
  {<<Word(a, s)>> : a \in {"schemas", "x"}, s \in {"", ":commit"}}
  \cup {<<Word(a, ""), Word(b, s)>> : a \in {"schemas", "x"}, b \in {"schemas", "x"}, s \in {"", ":commit"}}
-----------------------------------------------------------------------------
(* Rule expressions: single values, one operation over them, and two.        *)
Id(name) == Node("ident", name, <<>>)
Str(text) == Node("str", text, <<>>)
Nm(text) == Node("num", text, <<>>)
Member(object, name) == Node("member", name, <<object>>)
CallOf(name, args) == Node("call", "", <<Id(name)>> \o args)
Method(object, name, args) == Node("call", "", <<Member(object, name)>> \o args)
AtomTrees ==
  {Node("bool", "true", <<>>), Str("GET"), Str("1"), Nm("0"), Id("other"),
   Member(Id("request"), "method"), Member(Id("request"), "body"), Member(Id("request"), "nothing"),
   Member(Id("origin"), "ip"), Member(Id("origin"), "nothing"),
   Member(Id("request"), "query"), Node("index", "", <<Id("request"), Str("body")>>),
   Member(Member(Id("request"), "headers"), "host"), Member(Member(Id("request"), "headers"), "none"),
   Member(Member(Id("request"), "params"), "q")}
WafOptions ==
  {<<>>, <<Node("map", "sensitivity", <<Nm("0")>>)>>, <<Node("map", "sensitivity", <<Nm("1")>>)>>,
   <<Node("map", "unknown", <<Nm("1")>>)>>,
   <<Node("map", "opt_in_rule_ids", <<Node("list", "", <<Str("s1")>>)>>)>>,
   <<Node("map", "opt_out_rule_ids", <<Node("list", "", <<Str("s1")>>)>>)>>}
WafCalls ==
  {CallOf("evaluatePreconfiguredWaf", <<Str(set)>> \o options) :
     set \in {"r", "other"}, options \in WafOptions}
Unaries(trees) == {Node("unary", op, <<t>>) : op \in {"!", "-"}, t \in trees}
Binaries(ls, rs) == {Node("binary", op, <<l, r>>) : op \in {"||", "&&", "==", "<", "+"}, l \in ls, r \in rs}
Accesses(objects, keys) == {Node("index", "", <<o, k>>) : o \in objects, k \in keys}
CallsOver(trees) ==
  {CallOf(f, <<t>>) : f \in {"has", "int", "size", "unknown", "evaluateThreatIntelligence"}, t \in trees}
  \cup {Method(t, "lower", <<>>) : t \in trees}
  \cup {Method(t, m, <<Str("GET")>>) : t \in trees, m \in {"contains", "matches"}}
  \cup {Node("list", "", <<t, Nm("0")>>) : t \in trees} \cup {Member(t, "host") : t \in trees}
OneStep == Unaries(AtomTrees) \cup Binaries(AtomTrees, AtomTrees) \cup CallsOver(AtomTrees)
          \cup Accesses(AtomTrees \cup {Id("request")}, AtomTrees) \cup WafCalls
FewValues == {Str("GET"), Nm("0"), Member(Id("request"), "method")}
TwoValues == {Str("GET"), Nm("0")}
Operators == Binaries(TwoValues, TwoValues) \cup Unaries(TwoValues)
Compared == Binaries(FewValues, {Member(Id("request"), "method")})
AllTrees == AtomTrees \cup OneStep \cup Binaries(Operators, Operators) \cup Unaries(Operators)
   \cup CallsOver(Operators) \cup CallsOver(CallsOver(FewValues \cup {Member(Id("request"), "body")}))
   \cup Binaries(CallsOver(FewValues), Compared)

(* The second dispatch is of a session.                                      *)
MCSessionOf == (d1 :> NoRow) @@ (d2 :> "x")
-----------------------------------------------------------------------------

VARIABLE service

(* Services of which the process starts some: with one store of operations,  *)
(* with two, with a data plane whose stop may reject, with none.             *)
MCConfigurations ==
  {{"memorystore", "workflows", "pubsub"}, {"compute"}, {"memorystore", "alloydb", "scheduler"},
   {"cloudsql"}, {}}

Init ==
  /\ service \in {"memorystore", "acl", "storage", "cache", "schema", "workflows",
                   "groups", "operations", "expression", "rule", "address", "body", "policy", "router",
                   "dispatcher", "providers", "process"}
  /\ MemoryInit /\ AclInit /\ CloudStorageInit
  /\ StorageInit /\ SqliteInit /\ WorkflowsInit /\ GroupsInit /\ OperationsInit
  /\ ArmorExpressionInit /\ AddressInit /\ ArmorBodyInit /\ ArmorInit /\ RouterInit
  /\ DispatcherInit /\ ProvidersInit /\ ProcessInit
  /\ \/ service = "expression" /\ ExpressionInit
     \/ /\ service # "expression"
        /\ tree = NoRow /\ wrap = 0 /\ trailing = <<>> /\ evaluated = <<>>
  /\ service # "memorystore" => foreignPorts = {}
  /\ service # "dispatcher" => registered = {}
  /\ service # "process" => enabled = {}

MemorystoreMoves ==
  /\ service = "memorystore" /\ MemoryNext
  /\ UNCHANGED <<service, processVars, providerVars, aclVars, cloudStorageVars,
                 storageVars, sqliteVars, workflowVars, groups, operationsVars,
                 expressionVars, assessment, address, inspection, armorVars, routerVars,
                 dispatcherVars>>

AclPoliciesMoves ==
  /\ service = "acl" /\ AclNext
  /\ UNCHANGED <<service, processVars, providerVars, memoryVars, cloudStorageVars,
                 storageVars, sqliteVars, workflowVars, groups, operationsVars,
                 expressionVars, assessment, address, inspection, armorVars, routerVars,
                 dispatcherVars>>

CloudStorageMoves ==
  /\ service = "storage" /\ CloudStorageNext
  /\ UNCHANGED <<service, processVars, providerVars, memoryVars, aclVars, storageVars,
                 sqliteVars, workflowVars, groups, operationsVars, expressionVars,
                 assessment, address, inspection, armorVars, routerVars, dispatcherVars>>

StorageCacheMoves ==
  /\ service = "cache" /\ StorageNext
  /\ UNCHANGED <<service, processVars, providerVars, memoryVars, aclVars,
                 cloudStorageVars, sqliteVars, workflowVars, groups, operationsVars,
                 expressionVars, assessment, address, inspection, armorVars, routerVars,
                 dispatcherVars>>

SqliteSchemaMoves ==
  /\ service = "schema" /\ SqliteNext
  /\ UNCHANGED <<service, processVars, providerVars, memoryVars, aclVars,
                 cloudStorageVars, storageVars, workflowVars, groups, operationsVars,
                 expressionVars, assessment, address, inspection, armorVars, routerVars,
                 dispatcherVars>>

WorkflowsMoves ==
  /\ service = "workflows" /\ WorkflowsNext
  /\ UNCHANGED <<service, processVars, providerVars, memoryVars, aclVars,
                 cloudStorageVars, storageVars, sqliteVars, groups, operationsVars,
                 expressionVars, assessment, address, inspection, armorVars, routerVars,
                 dispatcherVars>>

AddressGroupsMoves ==
  /\ service = "groups" /\ GroupsNext
  /\ UNCHANGED <<service, processVars, providerVars, memoryVars, aclVars,
                 cloudStorageVars, storageVars, sqliteVars, workflowVars,
                 operationsVars, expressionVars, assessment, address, inspection,
                 armorVars, routerVars, dispatcherVars>>

OperationsStoreMoves ==
  /\ service = "operations" /\ OperationsNext
  /\ UNCHANGED <<service, processVars, providerVars, memoryVars, aclVars,
                 cloudStorageVars, storageVars, sqliteVars, workflowVars, groups,
                 expressionVars, assessment, address, inspection, armorVars, routerVars,
                 dispatcherVars>>

WorkflowExpressionMoves ==
  /\ service = "expression" /\ ExpressionNext
  /\ UNCHANGED <<service, processVars, providerVars, memoryVars, aclVars,
                 cloudStorageVars, storageVars, sqliteVars, workflowVars, groups,
                 operationsVars, assessment, address, inspection, armorVars, routerVars,
                 dispatcherVars>>

ArmorExpressionMoves ==
  /\ service = "rule" /\ ArmorExpressionNext
  /\ UNCHANGED <<service, processVars, providerVars, memoryVars, aclVars,
                 cloudStorageVars, storageVars, sqliteVars, workflowVars, groups,
                 operationsVars, expressionVars, address, inspection, armorVars,
                 routerVars, dispatcherVars>>

ArmorAddressMoves ==
  /\ service = "address" /\ AddressNext
  /\ UNCHANGED <<service, processVars, providerVars, memoryVars, aclVars,
                 cloudStorageVars, storageVars, sqliteVars, workflowVars, groups,
                 operationsVars, expressionVars, assessment, inspection, armorVars,
                 routerVars, dispatcherVars>>

ArmorBodyMoves ==
  /\ service = "body" /\ ArmorBodyNext
  /\ UNCHANGED <<service, processVars, providerVars, memoryVars, aclVars,
                 cloudStorageVars, storageVars, sqliteVars, workflowVars, groups,
                 operationsVars, expressionVars, assessment, address, armorVars,
                 routerVars, dispatcherVars>>

ArmorPolicyMoves ==
  /\ service = "policy" /\ ArmorNext
  /\ UNCHANGED <<service, processVars, providerVars, memoryVars, aclVars,
                 cloudStorageVars, storageVars, sqliteVars, workflowVars, groups,
                 operationsVars, expressionVars, assessment, address, inspection,
                 routerVars, dispatcherVars>>

RequestRouterMoves ==
  /\ service = "router" /\ RouterNext
  /\ UNCHANGED <<service, processVars, providerVars, memoryVars, aclVars,
                 cloudStorageVars, storageVars, sqliteVars, workflowVars, groups,
                 operationsVars, expressionVars, assessment, address, inspection,
                 armorVars, dispatcherVars>>

DispatcherMoves ==
  /\ service = "dispatcher" /\ DispatcherNext
  /\ UNCHANGED <<service, processVars, providerVars, memoryVars, aclVars,
                 cloudStorageVars, storageVars, sqliteVars, workflowVars, groups,
                 operationsVars, expressionVars, assessment, address, inspection,
                 armorVars, routerVars>>

ProvidersMoves ==
  /\ service = "providers" /\ ProvidersNext
  /\ UNCHANGED <<service, processVars, memoryVars, aclVars,
                 cloudStorageVars, storageVars, sqliteVars, workflowVars, groups,
                 operationsVars, expressionVars, assessment, address, inspection,
                 armorVars, routerVars, dispatcherVars>>

ProcessMoves ==
  /\ service = "process" /\ ProcessNext
  /\ UNCHANGED <<service, providerVars, memoryVars, aclVars, cloudStorageVars, storageVars,
                 sqliteVars, workflowVars, groups, operationsVars, expressionVars, assessment,
                 address, inspection, armorVars, routerVars, dispatcherVars>>

Next ==
  \/ MemorystoreMoves
  \/ AclPoliciesMoves
  \/ CloudStorageMoves
  \/ StorageCacheMoves
  \/ SqliteSchemaMoves
  \/ WorkflowsMoves
  \/ AddressGroupsMoves
  \/ OperationsStoreMoves
  \/ WorkflowExpressionMoves
  \/ ArmorExpressionMoves
  \/ ArmorAddressMoves
  \/ ArmorBodyMoves
  \/ ArmorPolicyMoves
  \/ RequestRouterMoves
  \/ DispatcherMoves
  \/ ProvidersMoves
  \/ ProcessMoves

vars == <<service, processVars, providerVars, memoryVars, aclVars,
          cloudStorageVars, storageVars, sqliteVars, workflowVars, groups,
          operationsVars, expressionVars, assessment, address, inspection, armorVars,
          routerVars, dispatcherVars>>
Spec == Init /\ [][Next]_vars

(* Every part holds in its own behaviours; in those of the others it stays   *)
(* as it began.                                                              *)

(* What reads a text or a filter reads it as it is meant: the two providers  *)
(* answer a query alike, the router finds the route of a path, expressions   *)
(* of workflows and of rules are parsed as they were printed, and Cloud      *)
(* Armor matches addresses and bodies.                                       *)
ReadersAgree ==
  /\ service = "providers" => ProvidersInvariant
  /\ service = "router" => RouterInvariant
  /\ service = "expression" => ParsedAsPrinted
  /\ service = "rule" => ExpressionInvariant
  /\ service = "address" => AddressInvariant
  /\ service = "body" => WindowShowsWholeMembers
=============================================================================
