----------------------------- MODULE ArmorPolicy ----------------------------
(***************************************************************************)
(* Compute security policies (SecurityPolicyService) and the local Cloud     *)
(* Armor listener that evaluates requests against them: the walk over the    *)
(* rules (evaluate()) and the counters and bans of rate limiting.  Requests  *)
(* wait for storage only, under the mutex of their policy, so each is one    *)
(* step.  Which requests a rule's match selects is left to `clients`; the    *)
(* rows of finished operations and the policy's other fields are left out.   *)
(***************************************************************************)
EXTENDS Absent, Naturals, FiniteSets

CONSTANTS
  ArmorPolicies, Clients,
  Priorities,         (* of rules; DefaultPriority is the largest            *)
  DefaultPriority,    (* DEFAULT_RULE_PRIORITY                               *)
  RuleBodies,         (* what rules may say                                  *)
  RuleLists,          (* the rules that insert and patch bring               *)
  DefaultPolicy,      (* COMPUTE_ARMOR_DEFAULT_POLICY, or NoRow              *)
  ArmorHorizon,       (* bound: ticks of the clock                           *)
  MaxCounted          (* bound: requests counted in one window               *)

(* An action ("deny": any status); the requests the match selects; the rate  *)
(* limit: `count` requests in `interval` ticks, a ban of `banFor` ticks past *)
(* `banCount` of them (0: past the rate limit itself).                       *)
RuleFields ==
  [action : {"allow", "deny", "throttle", "rate_based_ban"}, clients : SUBSET Clients,
   preview : BOOLEAN, count : Nat, interval : Nat \ {0}, banCount : Nat, banFor : Nat]

PolicyRules == [priority : Priorities, body : RuleBodies]

DefaultBody ==
  [action |-> "allow", clients |-> Clients, preview |-> FALSE,
   count |-> 0, interval |-> 1, banCount |-> 0, banFor |-> 0]

ASSUME ArmorAssumption ==
  /\ Priorities \subseteq Nat /\ DefaultPriority \in Priorities
  /\ \A p \in Priorities : p <= DefaultPriority
  /\ RuleBodies \subseteq RuleFields /\ DefaultBody \in RuleBodies
  /\ RuleLists \subseteq SUBSET PolicyRules
  /\ DefaultPolicy \in ArmorPolicies \cup {NoRow} /\ NoRow \notin ArmorPolicies
  /\ ArmorHorizon \in Nat /\ MaxCounted \in Nat

RateKeys == ArmorPolicies \X Priorities \X Clients
Windows == [window : 0 .. ArmorHorizon, count : 0 .. MaxCounted]

VARIABLES
  armorRules,    (* by policy: its rules, NoRow without a row                *)
  rateWindows,   (* the counts of a window, kept when rules and policies go  *)
  banWindows,
  bans,          (* until when a client is banned, 0 when it never was       *)
  armorNow,
  passed,        (* history: what a rule let through in a window, since the  *)
                 (* rule is what it is                                       *)
  enforcedBans   (* history: <<policy, priority>> of the bans ever enforced  *)
counters == <<rateWindows, banWindows, bans>>
armorVars == <<armorRules, counters, armorNow, passed, enforcedBans>>

NoWindow == [window |-> 0, count |-> 0]

ArmorInit ==
  /\ armorRules = [p \in ArmorPolicies |-> NoRow]
  /\ rateWindows = [k \in RateKeys |-> NoWindow]
  /\ banWindows = [k \in RateKeys |-> NoWindow]
  /\ bans = [k \in RateKeys |-> 0]
  /\ armorNow = 0
  /\ passed = [k \in RateKeys |-> NoWindow]
  /\ enforcedBans = {}

OnePerPriority(rules) ==
  \A r1, r2 \in rules : r1.priority = r2.priority => r1 = r2

RuleAt(rules, priority) == {r \in rules : r.priority = priority}

(* validateAndNormalizeRules(): the default rule is added when none is there.*)
Normalized(rules) ==
  IF RuleAt(rules, DefaultPriority) # {} THEN rules
  ELSE rules \cup {[priority |-> DefaultPriority, body |-> DefaultBody]}

Writes(p, rules) ==
  /\ armorRules' = [armorRules EXCEPT ![p] = rules]
  /\ passed' = [k \in RateKeys |->
       IF k[1] = p /\ (rules = NoRow \/ armorRules[p] = NoRow
                        \/ RuleAt(rules, k[2]) # RuleAt(armorRules[p], k[2]))
         THEN NoWindow ELSE passed[k]]
  /\ UNCHANGED <<counters, armorNow, enforcedBans>>

InsertPolicy(p, rules) ==
  /\ armorRules[p] = NoRow /\ OnePerPriority(rules)
  /\ Writes(p, Normalized(rules))

(* patch(): unlike patchRule() it asks nothing of the rules it replaces.     *)
PatchPolicy(p, rules) ==
  /\ armorRules[p] # NoRow /\ OnePerPriority(rules)
  /\ Writes(p, Normalized(rules))

DeletePolicy(p) == armorRules[p] # NoRow /\ Writes(p, NoRow)

AddRule(p, rule) ==
  /\ armorRules[p] # NoRow /\ RuleAt(armorRules[p], rule.priority) = {}
  /\ Writes(p, armorRules[p] \cup {rule})

RemoveRule(p, priority) ==
  /\ priority # DefaultPriority
  /\ armorRules[p] # NoRow /\ RuleAt(armorRules[p], priority) # {}
  /\ Writes(p, armorRules[p] \ RuleAt(armorRules[p], priority))

(* assertRateLimitActionTransition().                                        *)
MayBecome(old, new) ==
  \A r \in old : ~(r.body.action = "rate_based_ban" /\ new.body.action = "throttle")

(* patchRule(): the body may bring another priority, the default's included. *)
PatchRule(p, priority, rule) ==
  /\ armorRules[p] # NoRow /\ RuleAt(armorRules[p], priority) # {}
  /\ MayBecome(RuleAt(armorRules[p], priority), rule)
  /\ rule.priority # priority => RuleAt(armorRules[p], rule.priority) = {}
  /\ Writes(p, (armorRules[p] \ RuleAt(armorRules[p], priority)) \cup {rule})

-----------------------------------------------------------------------------
WindowOf(interval) == armorNow \div interval

(* nextCount(): a window that is not the current one counts from 1 again.    *)
NextCountBehind(store, key, window) ==  \* mutant: what was counted, not what is asked for
  IF store[key].window = window THEN store[key].count ELSE 0

NextCount(store, key, window) ==
  IF store[key].window = window THEN store[key].count + 1 ELSE 1

Bumped(store, key, window) ==
  [store EXCEPT ![key] = [window |-> window, count |-> NextCount(store, key, window)]]

IsBanned(key) == bans[key] > armorNow

OverLimit(key, body) == NextCount(rateWindows, key, WindowOf(body.interval)) > body.count

WouldBan(key, body) ==
  /\ body.action = "rate_based_ban"
  /\ IF body.banCount > 0
       THEN NextCount(banWindows, key, WindowOf(body.interval)) > body.banCount
       ELSE OverLimit(key, body)

RateLimits(body) == body.action \in {"throttle", "rate_based_ban"}

Outcome(key, body) ==
  CASE ~RateLimits(body) -> IF body.action = "allow" THEN "ALLOW" ELSE "DENY"
    [] RateLimits(body) ->
         IF IsBanned(key) \/ WouldBan(key, body) \/ OverLimit(key, body) THEN "DENY" ELSE "ALLOW"

(* evaluate(): matching rules by priority up to the first that is not a      *)
(* preview; those in preview count as well, but ban nobody.                  *)
Matching(p, client) == {r \in armorRules[p] : client \in r.body.clients}

EnforcedRule(p, client) ==
  {r \in Matching(p, client) : ~r.body.preview /\
     \A other \in Matching(p, client) : ~other.body.preview => r.priority <= other.priority}

Evaluated(p, client) ==
  {r \in Matching(p, client) : \A e \in EnforcedRule(p, client) : r.priority <= e.priority}

(* selectPolicy(): the default, or the only one there is; otherwise 503.     *)
Selected ==
  {p \in ArmorPolicies : armorRules[p] # NoRow /\
     IF DefaultPolicy # NoRow THEN p = DefaultPolicy
     ELSE \A other \in ArmorPolicies : armorRules[other] # NoRow => other = p}

(* applyRateLimit() for every rule evaluated.                                *)
CountsOf(p, client) ==
  {<<<<p, r.priority, client>>, r.body>> :
     r \in {x \in Evaluated(p, client) : RateLimits(x.body)}}

Bans(p, client) ==
  {c \in CountsOf(p, client) : ~IsBanned(c[1]) /\ WouldBan(c[1], c[2]) /\ ~c[2].preview}

RequestArrives(client) ==
  \E p \in Selected :
    LET counted == {c \in CountsOf(p, client) : ~IsBanned(c[1])}
        body(k) == (CHOOSE c \in counted : c[1] = k)[2]
        keys == {c[1] : c \in counted} IN
    /\ \A c \in counted : \A store \in {rateWindows, banWindows} :
         NextCount(store, c[1], WindowOf(c[2].interval)) <= MaxCounted
    /\ rateWindows' = [k \in RateKeys |->
         IF k \in keys THEN Bumped(rateWindows, k, WindowOf(body(k).interval))[k]
                       ELSE rateWindows[k]]
    /\ banWindows' = [k \in RateKeys |->
         IF k \in keys /\ body(k).action = "rate_based_ban" /\ body(k).banCount > 0
           THEN Bumped(banWindows, k, WindowOf(body(k).interval))[k] ELSE banWindows[k]]
    /\ bans' = [k \in RateKeys |->
         IF k \in {c[1] : c \in Bans(p, client)} THEN armorNow + body(k).banFor ELSE bans[k]]
    /\ passed' = [k \in RateKeys |->
         IF \E r \in EnforcedRule(p, client) :
              /\ RateLimits(r.body) /\ k = <<p, r.priority, client>>
              /\ Outcome(k, r.body) = "ALLOW"
           THEN [window |-> WindowOf(body(k).interval),
                 count |-> IF passed[k].window = WindowOf(body(k).interval)
                             THEN passed[k].count + 1 ELSE 1]
           ELSE passed[k]]
    /\ enforcedBans' = enforcedBans \cup
         {<<p, r.priority>> : r \in {e \in EnforcedRule(p, client) :
                                       e.body.action = "rate_based_ban"}}
    /\ UNCHANGED <<armorRules, armorNow>>

ArmorClockTicks ==
  /\ armorNow < ArmorHorizon
  /\ armorNow' = armorNow + 1
  /\ UNCHANGED <<armorRules, counters, passed, enforcedBans>>

(* The counters are the process's, the policies are stored.                  *)
ArmorRestarts ==
  /\ rateWindows' = [k \in RateKeys |-> NoWindow]
  /\ banWindows' = [k \in RateKeys |-> NoWindow]
  /\ bans' = [k \in RateKeys |-> 0]
  /\ passed' = [k \in RateKeys |-> NoWindow]
  /\ enforcedBans' = {}
  /\ UNCHANGED <<armorRules, armorNow>>

ArmorNext ==
  \/ \E p \in ArmorPolicies :
       \/ DeletePolicy(p)
       \/ \E rules \in RuleLists : InsertPolicy(p, rules) \/ PatchPolicy(p, rules)
       \/ \E rule \in PolicyRules : AddRule(p, rule)
       \/ \E priority \in Priorities :
            \/ RemoveRule(p, priority)
            \/ \E rule \in PolicyRules : PatchRule(p, priority, rule)
  \/ \E client \in Clients : RequestArrives(client)
  \/ ArmorClockTicks
  \/ ArmorRestarts

ArmorSpec == ArmorInit /\ [][ArmorNext]_armorVars

-----------------------------------------------------------------------------
ArmorTypeOK ==
  /\ \A p \in ArmorPolicies : armorRules[p] = NoRow \/ armorRules[p] \subseteq PolicyRules
  /\ \A store \in {rateWindows, banWindows, passed} : \A k \in RateKeys : store[k] \in Windows
  /\ bans \in [RateKeys -> Nat] /\ armorNow \in 0 .. ArmorHorizon
  /\ enforcedBans \subseteq ArmorPolicies \X Priorities

(* The walk takes the first rule of a priority and the counters are kept by  *)
(* priority: "Two rules cannot share priority" (service.ts lines 480 and     *)
(* 640) however rules are brought, added, moved and patched.                 *)
PrioritiesAreUnique ==
  \A p \in ArmorPolicies : armorRules[p] # NoRow => OnePerPriority(armorRules[p])

(* A rule that stays what it is lets `count` requests of a client through in *)
(* a window at the most, whatever it counted before it was patched, deleted  *)
(* and made again, or enforced after a preview ("Counts are exact and        *)
(* single-process", rate-limit.ts line 4).                                   *)
ThrottleHolds ==
  \A p \in ArmorPolicies : armorRules[p] # NoRow =>
    \A r \in {x \in armorRules[p] : RateLimits(x.body)} : \A client \in Clients :
      passed[<<p, r.priority, client>>].count <= r.body.count

(* A rule that was only ever a preview has banned nobody, although preview   *)
(* and enforcement share their counters (rate-limit.ts line 212).            *)
PreviewBansNobody ==
  \A k \in RateKeys : bans[k] > 0 => <<k[1], k[2]>> \in enforcedBans

(* "Cannot delete the default rule" (service.ts line 362): a policy always   *)
(* says what becomes of requests no other rule selects.  patchRule() moves   *)
(* it to another priority.                                                   *)
DefaultRuleStays ==
  \A p \in ArmorPolicies :
    armorRules[p] # NoRow => RuleAt(armorRules[p], DefaultPriority) # {}

(* Rules, counters and bans of Cloud Armor agree.                            *)
ArmorInvariant == ArmorTypeOK /\ PrioritiesAreUnique /\ ThrottleHolds /\ PreviewBansNobody
=============================================================================
