------------------------------ MODULE Gateway -------------------------------
(***************************************************************************)
(* The gateway (core/gateway): the router, which finds the route of a        *)
(* request, and the dispatcher, which sends one to an instance of a service. *)
(* They share no state.                                                      *)
(***************************************************************************)
EXTENDS Absent, Naturals, FiniteSets, Sequences, SequencesExt

(***************************************************************************)
(* The router all HTTP services share (core/gateway/request-router.ts):      *)
(* the routes of one method, registered, removed and cleared in any order,   *)
(* and which of those that match a path answers it.  A path is a sequence    *)
(* of segments; a segment of a request is a word and what follows its last   *)
(* colon.  Every word of a route is written as `:name`, with or without a    *)
(* literal suffix, or is literal: no service uses "{}" or wildcards.         *)
(***************************************************************************)

CONSTANTS
  RouteIds,
  RoutePatterns,   (* the paths that may be registered                       *)
  RequestPaths     (* the paths that are asked for                           *)

(* A segment is `size` characters long, with its colon and its suffix.       *)
Segments ==
  [kind : {"static", "param"}, name : STRING, suffix : STRING, size : Nat]

ASSUME RouterAssumption ==
  /\ \A path \in RoutePatterns : \A n \in DOMAIN path :
       DOMAIN path[n] = {"kind", "name", "suffix", "size"} /\ path[n].size \in Nat
  /\ NoRow \notin RouteIds

VARIABLES
  routes,      (* methodRoutes: <<id, path>> in the order of registration    *)
  routeOfKey,  (* routeIdsByPathKey                                          *)
  answered     (* the last request: what matched, and what answered          *)

routerVars == <<routes, routeOfKey, answered>>

RouterInit == routes = <<>> /\ routeOfKey = << >> /\ answered = NoRow

(* pathKey(): the path without the names of its parameters                   *)
PathKey(path) ==
  [n \in DOMAIN path |->
     <<path[n].kind, IF path[n].kind = "static" THEN path[n].name ELSE "", path[n].suffix>>]

RouteNamed(id) == SelectSeq(routes, LAMBDA route : route.id = id)

AddRoute(id, path) ==
  /\ RouteNamed(id) = <<>>
  /\ PathKey(path) \notin DOMAIN routeOfKey
  /\ routes' = Append(routes, [id |-> id, path |-> path])
  /\ routeOfKey' = [key \in DOMAIN routeOfKey \cup {PathKey(path)} |->
                      IF key = PathKey(path) THEN id ELSE routeOfKey[key]]
  /\ UNCHANGED answered

RemoveRoute(id) ==
  /\ RouteNamed(id) # <<>>
  /\ routes' = SelectSeq(routes, LAMBDA route : route.id # id)
  /\ LET key == PathKey(RouteNamed(id)[1].path) IN
     routeOfKey' = [k \in DOMAIN routeOfKey \ {key} |-> routeOfKey[k]]
  /\ UNCHANGED answered

ClearRoutes == routes' = <<>> /\ routeOfKey' = << >> /\ UNCHANGED answered

(* pathToRegex(): a parameter takes a whole segment, one with a suffix only  *)
(* what ends in it.                                                          *)
SegmentMatches(segment, word) ==
  CASE segment.kind = "static" -> segment.name = word.name /\ segment.suffix = word.suffix
    [] segment.kind = "param" -> segment.suffix \in {"", word.suffix}

PathMatches(path, words) ==
  Len(path) = Len(words) /\ \A n \in DOMAIN path : SegmentMatches(path[n], words[n])

StaticSegments(path) == Cardinality({n \in DOMAIN path : path[n].kind = "static"})
PathLength(path) == FoldLeft(LAMBDA sum, segment : sum + segment.size + 1, 0, path)

(* matchPath(): (static / total) * 100 + length * 0.01, times 100 * total,   *)
(* where the empty segment before the first slash is static.  Paths that     *)
(* match one request have the same total.                                    *)
Score(path) == 10000 * (StaticSegments(path) + 1) + PathLength(path) * (Len(path) + 1)

Matches(words) == SelectSeq(routes, LAMBDA route : PathMatches(route.path, words))

(* findRoute(): the best score, of equal ones the first registered.          *)
FindRoute(words) ==
  FoldLeft(LAMBDA best, route :
             IF best = NoRow THEN route
             ELSE IF Score(route.path) > Score(best.path) THEN route ELSE best,
           NoRow, Matches(words))

Route(words) ==
  /\ answered' = [matched |-> {route.path : route \in Range(Matches(words))}, found |-> FindRoute(words)]
  /\ UNCHANGED <<routes, routeOfKey>>

RouterNext ==
  \/ \E id \in RouteIds : RemoveRoute(id) \/ \E path \in RoutePatterns : AddRoute(id, path)
  \/ ClearRoutes
  \/ \E words \in RequestPaths : Route(words)

RouterSpec == RouterInit /\ [][RouterNext]_routerVars

-----------------------------------------------------------------------------
(* The index that refuses a path twice knows the routes that are registered, *)
(* each under the shape of its path, after any adding, removing and clearing:*)
(* what was removed can be registered again, and no two routes of one shape  *)
(* ever stand side by side, where the first would hide the second.           *)
KeysAreTheRoutes ==
  /\ \A id \in RouteIds : Len(RouteNamed(id)) <= 1
  /\ \A m, n \in DOMAIN routes : PathKey(routes[m].path) = PathKey(routes[n].path) => m = n
  /\ DOMAIN routeOfKey = {PathKey(route.path) : route \in Range(routes)}
  /\ \A route \in Range(routes) : routeOfKey[PathKey(route.path)] = route.id

(* A segment that takes less than another                                    *)
AtLeastAsSpecific(one, other) ==
  \A n \in DOMAIN one :
    \/ one[n].kind = "static" /\ other[n].kind = "param"
    \/ one[n].kind = other[n].kind /\ (one[n].suffix = other[n].suffix \/ other[n].suffix = "")

(* "Exact matches score higher than parameterized matches", and of the rest  *)
(* the literal suffix ":schema:listRevisions" beats ":schema" (lines 680 to  *)
(* 688): no route answers what a more specific one also matches, in whatever *)
(* order the services registered them.                                       *)
MostSpecificAnswers ==
  answered # NoRow /\ answered.found # NoRow =>
    \A path \in answered.matched :
      AtLeastAsSpecific(path, answered.found.path) => PathKey(path) = PathKey(answered.found.path)

(* The table of routes, and the route a path is given.                       *)
RouterInvariant == KeysAreTheRoutes /\ MostSpecificAnswers
-----------------------------------------------------------------------------
(***************************************************************************)
(* Dispatching requests to the instances of a service                        *)
(* (core/gateway/service-dispatcher.ts): discovery filtered by health and    *)
(* by circuit breaker, retries, sticky sessions.  The code runs from one     *)
(* await to the next: the answer of a fetch and the end of a delay.          *)
(* setCircuitBreakerState(), for tests, is left out.                         *)
(*                                                                           *)
(* failures and totalRequests are only compared with failureThreshold and    *)
(* minimumThroughput, so they stop counting there.  Every strategy of the    *)
(* load balancer chooses one of the endpoints it is given.                   *)
(***************************************************************************)

CONSTANTS
  Services, Dispatches, Sessions,
  SessionOf,         (* the session of each dispatch, NoRow without one      *)
  MaxAttempts, FailureThreshold, MinimumThroughput

BreakerStates == {"closed", "open", "half_open"}
DispatchRecords ==
  [endpoints : SUBSET Services, attempt : 1 .. MaxAttempts, at : {"fetch", "delay"}, service : Services]

ASSUME DispatcherAssumption ==
  /\ MaxAttempts \in Nat \ {0} /\ FailureThreshold \in Nat \ {0} /\ MinimumThroughput \in Nat
  /\ SessionOf \in [Dispatches -> Sessions \cup {NoRow}]
  /\ NoRow \notin DispatchRecords \cup Services \cup Sessions

VARIABLES
  registered,   (* the services the registry knows                           *)
  unhealthy,    (* those whose health keeps them out                         *)
  breakers,     (* circuitBreakers; due: nextAttempt has come                *)
  sessions,     (* the service of each sticky session                        *)
  dispatches    (* the dispatches in flight                                  *)

registryVars == <<registered, unhealthy>>
dispatcherVars == <<registryVars, breakers, sessions, dispatches>>

DispatcherInit ==
  /\ registered \in SUBSET Services /\ unhealthy = {}
  /\ breakers = [s \in Services |-> [state |-> "closed", failures |-> 0, total |-> 0, due |-> FALSE]]
  /\ sessions = [x \in Sessions |-> NoRow]
  /\ dispatches = [d \in Dispatches |-> NoRow]

UpTo(n, limit) == IF n > limit THEN limit ELSE n

-----------------------------------------------------------------------------
CanExecuteOnceTripped(b) ==  \* mutant: the time of the next attempt is not looked at
  b.state \in {"closed", "half_open", "open"}

(* canExecute(): an open breaker whose time has come is half open from then. *)
CanExecute(b) == b.state # "open" \/ b.due

Tried(b) == IF b.state = "open" /\ b.due THEN [b EXCEPT !.state = "half_open"] ELSE b

(* recordSuccess()                                                           *)
Succeeded(b) ==
  LET counted == [b EXCEPT !.total = UpTo(@ + 1, MinimumThroughput)] IN
    IF b.state = "half_open" THEN [counted EXCEPT !.state = "closed", !.failures = 0, !.due = FALSE]
    ELSE counted

(* recordFailure()                                                           *)
FailedBreaker(b) ==
  LET counted == [b EXCEPT !.total = UpTo(@ + 1, MinimumThroughput),
                           !.failures = UpTo(@ + 1, FailureThreshold)]
      trips == /\ b.state # "open"
               /\ counted.failures = FailureThreshold /\ counted.total = MinimumThroughput
  IN  IF trips THEN [counted EXCEPT !.state = "open", !.due = FALSE] ELSE counted

DispatchReturns(d) == dispatches' = [dispatches EXCEPT ![d] = NoRow]

(* One run of dispatchWithRetry()'s loop, from its start or the end of a     *)
(* delay to the next await: attempts that meet an open breaker are passed    *)
(* over, then one is sent, or they are used up.                              *)
DispatchSends(d, endpoints, made, bs, s) ==
  IF s \in registered
  THEN /\ breakers' = [bs EXCEPT ![s] = Tried(@)]
       /\ dispatches' = [dispatches EXCEPT
            ![d] = [endpoints |-> endpoints, attempt |-> made + 1, at |-> "fetch", service |-> s]]
  ELSE \* SERVICE_NOT_FOUND is not retried
       breakers' = [bs EXCEPT ![s] = FailedBreaker(Tried(@))] /\ DispatchReturns(d)

(* selectEndpoint() of a dispatch without a session: any, each time.         *)
LoopsFreely(d, endpoints, made, bs) ==
  LET blocked == {s \in endpoints : ~CanExecute(bs[s])} IN
  \E skipped \in 0 .. MaxAttempts - made :
    /\ skipped > 0 => blocked # {}
    /\ \/ made + skipped = MaxAttempts /\ breakers' = bs /\ DispatchReturns(d)
       \/ /\ made + skipped < MaxAttempts
          /\ \E s \in endpoints \ blocked : DispatchSends(d, endpoints, made + skipped, bs, s)
    /\ UNCHANGED sessions

(* ... of one with a session: the session's service if it is among them, or  *)
(* one that becomes the session's.                                           *)
LoopsSticky(d, endpoints, made, bs) ==
  LET x == SessionOf[d] IN
  \E s \in IF sessions[x] \in endpoints THEN {sessions[x]} ELSE endpoints :
    /\ sessions' = [sessions EXCEPT ![x] = s]
    /\ IF CanExecute(bs[s]) THEN DispatchSends(d, endpoints, made, bs, s) ELSE breakers' = bs /\ DispatchReturns(d)

Loops(d, endpoints, made, bs) ==
  \/ SessionOf[d] = NoRow /\ LoopsFreely(d, endpoints, made, bs)
  \/ SessionOf[d] # NoRow /\ LoopsSticky(d, endpoints, made, bs)

(* dispatch(): findAvailableServices() asks every breaker, so some become    *)
(* half open; with no service at all it fails.                               *)
Dispatch(d) ==
  LET found == registered \ unhealthy
      endpoints == {s \in found : CanExecute(breakers[s])}
      asked == [s \in Services |-> IF s \in found THEN Tried(breakers[s]) ELSE breakers[s]] IN
  /\ dispatches[d] = NoRow
  /\ \/ endpoints = {} /\ breakers' = asked /\ UNCHANGED <<dispatches, sessions>>
     \/ endpoints # {} /\ Loops(d, endpoints, 0, asked)
  /\ UNCHANGED registryVars

FetchSucceeds(d) ==
  /\ dispatches[d] # NoRow /\ dispatches[d].at = "fetch"
  /\ breakers' = [breakers EXCEPT ![dispatches[d].service] = Succeeded(@)]
  /\ DispatchReturns(d)
  /\ UNCHANGED <<registryVars, sessions>>

(* executeRequest() turns every failure, a response that is not ok and a     *)
(* timeout included, into a 502: all of them are retried.                    *)
FetchFails(d) ==
  /\ dispatches[d] # NoRow /\ dispatches[d].at = "fetch"
  /\ breakers' = [breakers EXCEPT ![dispatches[d].service] = FailedBreaker(@)]
  /\ IF dispatches[d].attempt >= MaxAttempts THEN DispatchReturns(d)
     ELSE dispatches' = [dispatches EXCEPT ![d].at = "delay"]
  /\ UNCHANGED <<registryVars, sessions>>

(* The next attempt, with the endpoints found when the dispatch began.       *)
DelayEnds(d) ==
  /\ dispatches[d] # NoRow /\ dispatches[d].at = "delay"
  /\ Loops(d, dispatches[d].endpoints, dispatches[d].attempt, breakers)
  /\ UNCHANGED registryVars

(* recoveryTimeout passes for an open breaker.                               *)
RecoveryElapses(s) ==
  /\ breakers[s].state = "open" /\ ~breakers[s].due
  /\ breakers' = [breakers EXCEPT ![s].due = TRUE]
  /\ UNCHANGED <<registryVars, sessions, dispatches>>

(* startSessionCleanup(), clearSessions()                                    *)
SessionExpires(x) ==
  /\ sessions[x] # NoRow /\ sessions' = [sessions EXCEPT ![x] = NoRow]
  /\ UNCHANGED <<registryVars, breakers, dispatches>>

(* The registry: services come and go, and their health changes.             *)
RegistryChanges(s) ==
  /\ \/ /\ registered' = (registered \ {s}) \cup ({s} \ registered)
        /\ unhealthy' = unhealthy \ {s}
     \/ /\ s \in registered /\ UNCHANGED registered
        /\ unhealthy' = (unhealthy \ {s}) \cup ({s} \ unhealthy)
  /\ UNCHANGED <<breakers, sessions, dispatches>>

DispatcherNext ==
  \/ \E d \in Dispatches : Dispatch(d) \/ FetchSucceeds(d) \/ FetchFails(d) \/ DelayEnds(d)
  \/ \E s \in Services : RecoveryElapses(s) \/ RegistryChanges(s)
  \/ \E x \in Sessions : SessionExpires(x)

(* A fetch ends, at the latest by AbortSignal.timeout(), and a timer fires.  *)
FetchEnds(d) == FetchSucceeds(d) \/ FetchFails(d)
DispatcherFairness == \A d \in Dispatches : WF_dispatcherVars(FetchEnds(d)) /\ WF_dispatcherVars(DelayEnds(d))
DispatcherSpec == DispatcherInit /\ [][DispatcherNext]_dispatcherVars /\ DispatcherFairness

-----------------------------------------------------------------------------

DispatcherTypeOK ==
  /\ registered \subseteq Services /\ unhealthy \subseteq registered
  /\ breakers \in [Services -> [state : BreakerStates, failures : 0 .. FailureThreshold,
                                total : 0 .. MinimumThroughput, due : BOOLEAN]]
  /\ sessions \in [Sessions -> Services \cup {NoRow}]
  /\ dispatches \in [Dispatches -> DispatchRecords \cup {NoRow}]

(* A breaker is open, or on trial, because enough requests failed: the late  *)
(* answer of a request sent before it opened changes nothing of that         *)
(* (lines 893-928).                                                          *)
OpenForCause ==
  \A s \in Services : breakers[s].state # "closed" =>
    breakers[s].failures = FailureThreshold /\ breakers[s].total = MinimumThroughput

(* No attempt, a retry after a delay included, is sent to a service whose    *)
(* breaker is open and not yet due ("Check circuit breaker", lines 367-378). *)
NothingPastAnOpenBreaker ==
  [][\A d \in Dispatches :
       dispatches'[d] # NoRow /\ dispatches'[d] # dispatches[d] /\ dispatches'[d].at = "fetch" =>
         LET b == breakers[dispatches'[d].service] IN b.state = "open" => b.due]_dispatcherVars

(* Every dispatch is answered, whatever fails and opens.                     *)
DispatchEnds == \A d \in Dispatches : dispatches[d] # NoRow ~> dispatches[d] = NoRow

(* Breakers open for a cause, and nothing goes past an open one.             *)
BreakersHold == []DispatcherTypeOK /\ []OpenForCause /\ NothingPastAnOpenBreaker
=============================================================================
