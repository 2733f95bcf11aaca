--------------------------- MODULE ServiceRegistry --------------------------
(***************************************************************************)
(* The registry of services (core/discovery/service-registry.ts): health     *)
(* checks that start from the health they read and write it back when the    *)
(* answer arrives, and timers that deregister what kept failing.  Checks of  *)
(* one service overlap: one at its registration, one at every interval.      *)
(***************************************************************************)
EXTENDS Absent, Naturals, FiniteSets

CONSTANTS
  Registrable,     (* the ids of services                                    *)
  HealthChecks,    (* bound: checks under way at once                        *)
  MaxFailures,     (* maxConsecutiveFailures                                 *)
  FailureCeiling   (* bound: failures counted                                *)

Statuses == {"healthy", "unhealthy", "degraded", "unknown"}
HealthRecords == [status : Statuses, failures : 0 .. FailureCeiling]
CheckRecords == [service : Registrable, read : HealthRecords]

ASSUME RegistryAssumption ==
  /\ MaxFailures \in Nat \ {0} /\ FailureCeiling \in Nat /\ FailureCeiling >= MaxFailures
  /\ NoRow \notin HealthRecords \cup CheckRecords

VARIABLES
  registeredIds,  (* the ids in `services` and `servicesByName`              *)
  serviceHealth,  (* by id: its record, or NoRow                             *)
  checks,         (* by check: what it checks and the health it read         *)
  removals,       (* the ids for which a timer of auto-deregistration runs   *)
  registryOpen,   (* the interval of health checks is running                *)
  lastAnswer      (* history: the last answer of a service since it registered *)

serviceRegistryVars == <<registeredIds, serviceHealth, checks, removals, registryOpen, lastAnswer>>

Unknown == [status |-> "unknown", failures |-> 0]

RegistryInit ==
  /\ registeredIds = {} /\ removals = {} /\ registryOpen = TRUE
  /\ serviceHealth = [s \in Registrable |-> NoRow]
  /\ checks = [c \in HealthChecks |-> NoRow]
  /\ lastAnswer = [s \in Registrable |-> "none"]

RegistryTypeOK ==
  /\ registeredIds \subseteq Registrable /\ removals \subseteq Registrable /\ registryOpen \in BOOLEAN
  /\ serviceHealth \in [Registrable -> HealthRecords \cup {NoRow}]
  /\ \A s \in registeredIds : serviceHealth[s] # NoRow
  /\ checks \in [HealthChecks -> CheckRecords \cup {NoRow}]
  /\ lastAnswer \in [Registrable -> {"none", "healthy", "failing"}]

Checking(c, s, health) == checks' = [checks EXCEPT ![c] = [service |-> s, read |-> health]]

(* registerService() up to its first await, in performHealthCheck()          *)
RegisterService(s, c) ==
  /\ s \notin registeredIds /\ checks[c] = NoRow
  /\ registeredIds' = registeredIds \cup {s}
  /\ serviceHealth' = [serviceHealth EXCEPT ![s] = Unknown]
  /\ lastAnswer' = [lastAnswer EXCEPT ![s] = "none"]
  /\ Checking(c, s, Unknown)
  /\ UNCHANGED <<removals, registryOpen>>

Forgotten(s) ==
  /\ registeredIds' = registeredIds \ {s}
  /\ serviceHealth' = [serviceHealth EXCEPT ![s] = NoRow]

DeregisterService(s) ==
  /\ s \in registeredIds /\ Forgotten(s)
  /\ UNCHANGED <<checks, removals, registryOpen, lastAnswer>>

(* performAllHealthChecks(), for one of the services: it does not ask whether*)
(* an earlier check is under way.                                            *)
CheckStarts(s, c) ==
  /\ registryOpen /\ s \in registeredIds /\ checks[c] = NoRow
  /\ Checking(c, s, serviceHealth[s])
  /\ UNCHANGED <<registeredIds, serviceHealth, removals, registryOpen, lastAnswer>>

CountedCheck(read) == IF read.failures < FailureCeiling THEN read.failures + 1 ELSE FailureCeiling

(* What performHealthCheck() writes: from what it read before the request,   *)
(* whatever has become of the service and its health since.                  *)
Checked(read, answer) ==
  [status |-> answer, failures |-> IF answer = "healthy" THEN 0 ELSE CountedCheck(read)]

CheckAnswers(c, answer) ==
  /\ checks[c] # NoRow
  /\ LET s == checks[c].service
         health == Checked(checks[c].read, answer) IN
     /\ serviceHealth' = [serviceHealth EXCEPT ![s] = health]
     /\ removals' = IF health.failures >= MaxFailures THEN removals \cup {s} ELSE removals
     /\ lastAnswer' = [lastAnswer EXCEPT ![s] = IF answer = "healthy" THEN "healthy" ELSE "failing"]
  /\ checks' = [checks EXCEPT ![c] = NoRow]
  /\ UNCHANGED <<registeredIds, registryOpen>>

KeepsFailing(s) == serviceHealth[s] # NoRow /\ serviceHealth[s].failures >= MaxFailures

AutoDeregisterUnasked(s) ==  \* mutant: the health is not asked again
  /\ s \in removals
  /\ removals' \in {removals, removals \ {s}}
  /\ IF s \in registeredIds THEN Forgotten(s) ELSE UNCHANGED <<registeredIds, serviceHealth>>
  /\ UNCHANGED <<checks, registryOpen, lastAnswer>>

(* autoDeregisterService(): of several timers of one service this one is the *)
(* last or is not; close() clears none.                                      *)
AutoDeregister(s) ==
  /\ s \in removals
  /\ removals' \in {removals, removals \ {s}}
  /\ IF KeepsFailing(s) /\ s \in registeredIds THEN Forgotten(s)
                                            ELSE UNCHANGED <<registeredIds, serviceHealth>>
  /\ UNCHANGED <<checks, registryOpen, lastAnswer>>

CloseRegistry ==
  /\ registryOpen /\ registryOpen' = FALSE
  /\ UNCHANGED <<registeredIds, serviceHealth, checks, removals, lastAnswer>>

RegistryNext ==
  \/ \E s \in Registrable :
       \/ DeregisterService(s) \/ AutoDeregister(s)
       \/ \E c \in HealthChecks : RegisterService(s, c) \/ CheckStarts(s, c)
  \/ \E c \in HealthChecks : \E answer \in Statuses \ {"unknown"} : CheckAnswers(c, answer)
  \/ CloseRegistry

CheckReturns(c) == \E answer \in Statuses \ {"unknown"} : CheckAnswers(c, answer)

(* The interval fires, a check ends at healthCheckTimeout, timers run out.   *)
RegistryFairness ==
  /\ \A s \in Registrable : /\ WF_serviceRegistryVars(\E c \in HealthChecks : CheckStarts(s, c))
                            /\ WF_serviceRegistryVars(AutoDeregister(s))
  /\ \A c \in HealthChecks : WF_serviceRegistryVars(CheckReturns(c))

RegistrySpec == RegistryInit /\ [][RegistryNext]_serviceRegistryVars /\ RegistryFairness

-----------------------------------------------------------------------------
(* A timer that was set when a service kept failing does not deregister one  *)
(* that has answered as healthy since ("Auto-deregister a service after      *)
(* consecutive failures", line 633), nor one that registered again and of    *)
(* which nothing was answered yet, although timers are never cleared.        *)
RemovedOnlyWhileFailing ==
  [][\A s \in Registrable :
       s \in registeredIds \ registeredIds' /\ s \in removals \ removals' => lastAnswer[s] = "failing"]_serviceRegistryVars

(* What only fails is removed in the end, although overlapping checks write  *)
(* back what they counted from what they read.                               *)
FailingIsRemoved ==
  \A s \in Registrable : []<>(s \notin registeredIds \/ lastAnswer[s] # "failing" \/ ~registryOpen)

(* Nothing is removed but what keeps failing.                                *)
RegistryFollowsChecks == []RegistryTypeOK /\ RemovedOnlyWhileFailing
=============================================================================
