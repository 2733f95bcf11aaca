------------------------------ MODULE MCPlanes ------------------------------
(***************************************************************************)
(* TLC instance of the Postgres data plane (MCDataPlane), and of the two     *)
(* services that keep rows about its instances, each over the queue of       *)
(* PostgresPlane that stands for it.  They share no state: a behaviour is    *)
(* one of a single part, chosen at the start, and the others stay as they    *)
(* begin.                                                                    *)
(***************************************************************************)
EXTENDS MCDataPlane, CloudSql, AlloyDb

CONSTANTS a1, a2, cl, q1, q2

VARIABLE part

MCClusterOf == [i \in {a1, a2} |-> cl]

sqlOwnVars == <<sqlRows, sqlCalls, degraded, crossed>>
alloyOwnVars == <<alloyRowVars, clusterQueue, alloyCalls, leftFiles>>

PlanesInit ==
  /\ part \in {"plane", "cloudsql", "alloydb"}
  /\ Init /\ CloudSqlInit /\ AlloyInit
  /\ part # "plane" => files = {}

(* bound: closeAll() of the manager holds no port and ends this instance;    *)
(* MCDataPlane goes on behind it.                                            *)
BeforeCloseAll == stopping.step # "closed"

DataPlaneMoves ==
  /\ part = "plane" /\ BeforeCloseAll /\ Next
  /\ UNCHANGED <<part, planeVars, sqlOwnVars, alloyOwnVars>>

CloudSqlMoves ==
  /\ part = "cloudsql" /\ CloudSqlNext
  /\ UNCHANGED <<part, vars, alloyOwnVars>>

AlloyDbMoves ==
  /\ part = "alloydb" /\ AlloyNext
  /\ UNCHANGED <<part, vars, sqlOwnVars>>

PlanesNext ==
  \/ DataPlaneMoves
  \/ CloudSqlMoves
  \/ AlloyDbMoves

planesVars == <<part, vars, planeVars, sqlOwnVars, alloyOwnVars>>
PlanesSpec == PlanesInit /\ [][PlanesNext]_planesVars
=============================================================================
