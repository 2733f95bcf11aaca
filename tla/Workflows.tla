----------------------------- MODULE Workflows -----------------------------
(***************************************************************************)
(* The tables of Cloud Workflows: workflows, their revisions and their       *)
(* executions.  A request is one step but for createExecution(), which       *)
(* runs the program in between and writes its row at the end.  A process     *)
(* that is killed leaves what the statements before had written.             *)
(***************************************************************************)
EXTENDS Absent, Naturals, FiniteSets

CONSTANTS
  WorkflowNames, WorkflowSources,
  ExecutionIds,         (* bound: executions ever started                    *)
  RevisionTags          (* bound: revisions ever made                        *)

(* generateRevisionId(): the ordinal and a random part, taken to be new.     *)
RevisionIds == [ordinal : Nat \ {0}, tag : Nat]
WorkflowRecords == [source : WorkflowSources, revision : RevisionIds]
RevisionRecords == [workflow : WorkflowNames, revision : RevisionIds, source : WorkflowSources]
Runs == [workflow : WorkflowNames, revision : RevisionIds, source : WorkflowSources]
ExecutionRecords ==
  [workflow : WorkflowNames, revision : RevisionIds, source : WorkflowSources,
   state : {"SUCCEEDED", "FAILED"}]

ASSUME WorkflowsAssumption ==
  RevisionTags \in Nat /\ NoRow \notin WorkflowRecords \cup Runs \cup ExecutionRecords

VARIABLES
  workflows,         (* the workflows table                                  *)
  revisions,         (* the workflow_revisions table                         *)
  revisionTags,      (* random parts of revision ids given out so far        *)
  running,           (* executions whose program runs                        *)
  executions         (* the workflow_executions table                        *)

workflowVars == <<workflows, revisions, revisionTags, running, executions>>

WorkflowsInit ==
  /\ workflows = [w \in WorkflowNames |-> NoRow]
  /\ revisions = {} /\ revisionTags = 0
  /\ running = [e \in ExecutionIds |-> NoRow]
  /\ executions = [e \in ExecutionIds |-> NoRow]

RevisionsOf(w) == {r \in revisions : r.workflow = w}
RunsLost == running' = [e \in ExecutionIds |-> NoRow]
RunsKept == UNCHANGED running

NewRevision ==
  /\ revisionTags < RevisionTags /\ revisionTags' = revisionTags + 1
  /\ UNCHANGED executions

Snapshot(w, source, id) == [workflow |-> w, revision |-> id, source |-> source]
Row(source, id) == [source |-> source, revision |-> id]

-----------------------------------------------------------------------------
(* The row, then the first revision; "killed" between the two                *)
CreateWorkflow(w, source, killed) ==
  LET id == [ordinal |-> 1, tag |-> revisionTags]
  IN /\ workflows[w] = NoRow /\ NewRevision
     /\ workflows' = [workflows EXCEPT ![w] = Row(source, id)]
     /\ IF killed THEN UNCHANGED revisions /\ RunsLost
                  ELSE revisions' = revisions \cup {Snapshot(w, source, id)} /\ RunsKept

NextOrdinal(w) == Cardinality(RevisionsOf(w)) + 1

(* Source or service account: a new revision.  Other fields make none.       *)
UpdateWorkflow(w, source, killed) ==
  LET id == [ordinal |-> NextOrdinal(w), tag |-> revisionTags]
  IN /\ workflows[w] # NoRow /\ NewRevision
     /\ workflows' = [workflows EXCEPT ![w] = Row(source, id)]
     /\ IF killed THEN UNCHANGED revisions /\ RunsLost
                  ELSE revisions' = revisions \cup {Snapshot(w, source, id)} /\ RunsKept

(* The revisions, then the row.  Executions stay.                            *)
DeleteWorkflow(w, killed) ==
  /\ workflows[w] # NoRow
  /\ revisions' = revisions \ RevisionsOf(w)
  /\ IF killed THEN UNCHANGED workflows /\ RunsLost
               ELSE workflows' = [workflows EXCEPT ![w] = NoRow] /\ RunsKept
  /\ UNCHANGED <<revisionTags, executions>>

-----------------------------------------------------------------------------
(* handleCreateExecution(): the program and the revision are read together.  *)
CreateExecution(e, w) ==
  /\ running[e] = NoRow /\ executions[e] = NoRow /\ workflows[w] # NoRow
  /\ running' = [running EXCEPT ![e] =
                   [workflow |-> w, revision |-> workflows[w].revision,
                    source |-> workflows[w].source]]
  /\ UNCHANGED <<workflows, revisions, revisionTags, executions>>

NewExecutionNow(run, state) ==  \* mutant: the revision is read when the execution ends
  [workflow |-> run.workflow, source |-> run.source, state |-> state,
   revision |-> IF workflows[run.workflow] = NoRow THEN run.revision
                ELSE workflows[run.workflow].revision]

NewExecution(run, state) ==
  [workflow |-> run.workflow, source |-> run.source, state |-> state, revision |-> run.revision]

(* The engine answers, and the row is written, whatever became of the        *)
(* workflow.                                                                 *)
ExecutionAnswers(e, state) ==
  /\ running[e] # NoRow
  /\ executions' = [executions EXCEPT ![e] = NewExecution(running[e], state)]
  /\ running' = [running EXCEPT ![e] = NoRow]
  /\ UNCHANGED <<workflows, revisions, revisionTags>>

WorkflowsCrash ==
  /\ RunsLost /\ UNCHANGED <<workflows, revisions, revisionTags, executions>>

WorkflowsNext ==
  \/ \E w \in WorkflowNames, killed \in BOOLEAN :
       \/ \E source \in WorkflowSources :
            CreateWorkflow(w, source, killed) \/ UpdateWorkflow(w, source, killed)
       \/ DeleteWorkflow(w, killed)
  \/ \E e \in ExecutionIds :
       \/ \E w \in WorkflowNames : CreateExecution(e, w)
       \/ \E state \in {"SUCCEEDED", "FAILED"} : ExecutionAnswers(e, state)
  \/ WorkflowsCrash

WorkflowsSpec == WorkflowsInit /\ [][WorkflowsNext]_workflowVars

-----------------------------------------------------------------------------
(* The tables are well formed; no row of an execution is ever ACTIVE, so     *)
(* that cancelExecution() has nothing to cancel.                             *)
WorkflowsTypeOK ==
  /\ revisionTags \in 0..RevisionTags /\ revisions \subseteq RevisionRecords
  /\ \A w \in WorkflowNames : workflows[w] \in WorkflowRecords \cup {NoRow}
  /\ \A e \in ExecutionIds : /\ running[e] \in Runs \cup {NoRow}
                             /\ executions[e] \in ExecutionRecords \cup {NoRow}

(* listRevisions() sorts by the ordinal: the revisions of a workflow are     *)
(* numbered 1, 2, ... without a gap or a repetition, and a name used again   *)
(* starts anew, even when the process was killed between two statements.     *)
RevisionsConsecutive ==
  \A w \in WorkflowNames :
    /\ {r.revision.ordinal : r \in RevisionsOf(w)} = 1..Cardinality(RevisionsOf(w))
    /\ workflows[w] = NoRow => RevisionsOf(w) = {}

(* The revision an execution names is the program it ran, although updates   *)
(* may have replaced it while it ran.                                        *)
ExecutionsRanTheirRevision ==
  \A r \in revisions : \A e \in ExecutionIds :
    executions[e] # NoRow /\ executions[e].revision = r.revision => executions[e].source = r.source

(* Workflows, revisions and executions agree.                                *)
WorkflowsInvariant == WorkflowsTypeOK /\ RevisionsConsecutive /\ ExecutionsRanTheirRevision
=============================================================================
