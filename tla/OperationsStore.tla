--------------------------- MODULE OperationsStore --------------------------
(***************************************************************************)
(* The operations that mutations leave behind (core/operations) and their    *)
(* listing in pages, as every service lists its rows: sorted by name, from   *)
(* an offset that the client brings back as a token, while other requests    *)
(* create and delete.  Names end in a random id, so that a new one may sort  *)
(* anywhere.                                                                 *)
(***************************************************************************)
EXTENDS Absent, Naturals, FiniteSets

CONSTANTS
  OperationNames,  (* numbered in the order they sort in                     *)
  PageSize

Results == {"response", "error"}
OperationRecords == [done : {TRUE}, result : Results, cancelled : BOOLEAN]

ASSUME OperationsAssumption ==
  OperationNames \subseteq Nat /\ PageSize \in Nat \ {0} /\ NoRow \notin Nat \cup OperationRecords

VARIABLES
  operations,  (* by name: how it ended and whether it was cancelled, or NoRow *)
  listing      (* a client's listing: its offset, what it was given, and the *)
               (* history of the table since it began                        *)

operationsVars == <<operations, listing>>

OperationsInit == operations = [n \in OperationNames |-> NoRow] /\ listing = NoRow

Listed == {n \in OperationNames : operations[n] # NoRow}

OperationsTypeOK ==
  /\ operations \in [OperationNames -> OperationRecords \cup {NoRow}]
  /\ listing = NoRow \/ (listing.given \subseteq OperationNames /\ listing.twice \subseteq listing.given)

(* createOperation() and createFailedOperation(): done when it is made       *)
CreateOperation(n, result) ==
  /\ operations[n] = NoRow
  /\ operations' = [operations EXCEPT ![n] = [done |-> TRUE, result |-> result, cancelled |-> FALSE]]
  /\ listing' = IF listing = NoRow THEN NoRow ELSE [listing EXCEPT !.created = TRUE]

DeleteOperation(n) ==
  /\ operations[n] # NoRow
  /\ operations' = [operations EXCEPT ![n] = NoRow]
  /\ listing' = IF listing = NoRow THEN NoRow
                ELSE [listing EXCEPT !.deleted = TRUE, !.stayed = @ \ {n}]

(* cancelOperation(): a flag, the operation stays as it ended.               *)
CancelOperation(n) ==
  /\ operations[n] # NoRow
  /\ operations' = [operations EXCEPT ![n].cancelled = TRUE]
  /\ UNCHANGED listing

Before(n) == Cardinality({m \in Listed : m < n})
Page(offset) == {n \in Listed : Before(n) >= offset /\ Before(n) < offset + PageSize}

(* The token of the next page, when there is more.                           *)
NextToken(offset) == IF offset + PageSize < Cardinality(Listed) THEN offset + PageSize ELSE NoRow

ListFirstPage ==
  /\ listing = NoRow
  /\ listing' = [offset |-> NextToken(0), given |-> Page(0), twice |-> {}, stayed |-> Listed,
                 created |-> FALSE, deleted |-> FALSE]
  /\ UNCHANGED operations

ListNextPage ==
  /\ listing # NoRow /\ listing.offset # NoRow
  /\ listing' = [listing EXCEPT !.offset = NextToken(listing.offset),
                                !.given = @ \cup Page(listing.offset),
                                !.twice = @ \cup (listing.given \cap Page(listing.offset))]
  /\ UNCHANGED operations

ListingEnds == listing # NoRow /\ listing.offset = NoRow /\ listing' = NoRow /\ UNCHANGED operations

OperationsNext ==
  \/ \E n \in OperationNames :
       \/ DeleteOperation(n) \/ CancelOperation(n)
       \/ \E result \in Results : CreateOperation(n, result)
  \/ ListFirstPage \/ ListNextPage \/ ListingEnds

OperationsSpec == OperationsInit /\ [][OperationsNext]_operationsVars

-----------------------------------------------------------------------------
(* A client that follows the tokens to the end is given every operation that *)
(* was there all the time, as long as none is deleted meanwhile: those made  *)
(* meanwhile only move what it has not seen yet further on.                  *)
PagesMissNothing ==
  listing # NoRow /\ listing.offset = NoRow /\ ~listing.deleted => listing.stayed \subseteq listing.given

(* ... and nothing twice, as long as none is made.                           *)
PagesRepeatNothing == listing # NoRow /\ ~listing.created => listing.twice = {}

(* Pages of operations, made and deleted while they are read.                *)
OperationsInvariant == OperationsTypeOK /\ PagesMissNothing /\ PagesRepeatNothing
=============================================================================
