----------------------------- MODULE CloudStorage ---------------------------
(***************************************************************************)
(* Cloud Storage (BucketService, ObjectService, BlobStore, ObjectHandlers):  *)
(* rows of objects and, in files of their own, the bytes of each             *)
(* generation.  Nothing queues requests: one that awaits a file lets any     *)
(* other run, and goes on from the row it read before.  What the bytes are   *)
(* is left out, and so is listing, which changes nothing.                    *)
(***************************************************************************)
EXTENDS Absent, Naturals, Sequences, FiniteSets

CONSTANTS
  Buckets, ObjectNames, Uploads, StorageClients,
  MaxGenerations,      (* bound: objects stored over time                    *)
  MaxMetageneration,   (* bound: changes of one row                          *)
  MaxPendingUploads,   (* MAX_PENDING_UPLOADS                                *)
  CopySources          (* the sources requests name: sequences of objects    *)

Objects == Buckets \X ObjectNames
Generations == 1 .. MaxGenerations

ObjectRows == [object : Objects, generation : Generations, metageneration : 1 .. MaxMetageneration]

(* A request that awaits: the body of an upload, the file of `generation`    *)
(* read, removed or written.  `then`: what follows; `sources`: still to read.*)
Transfers ==
  [object : Objects, stage : {"body", "reading", "clearing", "storing"},
   then : {"store", "drop", "answer"}, generation : 0 .. MaxGenerations,
   sources : Seq(Objects)]

(* composeObjects() refuses a request without sources.                       *)
ASSUME CloudStorageAssumption ==
  /\ MaxGenerations \in Nat /\ MaxMetageneration \in Nat \ {0} /\ MaxPendingUploads \in Nat
  /\ CopySources \subseteq Seq(Objects) \ {<<>>}
  /\ IsFiniteSet(StorageClients)
  /\ NoRow \notin Objects \cup Transfers

VARIABLES
  buckets,       (* by name: the metageneration of its row, 0 without a row  *)
  objectRows,    (* the rows; no index keeps bucket and name unique          *)
  blobs,         (* the generations whose file exists                        *)
  generations,   (* generationCounter, which with the clock only grows       *)
  resumable,     (* resumableUploads: upload id -> object                    *)
  issued,        (* history: the upload ids given out                        *)
  inserted,      (* history: by upload id, the inserts begun with it         *)
  transfers,     (* the requests in flight                                   *)
  contended      (* history: objects two requests wrote at the same time     *)
bucketVars == <<buckets>>
uploadVars == <<resumable, issued, inserted>>
cloudStorageVars == <<buckets, objectRows, blobs, generations, uploadVars, transfers, contended>>

CloudStorageInit ==
  /\ buckets = [b \in Buckets |-> 0]
  /\ objectRows = {} /\ blobs = {} /\ generations = 0
  /\ resumable = [u \in Uploads |-> NoRow]
  /\ issued = {} /\ inserted = [u \in Uploads |-> 0]
  /\ transfers = [c \in StorageClients |-> NoRow]
  /\ contended = {}

Named(object) == {r \in objectRows : r.object = object}

(* ObjectRepository.getObject(): the row of the highest generation.          *)
NewestRow(object) ==
  CHOOSE r \in Named(object) : \A other \in Named(object) : other.generation <= r.generation

Idle(c) == transfers[c] = NoRow
InStage(c, stage) == ~Idle(c) /\ transfers[c].stage = stage

UploadAnswered(c) == transfers' = [transfers EXCEPT ![c] = NoRow]

Moves(c, object, stage, then, generation, sources) ==
  transfers' = [transfers EXCEPT ![c] =
    [object |-> object, stage |-> stage, then |-> then, generation |-> generation,
     sources |-> sources]]

Writers(object) ==
  {c \in StorageClients : ~Idle(c) /\ transfers[c].object = object
                            /\ transfers[c].stage \in {"clearing", "storing"}}

Stores(c, object) ==
  /\ generations < MaxGenerations
  /\ generations' = generations + 1
  /\ Moves(c, object, "storing", "store", generations', <<>>)

(* insertObject() up to its first file: an error without the bucket, else    *)
(* the file of the row that is there goes first.                             *)
Inserts(c, object) ==
  \/ /\ buckets[object[1]] = 0
     /\ UploadAnswered(c) /\ UNCHANGED generations
  \/ /\ buckets[object[1]] # 0 /\ Named(object) # {}
     /\ Moves(c, object, "clearing", "store", NewestRow(object).generation, <<>>)
     /\ UNCHANGED generations
  \/ /\ buckets[object[1]] # 0 /\ Named(object) = {}
     /\ Stores(c, object)

(* The row is found again by name: another may be the newest by now.         *)
RowDropped(object) ==
  objectRows' = IF Named(object) = {} THEN objectRows ELSE objectRows \ {NewestRow(object)}

(* BucketService, whose requests wait for storage only: each is one step.    *)
CreateBucket(b) ==
  /\ buckets[b] = 0
  /\ buckets' = [buckets EXCEPT ![b] = 1]
  /\ UNCHANGED <<objectRows, blobs, generations, uploadVars, transfers>>

ChangeBucket(b) ==
  /\ buckets[b] \in 1 .. MaxMetageneration - 1
  /\ buckets' = [buckets EXCEPT ![b] = @ + 1]
  /\ UNCHANGED <<objectRows, blobs, generations, uploadVars, transfers>>

DeleteBucket(b) ==
  /\ buckets[b] # 0
  /\ {r \in objectRows : r.object[1] = b} = {}
  /\ buckets' = [buckets EXCEPT ![b] = 0]
  /\ UNCHANGED <<objectRows, blobs, generations, uploadVars, transfers>>

(* patchObject() and updateObject().                                         *)
ChangeObject(object) ==
  /\ Named(object) # {}
  /\ LET row == NewestRow(object) IN
       /\ row.metageneration < MaxMetageneration
       /\ objectRows' = (objectRows \ {row}) \cup {[row EXCEPT !.metageneration = @ + 1]}
  /\ UNCHANGED <<buckets, blobs, generations, uploadVars, transfers>>

InsertObject(c, object) ==
  /\ Idle(c) /\ buckets[object[1]] # 0
  /\ Inserts(c, object)
  /\ UNCHANGED <<buckets, objectRows, blobs, uploadVars>>

DeleteObject(c, object) ==
  /\ Idle(c) /\ Named(object) # {}
  /\ Moves(c, object, "clearing", "drop", NewestRow(object).generation, <<>>)
  /\ UNCHANGED <<buckets, objectRows, blobs, generations, uploadVars>>

(* copyObject(), rewriteObject() and composeObjects() read their sources one *)
(* after another, getObjectMedia() its object.                               *)
ReadsFirst(c, object, then, sources) ==
  \/ /\ Named(sources[1]) = {} /\ UploadAnswered(c)
  \/ /\ Named(sources[1]) # {}
     /\ Moves(c, object, "reading", then, NewestRow(sources[1]).generation, Tail(sources))

CopyObject(c, object, sources) ==
  /\ Idle(c) /\ buckets[object[1]] # 0 /\ Named(sources[1]) # {}
  /\ ReadsFirst(c, object, "store", sources)
  /\ UNCHANGED <<buckets, objectRows, blobs, generations, uploadVars>>

GetMedia(c, object) ==
  /\ Idle(c) /\ Named(object) # {}
  /\ ReadsFirst(c, object, "answer", <<object>>)
  /\ UNCHANGED <<buckets, objectRows, blobs, generations, uploadVars>>

(* BlobStore.retrieve(); NOT_FOUND when the file is gone.                    *)
Retrieved(c) ==
  /\ InStage(c, "reading")
  /\ LET t == transfers[c] IN
       \/ /\ t.generation \notin blobs \/ (t.sources = <<>> /\ t.then = "answer")
          /\ UploadAnswered(c) /\ UNCHANGED generations
       \/ /\ t.generation \in blobs /\ t.sources # <<>>
          /\ ReadsFirst(c, t.object, t.then, t.sources) /\ UNCHANGED generations
       \/ /\ t.generation \in blobs /\ t.sources = <<>> /\ t.then = "store"
          /\ Inserts(c, t.object)
  /\ UNCHANGED <<buckets, objectRows, blobs, uploadVars>>

(* BlobStore.delete(), then the row; an insert goes on to store.             *)
Cleared(c) ==
  /\ InStage(c, "clearing")
  /\ blobs' = blobs \ {transfers[c].generation}
  /\ RowDropped(transfers[c].object)
  /\ IF transfers[c].then = "store" THEN Stores(c, transfers[c].object)
                                    ELSE UploadAnswered(c) /\ UNCHANGED generations
  /\ UNCHANGED <<buckets, uploadVars>>

(* The row is made without asking for the bucket or the name again.          *)
Stored(c) ==
  /\ InStage(c, "storing")
  /\ blobs' = blobs \cup {transfers[c].generation}
  /\ objectRows' = objectRows \cup
       {[object |-> transfers[c].object, generation |-> transfers[c].generation,
         metageneration |-> 1]}
  /\ UploadAnswered(c)
  /\ UNCHANGED <<buckets, generations, uploadVars>>

(* A file that cannot be written: what it was to replace is gone.            *)
StoreFails(c) ==
  /\ InStage(c, "storing")
  /\ UploadAnswered(c)
  /\ UNCHANGED <<buckets, objectRows, blobs, generations, uploadVars>>

(* A resumable upload is announced: at the cap what is a week old is evicted,*)
(* and the new one added even when nothing was.                              *)
AnnounceUpload(u, object) ==
  /\ u \notin issued
  /\ issued' = issued \cup {u}
  /\ \E old \in SUBSET issued :
       /\ Cardinality({v \in Uploads : resumable[v] # NoRow}) < MaxPendingUploads => old = {}
       /\ resumable' = [v \in Uploads |-> IF v = u THEN object
                                          ELSE IF v \in old THEN NoRow ELSE resumable[v]]
  /\ UNCHANGED <<buckets, objectRows, blobs, generations, inserted, transfers>>

(* ... and sent: its id is good for one attempt, whatever becomes of it.     *)
SendUploadKeepingId(c, u) ==  \* mutant: the id stays until the object is there
  /\ Idle(c) /\ resumable[u] # NoRow /\ inserted[u] < 2
  /\ inserted' = [inserted EXCEPT ![u] = @ + 1]
  /\ Moves(c, resumable[u], "body", "store", 0, <<>>)
  /\ UNCHANGED <<buckets, objectRows, blobs, generations, resumable, issued>>

SendUpload(c, u) ==
  /\ Idle(c) /\ resumable[u] # NoRow
  /\ resumable' = [resumable EXCEPT ![u] = NoRow]
  /\ inserted' = [inserted EXCEPT ![u] = @ + 1]
  /\ Moves(c, resumable[u], "body", "store", 0, <<>>)
  /\ UNCHANGED <<buckets, objectRows, blobs, generations, issued>>

BodyRead(c) ==
  /\ InStage(c, "body")
  /\ Inserts(c, transfers[c].object)
  /\ UNCHANGED <<buckets, objectRows, blobs, uploadVars>>

(* The process ends and starts: rows and files stay (stop() cleans nothing), *)
(* the uploads announced and the requests in flight do not.                  *)
RestartsStorage ==
  /\ transfers' = [c \in StorageClients |-> NoRow]
  /\ resumable' = [u \in Uploads |-> NoRow]
  /\ UNCHANGED <<buckets, objectRows, blobs, generations, issued, inserted>>

CloudStorageStep ==
  \/ \E b \in Buckets : CreateBucket(b) \/ ChangeBucket(b) \/ DeleteBucket(b)
  \/ \E object \in Objects :
       \/ ChangeObject(object)
       \/ \E u \in Uploads : AnnounceUpload(u, object)
       \/ \E c \in StorageClients :
            \/ InsertObject(c, object) \/ DeleteObject(c, object) \/ GetMedia(c, object)
            \/ \E sources \in CopySources : CopyObject(c, object, sources)
  \/ \E c \in StorageClients :
       \/ \E u \in Uploads : SendUpload(c, u)
       \/ BodyRead(c) \/ Retrieved(c) \/ Cleared(c) \/ Stored(c) \/ StoreFails(c)
  \/ RestartsStorage

CloudStorageNext ==
  /\ CloudStorageStep
  /\ contended' = contended \cup {object \in Objects : Cardinality(Writers(object)') >= 2}

CloudStorageSpec == CloudStorageInit /\ [][CloudStorageNext]_cloudStorageVars

-----------------------------------------------------------------------------
CloudStorageTypeOK ==
  /\ buckets \in [Buckets -> 0 .. MaxMetageneration]
  /\ objectRows \subseteq ObjectRows
  /\ blobs \subseteq Generations /\ generations \in 0 .. MaxGenerations
  /\ resumable \in [Uploads -> Objects \cup {NoRow}]
  /\ issued \subseteq Uploads /\ inserted \in [Uploads -> Nat]
  /\ transfers \in [StorageClients -> Transfers \cup {NoRow}]
  /\ contended \subseteq Objects

(* insertObject() deletes the "existing object with the same name" and makes *)
(* a row once its file is there (object-service.ts lines 39-45): an object   *)
(* that was never written by two requests at once has one row at most, and   *)
(* its bytes, after errors and restarts as well, except while the request    *)
(* that replaces or deletes it holds both.  Requests that overlap leave two  *)
(* rows, or a row whose file is gone.                                        *)
SoleWriterKeepsOneObject ==
  \A object \in Objects \ contended :
    /\ Cardinality(Named(object)) <= 1
    /\ \A row \in Named(object) : row.generation \in blobs

(* Two rows of one generation would share a file, and the delete of one take *)
(* the bytes of the other: nothing but the counter keeps them apart, for two *)
(* inserts of one name overlap.                                              *)
GenerationsAreApart ==
  \A r1, r2 \in objectRows : r1.generation = r2.generation => r1 = r2

(* An announced upload becomes an object once at the most, however often and *)
(* however close together its bytes are sent (object-handlers.ts line 154).  *)
UploadsInsertOnce == \A u \in Uploads : inserted[u] <= 1

(* Rows, files and uploads of Cloud Storage agree.                           *)
CloudStorageInvariant ==
  CloudStorageTypeOK /\ SoleWriterKeepsOneObject /\ GenerationsAreApart /\ UploadsInsertOnce
=============================================================================
