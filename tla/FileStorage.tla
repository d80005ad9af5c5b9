------------------------------ MODULE FileStorage ------------------------------
(***************************************************************************)
(* The media files (storage.service.ts) and their export and import         *)
(* (infra.controller.ts): a local directory or, once its bucket has         *)
(* answered, S3.  The choice is made anew by each call, and the bucket may  *)
(* answer while an archive is being made or read.                           *)
(***************************************************************************)
EXTENDS Naturals, FiniteSets

CONSTANTS
  Files,          \* names of files
  MaxFailures     \* bound: reads and writes that fail

VARIABLES
  storageType,    \* STORAGE_TYPE
  bucketState,    \* what initializeS3Bucket knows of the bucket
  local, bucket,  \* the files of the directory and of the bucket
  archive,        \* the last archive that was made
  job,            \* the export or import that is under way
  result,         \* what the last import answered
  moved,          \* history: the bucket became available while a job ran
  failures

storageVars == <<storageType, bucketState, local, bucket, archive, job, result, moved, failures>>

-----------------------------------------------------------------------------
Idle == [kind |-> "none"]
NoResult == [count |-> 0, put |-> {}, listed |-> {}]
Job      == [kind : {"export", "import"}, todo : SUBSET Files, done : SUBSET Files]
Result   == [count : 0..Cardinality(Files), put : SUBSET Files, listed : SUBSET Files]

(* The test that every call repeats.                                        *)
InBucket == storageType = "s3" /\ bucketState = "available"

(* Mutant: the directory is listed also where the files are in the bucket.  *)
MutantListsLocal == local

listFiles == IF InBucket THEN bucket ELSE local

TypeOK ==
  /\ storageType \in {"local", "s3"}
  /\ bucketState \in {"unknown", "asked", "creating", "available", "lost"}
  /\ local \cup bucket \cup archive \subseteq Files
  /\ job \in Job \cup {Idle} /\ result \in Result /\ moved \in BOOLEAN
  /\ failures \in 0..MaxFailures

(* The constructor: the bucket is asked for only with complete credentials. *)
Init ==
  /\ \/ storageType = "local" /\ bucketState = "unknown"
     \/ storageType = "s3" /\ bucketState \in {"unknown", "asked"}
  /\ local \in SUBSET Files /\ bucket \in SUBSET Files
  /\ archive = {} /\ job = Idle /\ result = NoResult /\ moved = FALSE /\ failures = 0

(* initializeS3Bucket: HeadBucket answers, the bucket is missing and is     *)
(* created, or it stays out of reach for as long as the process lives.      *)
BucketAnswers ==
  /\ \/ bucketState = "asked" /\ bucketState' \in {"available", "lost"}
     \/ bucketState = "asked" /\ bucketState' = "creating" /\ bucket = {}
     \/ bucketState = "creating" /\ bucketState' \in {"available", "lost"}
  /\ moved' = (moved \/ (job # Idle /\ bucketState' = "available"))
  /\ UNCHANGED <<storageType, local, bucket, archive, job, result, failures>>

-----------------------------------------------------------------------------
(* exportStorage, createExportStream: the files are listed, then fetched    *)
(* one by one; a file that cannot be fetched is left out.                   *)
ExportBegins ==
  /\ job = Idle
  /\ job' = [kind |-> "export", todo |-> listFiles, done |-> {}]
  /\ moved' = FALSE /\ result' = NoResult
  /\ UNCHANGED <<storageType, bucketState, local, bucket, archive, failures>>

getFile(f) == f \in (IF InBucket THEN bucket ELSE local)

Archives(f) ==
  /\ job.kind = "export" /\ f \in job.todo
  /\ \/ /\ job' = [job EXCEPT !.todo = @ \ {f}, !.done = IF getFile(f) THEN @ \cup {f} ELSE @]
        /\ UNCHANGED failures
     \/ /\ failures < MaxFailures /\ failures' = failures + 1
        /\ job' = [job EXCEPT !.todo = @ \ {f}]
  /\ UNCHANGED <<storageType, bucketState, local, bucket, archive, result, moved>>

ExportEnds ==
  /\ job.kind = "export" /\ job.todo = {}
  /\ archive' = job.done /\ job' = Idle
  /\ UNCHANGED <<storageType, bucketState, local, bucket, result, moved, failures>>

-----------------------------------------------------------------------------
(* importStorage, importFromStream: each entry of the archive is put, one   *)
(* after the other, and counted if that succeeded.  A broken archive ends   *)
(* the import, with what it has put.                                       *)
ImportBegins ==
  /\ job = Idle /\ archive # {}
  /\ job' = [kind |-> "import", todo |-> archive, done |-> {}]
  /\ moved' = FALSE /\ result' = NoResult
  /\ UNCHANGED <<storageType, bucketState, local, bucket, archive, failures>>

(* putFile.                                                                *)
Put(f) == IF InBucket THEN bucket' = bucket \cup {f} /\ UNCHANGED local
          ELSE local' = local \cup {f} /\ UNCHANGED bucket

(* Mutant: every entry is counted, also one that could not be put.          *)
MutantCountsAll(f) == [job EXCEPT !.todo = @ \ {f}, !.done = @ \cup {f}]

(* The catch of putFile.                                                   *)
NotPut(f) == [job EXCEPT !.todo = @ \ {f}]

Extracts(f) ==
  /\ job.kind = "import" /\ f \in job.todo
  /\ \/ /\ Put(f) /\ job' = [job EXCEPT !.todo = @ \ {f}, !.done = @ \cup {f}]
        /\ UNCHANGED failures
     \/ /\ failures < MaxFailures /\ failures' = failures + 1
        /\ job' = NotPut(f) /\ UNCHANGED <<local, bucket>>
  /\ UNCHANGED <<storageType, bucketState, archive, result, moved>>

ImportEnds ==
  /\ job.kind = "import" /\ job.todo = {}
  /\ result' = [count |-> Cardinality(job.done), put |-> job.done, listed |-> listFiles]
  /\ job' = Idle
  /\ UNCHANGED <<storageType, bucketState, local, bucket, archive, moved, failures>>

ImportBreaks ==
  /\ job.kind = "import" /\ failures < MaxFailures /\ failures' = failures + 1
  /\ job' = Idle
  /\ UNCHANGED <<storageType, bucketState, local, bucket, archive, result, moved>>

Next ==
  \/ BucketAnswers \/ ExportBegins \/ ExportEnds \/ ImportBegins \/ ImportEnds \/ ImportBreaks
  \/ \E f \in Files : Archives(f) \/ Extracts(f)

-----------------------------------------------------------------------------
(* Properties.                                                             *)

(* An import counts what the storage has afterwards, unless the bucket      *)
(* became available during it: what was put before is then in the directory, *)
(* where nobody looks any more.                                            *)
CountedIsListed == ~moved => result.count <= Cardinality(result.listed \cap archive)

(* An export that nothing disturbed has every file of the storage, and an   *)
(* import puts each entry into the directory or the bucket.                 *)
ExportIsWhole ==
  /\ job.kind = "export" /\ ~moved /\ failures = 0 => job.todo \cup job.done = listFiles
  /\ result.put \subseteq local \cup bucket

-----------------------------------------------------------------------------
(* What makes them hold of every step: what an import has counted so far is *)
(* of its archive and in the storage, and in the one that is listed unless  *)
(* the bucket became available; a job that runs has not answered yet.       *)
ImportCounts ==
  job.kind = "import" =>
    /\ job.todo \cup job.done \subseteq archive
    /\ job.done \subseteq local \cup bucket
    /\ ~moved => job.done \subseteq listFiles

MediaInv ==
  /\ TypeOK /\ ImportCounts /\ CountedIsListed /\ ExportIsWhole
  /\ job # Idle => result = NoResult
===============================================================================
