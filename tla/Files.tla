-------------------------------- MODULE Files --------------------------------
(***************************************************************************)
(* One uploaded file: negotiated, sent and confirmed, or uploaded through  *)
(* the API (api/files.py), kept in local or S3 storage                     *)
(* (services/storage_service.py), profiled by a worker                     *)
(* (tasks/profiling.py), snapshotted by run submissions, read and deleted. *)
(* Requests overlap: the pending key, the object, the row, the snapshots   *)
(* and the profile are written by separate steps.                          *)
(***************************************************************************)
EXTENDS Naturals, Sequences, FiniteSets

CONSTANTS
  Clients,      \* requests in flight
  Tasks,        \* profile tasks in flight
  MaxSnapshots, \* bound: snapshots taken
  ProfileRetries, \* profile_file's max_retries
  None

\* What may be sent: a file that is in order, one that is shorter than
\* negotiated, one that does not parse and one with too many rows.  A local
\* file whose stream broke off is "torn".
Contents == {"good", "short", "junk", "long"}

VARIABLES
  storage,    \* the provider of the deployment (STORAGE_TYPE), which stays
  pending,    \* is the pending-upload key in Redis?
  url,        \* is a presigned URL of S3 valid for stored_path?
  object,     \* the content under stored_path, or None
  row,        \* the content the UploadedFile row describes, or None
  snapshots,  \* the contents described by the schema snapshots, in order
  profile,    \* the FileProfile row: [status, of], or None
  call,       \* the request of each client
  task,       \* the profile tasks
  used,       \* has the file id been given out?
  calm,       \* history: no two requests overlapped, and none broke off
  replaced,   \* history: the object of a confirmed upload was sent again
  lost        \* history: a task was lost, or a failure not recorded

vars == <<storage, pending, url, object, row, snapshots, profile, call, task, used, calm, replaced, lost>>

presigned == <<url, replaced>>

Idle == [pc |-> "idle", of |-> None, direct |-> FALSE]
NoTask == [pc |-> "none", of |-> None, tries |-> 0]

Init ==
  /\ storage \in {"local", "s3"}
  /\ pending = FALSE /\ object = None /\ row = None /\ snapshots = <<>> /\ profile = None
  /\ call = [k \in Clients |-> Idle] /\ task = [t \in Tasks |-> NoTask]
  /\ url = FALSE /\ used = FALSE /\ calm = TRUE /\ replaced = FALSE /\ lost = FALSE

Set(k, c) == call' = [call EXCEPT ![k] = c]
Alone(k) == \A j \in Clients \ {k} : call[j].pc = "idle"
Arrives(k) == call[k].pc = "idle" /\ calm' = (calm /\ Alone(k))

(***************************************************************************)
(* Sending the bytes.                                                      *)
(***************************************************************************)
\* The key may fail to be cached.  A URL is presigned by S3 only.
RequestUploadUrl(k) ==
  /\ ~used /\ used' = TRUE /\ Arrives(k)
  /\ pending' \in BOOLEAN
  /\ url' = (storage = "s3")
  /\ UNCHANGED <<object, row, snapshots, profile, call, task, lost, replaced>>

\* Local storage truncates the file when the stream begins.
DirectUploadStarts(k, c) ==
  /\ pending /\ Arrives(k)
  /\ Set(k, [pc |-> "put", of |-> c, direct |-> TRUE])
  /\ object' = IF storage = "local" THEN "torn" ELSE object
  /\ UNCHANGED <<pending, row, snapshots, profile, task, used, lost, presigned>>

ExpectedSize(c) == c # "short"

\* A stream that breaks off leaves what was written; one of the wrong size
\* is deleted.
DirectUploadEnds(k) ==
  /\ call[k].pc = "put"
  /\ \/ object' = IF ExpectedSize(call[k].of) THEN call[k].of ELSE None
     \/ UNCHANGED object
  /\ Set(k, Idle)
  /\ UNCHANGED <<pending, row, snapshots, profile, task, used, calm, lost, presigned>>

\* The presigned URL is used without the API, as long as it is valid: the
\* confirmation clears the pending key and leaves the URL as it is.
PresignedPut(c) ==
  /\ url
  /\ object' = c
  /\ calm' = (calm /\ \A k \in Clients : call[k].pc = "idle")
  /\ replaced' = (replaced \/ row # None)
  /\ UNCHANGED <<pending, url, row, snapshots, profile, call, task, used, lost>>

\* DIRECT_UPLOAD_TTL_SECONDS have passed.
UrlExpires ==
  /\ url /\ url' = FALSE
  /\ UNCHANGED <<pending, object, row, snapshots, profile, call, task, used, calm, lost, replaced>>

UploadFile(k, c) ==
  /\ ~used /\ used' = TRUE /\ Arrives(k)
  /\ object' = c
  /\ Set(k, [pc |-> "finalize", of |-> c, direct |-> FALSE])
  /\ UNCHANGED <<pending, row, snapshots, profile, task, lost, presigned>>

ConfirmDirectUpload(k) ==
  /\ pending /\ object # None /\ Arrives(k)
  /\ Set(k, [pc |-> "finalize", of |-> object, direct |-> TRUE])
  /\ UNCHANGED <<pending, object, row, snapshots, profile, task, used, lost, presigned>>

(***************************************************************************)
(* Finalising: check the content, insert the row, the snapshot, queue the  *)
(* profile.                                                                *)
(***************************************************************************)
ValidateFileContent(c) == c # "junk"

\* What pandas, csv or pyarrow finds in the content: its rows and columns.
ExtractFileMetadata(c) == [tooManyRows |-> c = "long", columns |-> c]

\* A file that does not parse stays in storage, without a row.
FinalizeRejects(k) ==
  LET meta == ExtractFileMetadata(call[k].of) IN
  /\ call[k].pc = "finalize"
  /\ \/ ~ValidateFileContent(call[k].of) /\ UNCHANGED object
     \/ ValidateFileContent(call[k].of) /\ meta.tooManyRows /\ object' = None
  /\ Set(k, Idle)
  /\ UNCHANGED <<pending, row, snapshots, profile, task, used, calm, lost, presigned>>

\* The primary key refuses a second row for the id.
FinalizeInserts(k) ==
  LET meta == ExtractFileMetadata(call[k].of) IN
  /\ call[k].pc = "finalize" /\ ValidateFileContent(call[k].of) /\ ~meta.tooManyRows
  /\ IF row = None THEN row' = meta.columns /\ Set(k, [call[k] EXCEPT !.pc = "snapshot"])
                   ELSE Set(k, Idle) /\ UNCHANGED row
  /\ UNCHANGED <<pending, object, snapshots, profile, task, used, calm, lost, presigned>>

\* The broker may be down: the file stays without a profile.
EnqueueProfileTask ==
  \/ \E t \in Tasks : task[t].pc = "none" /\ task' = [task EXCEPT ![t].pc = "queued"]
  \/ UNCHANGED task

\* Mutant: the pending key is left in Redis.
FinalizeEndsPending(k) ==
  /\ call[k].pc = "snapshot" /\ row # None /\ Len(snapshots) < MaxSnapshots
  /\ snapshots' = Append(snapshots, call[k].of)
  /\ EnqueueProfileTask
  /\ Set(k, Idle)
  /\ UNCHANGED <<pending, object, row, profile, used, calm, lost, presigned>>

\* The snapshot, the profile task, and for a direct upload the pending key;
\* the key may survive an error of Redis.
FinalizeEnds(k) ==
  /\ call[k].pc = "snapshot"
  /\ IF row = None THEN UNCHANGED <<snapshots, task, pending, calm>>
     ELSE /\ Len(snapshots) < MaxSnapshots
          /\ snapshots' = Append(snapshots, call[k].of)
          /\ EnqueueProfileTask
          /\ \/ pending' = (pending /\ ~call[k].direct) /\ UNCHANGED calm
             \/ call[k].direct /\ calm' = FALSE /\ UNCHANGED pending
  /\ Set(k, Idle)
  /\ UNCHANGED <<object, row, profile, used, lost, presigned>>

\* The API process dies between two commits of a request.
RequestDies(k) ==
  /\ call[k].pc \notin {"idle", "put"}
  /\ Set(k, Idle) /\ calm' = FALSE
  /\ UNCHANGED <<pending, object, row, snapshots, profile, task, used, lost, presigned>>

PendingExpires ==
  /\ pending /\ pending' = FALSE
  /\ UNCHANGED <<object, row, snapshots, profile, call, task, used, calm, lost, presigned>>

(***************************************************************************)
(* Deleting: the object first, then the row, which takes the snapshots and *)
(* the profile with it unless a snapshot has been added meanwhile.         *)
(***************************************************************************)
DeleteFileObject(k) ==
  /\ row # None /\ Arrives(k)
  /\ object' = None
  /\ Set(k, [pc |-> "delete", of |-> None, direct |-> FALSE])
  /\ UNCHANGED <<pending, row, snapshots, profile, task, used, lost, presigned>>

DeleteFileRow(k) ==
  /\ call[k].pc = "delete"
  /\ \/ row' = None /\ snapshots' = <<>> /\ profile' = None /\ UNCHANGED calm
     \/ calm' = FALSE /\ UNCHANGED <<row, snapshots, profile>>
  /\ Set(k, Idle)
  /\ UNCHANGED <<pending, object, task, used, lost, presigned>>

\* A run is submitted that loads the file (_create_run_schema_snapshots).
CreateRunSchemaSnapshot ==
  /\ row # None /\ Len(snapshots) < MaxSnapshots
  /\ snapshots' = Append(snapshots, row)
  /\ UNCHANGED <<pending, object, row, profile, call, task, used, calm, lost, presigned>>

(***************************************************************************)
(* The profile task.                                                       *)
(***************************************************************************)
RefreshFileProfile ==
  /\ row # None
  /\ profile' = IF profile = None THEN None ELSE [profile EXCEPT !.status = "pending"]
  /\ EnqueueProfileTask
  /\ UNCHANGED <<pending, object, row, snapshots, call, used, calm, lost, presigned>>

\* A file that is gone ends the task without a trace.
LoadFileFromDisk(t) ==
  /\ task[t].pc = "queued"
  /\ task' = [task EXCEPT ![t] = IF row = None \/ object = None THEN NoTask
                                 ELSE [pc |-> "loaded", of |-> object, tries |-> @.tries]]
  /\ UNCHANGED <<pending, object, row, snapshots, profile, call, used, calm, lost, presigned>>

\* No status is written for a missing file; an existing profile keeps its
\* result.
UpdateProfileStatus(status) ==
  profile' = IF row = None THEN profile
             ELSE [status |-> status, of |-> IF profile = None THEN None ELSE profile.of]

ProfileStarts(t) ==
  /\ task[t].pc = "loaded"
  /\ UpdateProfileStatus("running")
  /\ task' = [task EXCEPT ![t].pc = "running"]
  /\ UNCHANGED <<pending, object, row, snapshots, call, used, calm, lost, presigned>>

\* The foreign key refuses the profile of a deleted file.
SaveProfile(t) ==
  /\ task[t].pc = "running" /\ row # None
  /\ profile' = [status |-> "complete", of |-> task[t].of]
  /\ task' = [task EXCEPT ![t] = NoTask]
  /\ UNCHANGED <<pending, object, row, snapshots, call, used, calm, lost, presigned>>

Retry(t) == task' = [task EXCEPT ![t] =
                       IF @.tries = ProfileRetries THEN NoTask
                       ELSE [pc |-> "queued", of |-> None, tries |-> @.tries + 1]]

\* Mutant: the error handler retries without recording the failure.
ProfileFailsSilently(t) ==
  /\ task[t].pc \in {"queued", "loaded", "running"}
  /\ Retry(t)
  /\ UNCHANGED <<pending, object, row, snapshots, profile, call, used, calm, lost, presigned>>

\* Reading, profiling or saving raised.  An error while the failure is
\* recorded is suppressed.
ProfileFails(t) ==
  /\ task[t].pc \in {"queued", "loaded", "running"}
  /\ \/ UpdateProfileStatus("failed") /\ UNCHANGED lost
     \/ UNCHANGED profile /\ lost' = TRUE
  /\ Retry(t)
  /\ UNCHANGED <<pending, object, row, snapshots, call, used, calm, presigned>>

\* The hard time limit kills the process and its task is lost; a worker that
\* goes down as a whole has not acknowledged its task, which is delivered
\* again.
WorkerDies(t) ==
  /\ task[t].pc \in {"loaded", "running"}
  /\ \/ task' = [task EXCEPT ![t] = NoTask] /\ lost' = TRUE
     \/ task' = [task EXCEPT ![t].pc = "queued"] /\ UNCHANGED lost
  /\ UNCHANGED <<pending, object, row, snapshots, profile, call, used, calm, presigned>>

Next ==
  /\ \/ \E k \in Clients :
          \/ RequestUploadUrl(k) \/ DirectUploadEnds(k) \/ ConfirmDirectUpload(k)
          \/ FinalizeRejects(k) \/ FinalizeInserts(k) \/ FinalizeEnds(k) \/ RequestDies(k)
          \/ DeleteFileObject(k) \/ DeleteFileRow(k)
          \/ \E c \in Contents : DirectUploadStarts(k, c) \/ UploadFile(k, c)
     \/ \E c \in Contents : PresignedPut(c)
     \/ PendingExpires \/ UrlExpires \/ CreateRunSchemaSnapshot \/ RefreshFileProfile
     \/ \E t \in Tasks : \/ LoadFileFromDisk(t) \/ ProfileStarts(t) \/ SaveProfile(t)
                         \/ ProfileFails(t) \/ WorkerDies(t)
  /\ UNCHANGED storage

Spec == Init /\ [][Next]_vars

-----------------------------------------------------------------------------
(***************************************************************************)
(* What the read endpoints answer, None for a 404.                         *)
(***************************************************************************)
get_file == row

preview_file == IF row = None THEN None ELSE object

get_file_profile == IF row = None \/ profile = None THEN None ELSE profile.of

get_schema_history == IF row = None THEN <<>> ELSE snapshots

\* The last two snapshots differ.
get_schema_diff ==
  LET h == get_schema_history IN Len(h) >= 2 /\ h[Len(h)] # h[Len(h) - 1]

Shown ==
  row # None =>
    /\ ~replaced /\ (\A k \in Clients : call[k].pc # "delete") => preview_file = get_file
    /\ \A i \in DOMAIN get_schema_history : get_schema_history[i] = get_file
    /\ ~get_schema_diff
    /\ ~replaced => get_file_profile \in {None, get_file}

Profiled ==
  ~lost /\ (\A t \in Tasks : task[t].pc = "none") /\ (\A k \in Clients : call[k].pc # "delete") =>
    profile = None \/ profile.status # "running"

\* As long as no two requests for the file overlap and none breaks off, all
\* that is shown of a file agrees: its data, the columns of its row, every
\* snapshot runs took of it, and its profile; only a deletion under way has
\* removed the data first.  The schema history never drifts.  One request that
\* overlaps nothing does break the agreement of the data and the profile with
\* the row: a PUT at the presigned URL of S3, which stays valid after the
\* confirmation (`replaced`).  And no profile is left "running": unless a task
\* was lost, when none for the file is queued or under way its profile is
\* complete, failed, or was reset by a refresh whose task the broker refused.
\* (A task that finds the data deleted leaves the status to the deletion of
\* the row.)
FileIsConsistent == calm => Shown /\ Profiled

\* Without the exception for `replaced` the agreement does not hold on S3.
ConfirmedDataStays == calm /\ row # None /\ object # None => object = row
==============================================================================
