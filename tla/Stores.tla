------------------------------- MODULE Stores -------------------------------
(***************************************************************************)
(* The three stores the web API and the Celery workers share, and nothing  *)
(* else: the jobs table in PostgreSQL, the queue "default" in RabbitMQ and *)
(* the S3 input bucket.  The API (UploadJobs) and the workers (JobRunner)  *)
(* never talk to each other in any other way.                              *)
(***************************************************************************)
EXTENDS Naturals

CONSTANTS
    Jobs,        \* the job ids uuid4 may hand out
    None,        \* SQL NULL
    NoRow        \* what session.get returns when there is no such row

VARIABLES
    jobs,        \* the jobs table: job id -> its committed row, or NoRow
    ready,       \* job id -> process_document messages waiting in the queue
    s3           \* the jobs whose input object is in the bucket

stores == <<jobs, ready, s3>>

-----------------------------------------------------------------------------
(* The columns of a row, down to what the worker writes.  An invocation of *)
(* the extraction service is named by its ARN, which the service derives   *)
(* from the client token: here the ARN is the token, and so a job id.      *)

Arns == Jobs

(* The error_code of a failed row: the code of a BdaTerminalFailure        *)
(* ("ServiceError" stands for the three terminal answers of the service,   *)
(* "TimeoutError"), or the class name of any other exception.              *)
ErrorCodes ==
    {"ServiceError", "TimeoutError", "TransientBdaError", "ClientError",
     "ValueError", "DBAPIError", "SoftTimeLimitExceeded"}

Rows ==
    [status    : {"queued", "processing", "success", "failed"},
     arn       : Arns \cup {None},                         \* bda_invocation_arn
     result    : Arns \cup {None},                         \* fields, raw output, pages, cost
     error     : ErrorCodes \cup {None},                  \* error_code, error_message
     completed : BOOLEAN]                                  \* completed_at IS NOT NULL

ASSUME StoreConstants ==
    /\ None \notin Jobs
    /\ None \notin ErrorCodes
    /\ NoRow \notin Rows

(* The row jobs_repo.create inserts. *)
QueuedRow ==
    [status |-> "queued", arn |-> None, result |-> None, error |-> None, completed |-> FALSE]

Exists(j) == jobs[j] # NoRow

Settled(row) == row.status \in {"success", "failed"}

(* What commit writes: the ORM updates the columns whose new value differs *)
(* from the one the session read, and leaves every other column as another *)
(* transaction may have left it since.                                     *)
Flush(row, read, edit) ==
    [status    |-> IF edit.status = read.status THEN row.status ELSE edit.status,
     arn       |-> IF edit.arn = read.arn THEN row.arn ELSE edit.arn,
     result    |-> IF edit.result = read.result THEN row.result ELSE edit.result,
     error     |-> IF edit.error = read.error THEN row.error ELSE edit.error,
     completed |-> IF edit.completed = read.completed THEN row.completed ELSE edit.completed]

StoresTypeOK ==
    /\ jobs \in [Jobs -> Rows \cup {NoRow}]
    /\ ready \in [Jobs -> Nat]
    /\ s3 \subseteq Jobs
=============================================================================
