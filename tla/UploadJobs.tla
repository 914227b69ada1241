----------------------------- MODULE UploadJobs -----------------------------
(***************************************************************************)
(* POST /api/v1/jobs: the handler create_jobs, one call per request, and   *)
(* the database session it runs in.  A batch is handled file by file: put  *)
(* the object, insert and commit the row, publish the message.  Any of     *)
(* these calls may fail or fail after having taken effect, and the API     *)
(* process may die between any two of them; what earlier files of the      *)
(* batch left in the stores then stays there.                              *)
(***************************************************************************)
EXTENDS Stores, FiniteSets

CONSTANTS
    Requests,    \* the upload requests
    Files,       \* request -> how many files it carries
    MaxBatch,    \* settings.max_batch_size
    Copies       \* how many copies of a message one send_task may leave in
                 \* the queue: {1}, or {1, 2} where a publish is retried after
                 \* its confirmation was lost

ASSUME UploadConstants ==
    /\ Files \in [Requests -> Nat]
    /\ MaxBatch \in Nat
    /\ Copies \subseteq Nat \ {0}

VARIABLES
    req,         \* request -> where its handler stands
    audit        \* the requests whose jobs_uploaded entry is committed

uploadVars == <<jobs, ready, s3, req, audit>>

(* The handler: pc, the files still to do, the file in hand, the response. *)
Handlers ==
    [pc      : {"idle", "read", "insert", "send", "audit", "teardown",
                "done", "unaudited", "refused", "failed", "crashed"},
     left    : Nat,
     cur     : Jobs \cup {None},
     created : SUBSET Jobs]

InFlight == {"read", "insert", "send", "audit", "teardown"}

(* A request is over once its client has an answer or has lost its server. *)
Answered == {"teardown", "done", "unaudited"}

Serving(r, label) == req[r].pc = label

Proceed(r, label) == req' = [req EXCEPT ![r].pc = label]

UploadInit ==
    /\ req = [r \in Requests |-> [pc |-> "idle", left |-> Files[r], cur |-> None, created |-> {}]]
    /\ audit = {}

-----------------------------------------------------------------------------
(* The batch is accepted for processing, or refused whole: no files, too   *)
(* many files, or turned away by the rate limiter or the authentication    *)
(* dependency, which run before the handler.                               *)
(* AdmitAuditing is not the code: it writes the audit entry first.         *)
AdmitAuditing(r) ==
    /\ Serving(r, "idle")
    /\ Proceed(r, "read")
    /\ audit' = audit \cup {r}
    /\ UNCHANGED stores

Admit(r) ==
    /\ Serving(r, "idle")
    /\ Files[r] \in 1 .. MaxBatch
    /\ Proceed(r, "read")
    /\ UNCHANGED <<jobs, ready, s3, audit>>

Refuse(r) ==
    /\ Serving(r, "idle")
    /\ Proceed(r, "refused")
    /\ UNCHANGED <<jobs, ready, s3, audit>>

(* A file of an unsupported type or too large ends the request (415, 413). *)
FileRejected(r) ==
    /\ Serving(r, "read")
    /\ Proceed(r, "failed")
    /\ UNCHANGED <<jobs, ready, s3, audit>>

(* The file passes, a fresh id is drawn and the object is put.             *)
(* StoreNothing is not the code: it leaves the upload for later.           *)
StoreNothing(r, j) ==
    /\ Serving(r, "read") /\ ~ Exists(j)
    /\ req' = [req EXCEPT ![r].pc = "insert", ![r].cur = j]
    /\ UNCHANGED <<jobs, ready, s3, audit>>

Store(r, j) ==
    /\ Serving(r, "read")
    /\ j \notin s3 /\ ~ Exists(j)
    /\ s3' = s3 \cup {j}
    /\ req' = [req EXCEPT ![r].pc = "insert", ![r].cur = j]
    /\ UNCHANGED <<jobs, ready, audit>>

(* upload_fileobj raises, with or without the object having been written. *)
StoreFails(r, j) ==
    /\ Serving(r, "read")
    /\ j \notin s3 /\ ~ Exists(j)
    /\ s3' \in {s3, s3 \cup {j}}
    /\ Proceed(r, "failed")
    /\ UNCHANGED <<jobs, ready, audit>>

(* jobs_repo.create and db.commit: the row is visible to every worker.     *)
(* InsertUncommitted is not the code: it leaves the commit to get_session. *)
InsertUncommitted(r) ==
    /\ Serving(r, "insert")
    /\ Proceed(r, "send")
    /\ UNCHANGED <<jobs, ready, s3, audit>>

Insert(r) ==
    /\ Serving(r, "insert")
    /\ jobs' = [jobs EXCEPT ![req[r].cur] = QueuedRow]
    /\ Proceed(r, "send")
    /\ UNCHANGED <<ready, s3, audit>>

(* The flush or the commit raises; a commit may have gone through. *)
InsertFails(r) ==
    /\ Serving(r, "insert")
    /\ jobs' \in {jobs, [jobs EXCEPT ![req[r].cur] = QueuedRow]}
    /\ Proceed(r, "failed")
    /\ UNCHANGED <<ready, s3, audit>>

(* The end of one turn of the loop: the item joins the response.           *)
(* NextFileUnlisted and NextFileEndless are not the code.                  *)
NextFileUnlisted(r) ==
    req' = [req EXCEPT ![r].pc = IF req[r].left = 1 THEN "audit" ELSE "read",
                       ![r].left = req[r].left - 1,
                       ![r].cur = None]

NextFileEndless(r) ==
    req' = [req EXCEPT ![r].pc = "read",
                       ![r].left = req[r].left - 1,
                       ![r].cur = None,
                       ![r].created = req[r].created \cup {req[r].cur}]

NextFile(r) ==
    req' = [req EXCEPT ![r].pc = IF req[r].left = 1 THEN "audit" ELSE "read",
                       ![r].left = req[r].left - 1,
                       ![r].cur = None,
                       ![r].created = req[r].created \cup {req[r].cur}]

(* send_task.  SendNothing is not the code: it publishes nothing. *)
SendNothing(r) ==
    /\ Serving(r, "send") /\ NextFile(r) /\ UNCHANGED <<jobs, ready, s3, audit>>

Send(r) ==
    /\ Serving(r, "send")
    /\ \E n \in Copies : ready' = [ready EXCEPT ![req[r].cur] = @ + n]
    /\ NextFile(r)
    /\ UNCHANGED <<jobs, s3, audit>>

(* send_task gives up; the broker may have taken the message all the same. *)
SendFails(r) ==
    /\ Serving(r, "send")
    /\ ready' \in {ready, [ready EXCEPT ![req[r].cur] = @ + 1]}
    /\ Proceed(r, "failed")
    /\ UNCHANGED <<jobs, s3, audit>>

(* audit.write flushes the entry and the handler returns 202.  The entry   *)
(* is not committed yet: get_session commits when the dependency is torn   *)
(* down, after the response has left.                                      *)
Respond(r) ==
    /\ Serving(r, "audit")
    /\ Proceed(r, "teardown")
    /\ UNCHANGED <<jobs, ready, s3, audit>>

AuditFails(r) ==
    /\ Serving(r, "audit")
    /\ Proceed(r, "failed")
    /\ UNCHANGED <<jobs, ready, s3, audit>>

Teardown(r) ==
    /\ Serving(r, "teardown")
    /\ audit' = audit \cup {r}
    /\ Proceed(r, "done")
    /\ UNCHANGED <<jobs, ready, s3>>

(* That last commit fails, and the client already holds its 202. *)
TeardownFails(r) ==
    /\ Serving(r, "teardown")
    /\ audit' \in {audit, audit \cup {r}}
    /\ Proceed(r, "unaudited")
    /\ UNCHANGED <<jobs, ready, s3>>

(* The API process dies, and every handler it was running with it. *)
AfterCrash(label) ==
    IF label = "teardown" THEN "unaudited"
    ELSE IF label \in InFlight THEN "crashed" ELSE label

ApiCrash ==
    /\ \E r \in Requests : req[r].pc \in InFlight
    /\ req' = [r \in Requests |-> [req[r] EXCEPT !.pc = AfterCrash(@)]]
    /\ UNCHANGED <<jobs, ready, s3, audit>>

UploadNext ==
    \/ \E r \in Requests :
          \/ Admit(r) \/ Refuse(r) \/ FileRejected(r)
          \/ \E j \in Jobs : Store(r, j) \/ StoreFails(r, j)
          \/ Insert(r) \/ InsertFails(r) \/ Send(r) \/ SendFails(r)
          \/ Respond(r) \/ AuditFails(r) \/ Teardown(r) \/ TeardownFails(r)
    \/ ApiCrash

-----------------------------------------------------------------------------
(* Properties. *)

UploadTypeOK ==
    /\ StoresTypeOK
    /\ req \in [Requests -> Handlers]
    /\ audit \subseteq Requests

(* A message is never in the queue before the row it names is committed    *)
(* ("ensure row visible to worker before dispatch"): run_job ends at once  *)
(* for a job it does not find, and nothing would run it later.             *)
RowBeforeMessage == \A j \in Jobs : ready[j] > 0 => Exists(j)

(* The audit log never tells of an upload that did not come to its end:    *)
(* the entry is written after the last file, in one commit.                *)
AuditTellsTheTruth ==
    \A r \in audit : req[r].pc \in Answered /\ Cardinality(req[r].created) = Files[r]
=============================================================================
