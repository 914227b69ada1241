----------------------------- MODULE DocPipeline -----------------------------
(***************************************************************************)
(* The whole path of a document: requests to the API (UploadJobs) and the  *)
(* workers (JobRunner), interleaved over the stores they share.            *)
(***************************************************************************)
EXTENDS UploadJobs, JobRunner

pipelineVars == <<jobs, ready, s3, req, audit, run, bda, dropped>>

PipelineInit ==
    /\ jobs = [j \in Jobs |-> NoRow]
    /\ ready = [j \in Jobs |-> 0]
    /\ s3 = {}
    /\ UploadInit
    /\ RunInit

PipelineNext ==
    \/ UploadNext /\ UNCHANGED <<run, bda, dropped>>
    \/ RunnerNext /\ UNCHANGED <<req, audit>>

PipelineSpec == PipelineInit /\ [][PipelineNext]_pipelineVars

-----------------------------------------------------------------------------
(* Properties. *)

PipelineTypeOK == UploadTypeOK /\ RunnerTypeOK

(* A request has j in hand, or had when it failed or its server died: the  *)
(* row may be there with no message, and no later step sends one.          *)
LeftBehind(j) == \E r \in Requests : req[r].cur = j

(* Every job that has a row is on its way to a final status, unless an     *)
(* attempt at it was lost or its upload broke between commit and publish.  *)
NoJobForgotten ==
    \A j \in Jobs : Exists(j) => InGoodHands(j) \/ j \in dropped \/ LeftBehind(j)

(* A 202 lists a job for every file of the batch, and none that the upload *)
(* left behind: the response is not sent before every message is.          *)
AcceptedIsProcessed ==
    \A r \in Requests : req[r].pc \in Answered =>
        /\ Cardinality(req[r].created) = Files[r]
        /\ \A j \in req[r].created : InGoodHands(j) \/ j \in dropped

(* BDA is never asked to read an input that is not in the bucket, and no   *)
(* worker takes up a job before its row is committed.                      *)
WorkHasItsInput ==
    /\ AttemptHasRow
    /\ \A i \in bda : i.job \in s3
=============================================================================
