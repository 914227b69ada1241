--------------------------- MODULE PipelineProofs ---------------------------
(***************************************************************************)
(* The whole path of a document, for any number of requests, files, jobs,  *)
(* slots and workers and under every fault of the workers and of the API:  *)
(* what the uploads promise and what becomes of it, and that everything    *)
(* proved of the workers alone holds beside the uploads too.               *)
(***************************************************************************)
EXTENDS DocPipeline, JobRunnerProofs

(* Where a request stands in its batch. *)
Counting == {"idle", "read", "insert", "send", "audit"} \cup Answered

BatchInv(r) ==
    /\ IsFiniteSet(req[r].created)
    /\ req[r].pc \in {"idle", "read"} => req[r].cur = None
    /\ req[r].pc = "idle" => req[r].left = Files[r]
    /\ req[r].pc = "insert" => req[r].cur # None /\ ~ Exists(req[r].cur)
    /\ req[r].pc = "send" => req[r].cur # None /\ Exists(req[r].cur)
    /\ req[r].pc \in Counting => Cardinality(req[r].created) + req[r].left = Files[r]
    /\ req[r].pc \in {"read", "insert", "send"} => req[r].left > 0
    /\ req[r].pc \in {"audit"} \cup Answered => req[r].left = 0

(* No id is drawn twice: what a request has in hand is in the bucket, and  *)
(* is neither in another's hands nor in any response.                      *)
IdsInv ==
    /\ \A r \in Requests : req[r].cur # None => req[r].cur \in s3
    /\ \A r, q \in Requests : req[r].cur # None /\ req[r].cur = req[q].cur => r = q
    /\ \A r, q \in Requests : req[r].cur \notin req[q].created
    /\ \A j \in Jobs : Exists(j) => j \in s3

InHand(j) == InGoodHands(j) \/ j \in dropped

ListedInHand == \A r \in Requests : \A j \in req[r].created : Exists(j) /\ InHand(j)

AuditedIsOver == \A r \in audit : req[r].pc \in Answered

InputThere == \A i \in bda : i.job \in s3

PipelineInv ==
    /\ UploadTypeOK /\ TypeInv
    /\ \A r \in Requests : BatchInv(r)
    /\ IdsInv
    /\ ListedInHand /\ NoJobForgotten
    /\ AuditedIsOver /\ InputThere

WorkersInv == RowInv /\ InvocationInv

-----------------------------------------------------------------------------
(* The beginning. *)

LEMMA NoRowsYet == PipelineInit => \A j \in Jobs : ~ Exists(j)
BY DEF PipelineInit, Exists

LEMMA PipelineBegins == PipelineInit => PipelineInv /\ WorkersInv
<1> SUFFICES ASSUME PipelineInit PROVE PipelineInv /\ WorkersInv
  OBVIOUS
<1>0. \A j \in Jobs : ~ Exists(j)
  BY NoRowsYet
<1>1. \A r \in Requests : /\ req[r].pc = "idle" /\ req[r].left = Files[r]
                          /\ req[r].cur = None /\ req[r].created = {}
  BY DEF PipelineInit, UploadInit
<1>2. StoresTypeOK /\ UploadTypeOK
  <2>1. StoresTypeOK
    BY DEF PipelineInit, StoresTypeOK
  <2>2. req \in [Requests -> Handlers]
    BY UploadConstants DEF PipelineInit, UploadInit, Handlers
  <2> QED BY <2>1, <2>2 DEF UploadTypeOK, PipelineInit, UploadInit
<1>3. /\ IdleTask \in Tasks /\ run = [s \in Slots |-> IdleTask]
      /\ bda = {} /\ dropped = {}
  BY RunnerConstants DEF PipelineInit, RunInit, IdleTask, Tasks, Labels
<1>4. TypeInv
  <2>1. RunnerTypeOK
    BY <1>2, <1>3 DEF RunnerTypeOK
  <2>2. \A s \in Slots : TaskInv(s)
    BY <1>3 DEF IdleTask, TaskInv, At, SetLabels
  <2> QED BY <2>1, <2>2 DEF TypeInv, PipelineInit
<1>5. ASSUME NEW r \in Requests PROVE BatchInv(r)
  <2>1. IsFiniteSet({}) /\ Cardinality({}) = 0
    BY FS_EmptySet
  <2>2. Files[r] \in Nat /\ 0 + Files[r] = Files[r]
    BY UploadConstants
  <2> QED BY <1>1, <2>1, <2>2 DEF BatchInv, Answered
<1>6. IdsInv /\ ListedInHand /\ NoJobForgotten /\ AuditedIsOver /\ InputThere
  BY <1>0, <1>1, <1>3 DEF IdsInv, ListedInHand, NoJobForgotten, AuditedIsOver, InputThere,
     PipelineInit, UploadInit
<1>7. RowInv
  BY <1>0, <1>3 DEF RowInv, SettledRowsComplete, AttemptInv, IdleTask, InTry, SetLabels
<1>8. InvocationInv
  <2>1. TokenIsJob /\ \A s \in Slots : Knows(s)
    BY <1>3 DEF IdleTask, TokenIsJob, Knows, PastInvoke, Recorded
  <2> QED BY <1>0, <2>1 DEF InvocationInv, RowAgreesWithBda
<1> QED BY <1>2, <1>4, <1>5, <1>6, <1>7, <1>8 DEF PipelineInv, WorkersInv

-----------------------------------------------------------------------------
(* A step of the workers. *)

(* The workers never touch the bucket, and an invocation they make is for  *)
(* a job with a row.                                                       *)
LEMMA WorkersKeepInputs ==
    ASSUME TypeInv, RunnerNext
    PROVE  /\ s3' = s3
           /\ \A i \in bda' : (\E k \in bda : k.job = i.job) \/ (i.job \in Jobs /\ Exists(i.job))
<1>1. s3' = s3
  <2>1. ASSUME NEW s \in Slots, RunStep(s) PROVE s3' = s3
    BY <2>1, RunStepType
  <2> QED BY <2>1 DEF RunnerNext, Deliver, PollTimeout, DbError, SoftLimit, ChildKilled,
             WorkerCrash, ConnectionLoss, BdaFinish
<1>2. ASSUME NEW s \in Slots, run[s].pc = "invoke", bda' = Submitted(s)
      PROVE  \A i \in bda' : (\E k \in bda : k.job = i.job) \/ (i.job \in Jobs /\ Exists(i.job))
  <2>1. run[s].job \in Jobs /\ Exists(run[s].job)
    BY <1>2 DEF TypeInv, TaskInv, At
  <2> QED BY <1>2, <2>1 DEF Submitted
<1>3. ASSUME NEW i \in bda, NEW status \in Outcomes, BdaFinish(i, status)
      PROVE  \A k \in bda' : \E m \in bda : m.job = k.job
  <2>1. i \in Invocations
    BY DEF TypeInv, RunnerTypeOK
  <2>2. [i EXCEPT !.status = status].job = i.job
    BY <2>1 DEF Invocations
  <2> QED BY <1>3, <2>2 DEF BdaFinish
<1> QED BY <1>1, <1>2, <1>3, BdaStep

LEMMA WorkersStep ==
    ASSUME PipelineInv, WorkersInv, RunnerNext, UNCHANGED <<req, audit>>
    PROVE  PipelineInv' /\ WorkersInv'
<1>0. TypeInv /\ RowInv /\ InvocationInv
  BY DEF PipelineInv, WorkersInv
<1>1. TypeInv' /\ WorkersInv'
  BY <1>0, TypeStep, RowInvStep, InvocationStep DEF WorkersInv
<1>2. s3' = s3 /\ \A j \in Jobs : Exists(j)' <=> Exists(j)
  BY <1>0, RowsStay, WorkersKeepInputs
<1>3. UploadTypeOK'
  BY <1>1 DEF PipelineInv, UploadTypeOK, TypeInv, RunnerTypeOK
<1>4. \A r \in Requests : req[r].cur \in Jobs \cup {None} /\ req[r].created \subseteq Jobs
  BY DEF PipelineInv, UploadTypeOK, Handlers
<1>5. ASSUME NEW r \in Requests PROVE BatchInv(r)'
  <2>1. BatchInv(r)
    BY DEF PipelineInv
  <2> QED BY <1>2, <1>4, <2>1 DEF BatchInv
<1>6. IdsInv'
  BY <1>2 DEF PipelineInv, IdsInv
<1>7. ASSUME NEW j \in Jobs, Exists(j), InHand(j) PROVE InHand(j)'
  BY <1>0, <1>7, HandsStep DEF InHand
<1>8. ListedInHand'
  BY <1>2, <1>4, <1>7 DEF PipelineInv, ListedInHand
<1>9. NoJobForgotten'
  BY <1>2, <1>7 DEF PipelineInv, NoJobForgotten, LeftBehind, InHand
<1>10. AuditedIsOver'
  BY DEF PipelineInv, AuditedIsOver
<1>11. InputThere'
  BY <1>0, <1>2, WorkersKeepInputs DEF PipelineInv, InputThere, IdsInv
<1> QED BY <1>1, <1>3, <1>5, <1>6, <1>8, <1>9, <1>10, <1>11 DEF PipelineInv

-----------------------------------------------------------------------------
(* A step of an upload. *)

Same(r) ==
    /\ req'[r].cur = req[r].cur /\ req'[r].left = req[r].left
    /\ req'[r].created = req[r].created

(* A handler that only goes on to another place. *)
Moves(r, label) == req'[r].pc = label /\ Same(r) /\ \A q \in Requests \ {r} : req'[q] = req[q]

LEMMA ProceedMoves ==
    ASSUME UploadTypeOK, NEW r \in Requests, NEW label, Proceed(r, label)
    PROVE  Moves(r, label)
BY DEF UploadTypeOK, Handlers, Proceed, Moves, Same

(* What an upload does to the stores: it adds at most the row of the job a *)
(* request is about to insert, publishes only for a job with a row, and    *)
(* takes nothing away.                                                     *)
Adds ==
    /\ \/ jobs' = jobs
       \/ \E r \in Requests : /\ req[r].pc = "insert"
                             /\ jobs' = [jobs EXCEPT ![req[r].cur] = QueuedRow]
    /\ \/ ready' = ready
       \/ \E r \in Requests, n \in Nat : /\ req[r].pc = "send"
                                      /\ ready' = [ready EXCEPT ![req[r].cur] = @ + n]
    /\ s3 \subseteq s3'

LEMMA UploadAdds ==
    ASSUME PipelineInv, UploadNext
    PROVE  Adds
<1>1. ASSUME NEW r \in Requests, Send(r) \/ SendFails(r)
      PROVE  Adds
  <2>1. CASE ready' = ready
    BY <1>1, <2>1 DEF Send, SendFails, Adds
  <2>2. ASSUME NEW n \in Nat, ready' = [ready EXCEPT ![req[r].cur] = @ + n]
        PROVE  Adds
    BY <1>1, <2>2 DEF Send, SendFails, Serving, Adds
  <2>3. 1 \in Nat /\ Copies \subseteq Nat
    BY UploadConstants
  <2> QED BY <1>1, <2>1, <2>2, <2>3 DEF Send, SendFails
<1>2. ASSUME NEW r \in Requests, Insert(r) \/ InsertFails(r)
      PROVE  Adds
  BY <1>2 DEF Insert, InsertFails, Serving, Adds
<1>3. ASSUME NEW r \in Requests,
             \/ Admit(r) \/ Refuse(r) \/ FileRejected(r)
             \/ \E j \in Jobs : Store(r, j) \/ StoreFails(r, j)
             \/ Respond(r) \/ AuditFails(r) \/ Teardown(r) \/ TeardownFails(r)
      PROVE  Adds
  BY <1>3 DEF Admit, Refuse, FileRejected, Store, StoreFails, Respond, AuditFails, Teardown,
     TeardownFails, Adds
<1>4. CASE ApiCrash
  BY <1>4 DEF ApiCrash, Adds
<1> QED BY <1>1, <1>2, <1>3, <1>4 DEF UploadNext

(* So every row that was there is as it was, and messages only for jobs    *)
(* that have one are added.                                                *)
LEMMA UploadGrows ==
    ASSUME PipelineInv, Adds
    PROVE  /\ jobs' \in [Jobs -> Rows \cup {NoRow}]
           /\ \A j \in Jobs : Exists(j) => jobs'[j] = jobs[j] /\ Exists(j)'
           /\ \A j \in Jobs : Exists(j)' /\ ~ Exists(j) =>
                 jobs'[j] = QueuedRow /\ \E r \in Requests : req[r].pc = "insert" /\ req[r].cur = j
           /\ ready' \in [Jobs -> Nat]
           /\ \A j \in Jobs : ready[j] > 0 => ready'[j] > 0
           /\ \A j \in Jobs : ready'[j] > 0 => Exists(j)
<1>1. /\ jobs \in [Jobs -> Rows \cup {NoRow}] /\ ready \in [Jobs -> Nat]
      /\ \A j \in Jobs : ready[j] > 0 => Exists(j)
  BY DEF PipelineInv, TypeInv, RunnerTypeOK, StoresTypeOK
<1>2. ASSUME NEW r \in Requests
      PROVE  /\ req[r].pc = "insert" => req[r].cur \in Jobs /\ ~ Exists(req[r].cur)
             /\ req[r].pc = "send" => req[r].cur \in Jobs /\ Exists(req[r].cur)
  BY DEF PipelineInv, UploadTypeOK, Handlers, BatchInv
<1>3. QueuedRow \in Rows /\ QueuedRow # NoRow
  <2>1. QueuedRow \in Rows
    BY DEF QueuedRow, Rows
  <2> QED BY <2>1, StoreConstants
<1>4. /\ jobs' \in [Jobs -> Rows \cup {NoRow}]
      /\ \A j \in Jobs : Exists(j) => jobs'[j] = jobs[j] /\ Exists(j)'
      /\ \A j \in Jobs : Exists(j)' /\ ~ Exists(j) =>
            jobs'[j] = QueuedRow /\ \E r \in Requests : req[r].pc = "insert" /\ req[r].cur = j
  <2>1. CASE jobs' = jobs
    BY <1>1, <2>1 DEF Exists
  <2>2. ASSUME NEW r \in Requests, req[r].pc = "insert",
               jobs' = [jobs EXCEPT ![req[r].cur] = QueuedRow]
        PROVE  /\ jobs' \in [Jobs -> Rows \cup {NoRow}]
               /\ \A j \in Jobs : Exists(j) => jobs'[j] = jobs[j] /\ Exists(j)'
               /\ \A j \in Jobs : Exists(j)' /\ ~ Exists(j) =>
                     jobs'[j] = QueuedRow
                     /\ \E q \in Requests : req[q].pc = "insert" /\ req[q].cur = j
    BY <1>1, <1>2, <1>3, <2>2 DEF Exists
  <2> QED BY <2>1, <2>2 DEF Adds
<1>5. /\ ready' \in [Jobs -> Nat]
      /\ \A j \in Jobs : ready[j] > 0 => ready'[j] > 0
      /\ \A j \in Jobs : ready'[j] > 0 => Exists(j)
  <2>1. CASE ready' = ready
    BY <1>1, <2>1
  <2>2. ASSUME NEW r \in Requests, NEW n \in Nat, req[r].pc = "send",
               ready' = [ready EXCEPT ![req[r].cur] = @ + n]
        PROVE  /\ ready' \in [Jobs -> Nat]
               /\ \A j \in Jobs : ready[j] > 0 => ready'[j] > 0
               /\ \A j \in Jobs : ready'[j] > 0 => Exists(j)
    BY <1>1, <1>2, <2>2
  <2> QED BY <2>1, <2>2 DEF Adds
<1> QED BY <1>4, <1>5

(* The workers do not notice an upload, and what was in hand stays so.     *)
LEMMA WorkersUndisturbed ==
    ASSUME PipelineInv, WorkersInv, Adds, UNCHANGED <<run, bda, dropped>>, s3' \subseteq Jobs
    PROVE  /\ TypeInv' /\ WorkersInv' /\ InputThere'
           /\ \A j \in Jobs : Exists(j) /\ InHand(j) => InHand(j)'
<1>1. /\ jobs' \in [Jobs -> Rows \cup {NoRow}]
      /\ \A j \in Jobs : Exists(j) => jobs'[j] = jobs[j] /\ Exists(j)'
      /\ \A j \in Jobs : Exists(j)' /\ ~ Exists(j) => jobs'[j] = QueuedRow
      /\ ready' \in [Jobs -> Nat]
      /\ \A j \in Jobs : ready[j] > 0 => ready'[j] > 0
      /\ \A j \in Jobs : ready'[j] > 0 => Exists(j)
  BY UploadGrows
<1>2. /\ RunnerTypeOK /\ \A s \in Slots : TaskInv(s)
      /\ \A s \in Slots : run[s].pc # "idle" => run[s].job \in Jobs /\ Exists(run[s].job)
  BY DEF PipelineInv, TypeInv, TaskInv, At
<1>3. TypeInv'
  <2>1. RunnerTypeOK'
    BY <1>1, <1>2 DEF RunnerTypeOK, StoresTypeOK
  <2>2. ASSUME NEW s \in Slots PROVE TaskInv(s)'
    BY <1>1, <1>2 DEF TaskInv, At
  <2> QED BY <1>1, <2>1, <2>2 DEF TypeInv
<1>4. RowInv'
  <2>1. SettledRowsComplete'
    <3>1. Complete(QueuedRow)
      BY DEF Complete, QueuedRow
    <3> QED BY <1>1, <3>1 DEF WorkersInv, RowInv, SettledRowsComplete
  <2>2. ASSUME NEW s \in Slots PROVE AttemptInv(s)'
    <3>1. AttemptInv(s)
      BY DEF WorkersInv, RowInv
    <3>2. CASE run[s].pc = "idle"
      BY <3>2 DEF AttemptInv, InTry, SetLabels
    <3>3. CASE run[s].pc # "idle"
      <4>1. jobs'[run[s].job] = jobs[run[s].job]
        BY <1>1, <1>2, <3>3
      <4> QED BY <3>1, <4>1 DEF AttemptInv
    <3> QED BY <3>2, <3>3
  <2> QED BY <2>1, <2>2 DEF RowInv
<1>5. InvocationInv'
  <2>1. TokenIsJob'
    BY DEF WorkersInv, InvocationInv, TokenIsJob
  <2>2. ASSUME NEW j \in Jobs, Exists(j)'
        PROVE  /\ OwnRow(j)'
               /\ jobs'[j].result # None => EndedAs(j, "Success")
               /\ jobs'[j].error = "ServiceError" => EndedAs(j, "ServiceError")
               /\ jobs'[j].error = "ValueError" => EndedAs(j, "BadOutput")
    <3>1. CASE Exists(j)
      BY <1>1, <3>1 DEF WorkersInv, InvocationInv, OwnRow, RowAgreesWithBda
    <3>2. CASE ~ Exists(j)
      <4>1. jobs'[j] = QueuedRow
        BY <1>1, <2>2, <3>2
      <4>2. None # "ServiceError" /\ None # "ValueError"
        BY StoreConstants DEF ErrorCodes
      <4> QED BY <4>1, <4>2 DEF QueuedRow, OwnRow
    <3> QED BY <3>1, <3>2
  <2>3. ASSUME NEW s \in Slots PROVE Knows(s)'
    <3>1. Knows(s)
      BY DEF WorkersInv, InvocationInv
    <3>2. CASE run[s].pc = "idle"
      BY <3>2 DEF Knows, PastInvoke, Recorded
    <3>3. CASE run[s].pc # "idle"
      <4>1. jobs'[run[s].job] = jobs[run[s].job]
        BY <1>1, <1>2, <3>3
      <4> QED BY <3>1, <4>1 DEF Knows, EndedAs
    <3> QED BY <3>2, <3>3
  <2> QED BY <2>1, <2>2, <2>3 DEF InvocationInv, RowAgreesWithBda, EndedAs
<1>6. InputThere'
  BY DEF PipelineInv, InputThere, Adds
<1>7. ASSUME NEW j \in Jobs, Exists(j), InHand(j) PROVE InHand(j)'
  <2>1. \A s \in Slots : Owes(s, j) => Owes(s, j)'
    BY DEF Owes, At
  <2> QED BY <1>1, <1>7, <2>1 DEF InHand, InGoodHands
<1> QED BY <1>3, <1>4, <1>5, <1>6, <1>7 DEF WorkersInv

-----------------------------------------------------------------------------
(* The requests. *)

Places == InFlight \cup {"idle", "done", "unaudited", "refused", "failed", "crashed"}

(* What is known of the requests before a step, as the cases below use it. *)
LEMMA RequestFacts ==
    ASSUME PipelineInv, NEW r \in Requests
    PROVE  /\ req \in [Requests -> Handlers] /\ req[r] \in Handlers
           /\ req[r].cur \in Jobs \cup {None} /\ req[r].created \subseteq Jobs
           /\ req[r].left \in Nat /\ BatchInv(r)
           /\ Cardinality(req[r].created) \in Nat
           /\ (r \in audit => req[r].pc \in Answered)
<1>1. req \in [Requests -> Handlers] /\ req[r] \in Handlers /\ BatchInv(r)
  BY DEF PipelineInv, UploadTypeOK
<1>2. Cardinality(req[r].created) \in Nat
  BY <1>1, FS_CardinalityType DEF BatchInv
<1>3. r \in audit => req[r].pc \in Answered
  BY DEF PipelineInv, AuditedIsOver
<1> QED BY <1>1, <1>2, <1>3 DEF Handlers

(* A request that did not move keeps its place in its batch, even when     *)
(* another one inserts its row.                                            *)
LEMMA OthersKept ==
    ASSUME PipelineInv, NEW r \in Requests, NEW q \in Requests \ {r}, req'[q] = req[q],
           \/ jobs' = jobs
           \/ req[r].pc = "insert" /\ jobs' = [jobs EXCEPT ![req[r].cur] = QueuedRow],
           Adds
    PROVE  BatchInv(q)'
<1>1. /\ BatchInv(q) /\ BatchInv(r)
      /\ req[q].cur \in Jobs \cup {None} /\ req[r].cur \in Jobs \cup {None}
      /\ jobs \in [Jobs -> Rows \cup {NoRow}]
  BY RequestFacts DEF PipelineInv, TypeInv, RunnerTypeOK, StoresTypeOK
<1>2. req[q].pc = "insert" => ~ Exists(req[q].cur)'
  <2> SUFFICES ASSUME req[q].pc = "insert" PROVE jobs'[req[q].cur] = NoRow
    BY DEF Exists
  <2>1. req[q].cur \in Jobs /\ jobs[req[q].cur] = NoRow /\ req[q].cur # None
    BY <1>1 DEF BatchInv, Exists
  <2>2. req[r].cur # req[q].cur
    BY <2>1 DEF PipelineInv, IdsInv
  <2> QED BY <1>1, <2>1, <2>2
<1>3. req[q].pc = "send" => Exists(req[q].cur)'
  <2> SUFFICES ASSUME req[q].pc = "send" PROVE jobs'[req[q].cur] # NoRow
    BY DEF Exists
  <2>1. req[q].cur \in Jobs /\ Exists(req[q].cur)
    BY <1>1 DEF BatchInv
  <2> QED BY <2>1, UploadGrows DEF Exists
<1> QED BY <1>1, <1>2, <1>3 DEF BatchInv, Exists

(* Where requests only move, ids stay apart and no job gets out of hand:   *)
(* the one whose row is new is still in its request's hand.                *)
LEMMA MovesKeepHands ==
    ASSUME PipelineInv, WorkersInv, Adds, UNCHANGED <<run, bda, dropped>>, s3' \subseteq Jobs,
           \A r \in Requests : Same(r)
    PROVE  IdsInv' /\ ListedInHand' /\ NoJobForgotten'
<1>1. /\ \A j \in Jobs : Exists(j) /\ InHand(j) => InHand(j)'
      /\ \A j \in Jobs : Exists(j) => Exists(j)'
      /\ \A j \in Jobs : Exists(j)' /\ ~ Exists(j) =>
            \E r \in Requests : req[r].pc = "insert" /\ req[r].cur = j
      /\ s3 \subseteq s3'
  BY UploadGrows, WorkersUndisturbed DEF Adds
<1>2. \A r \in Requests : /\ req'[r].cur = req[r].cur /\ req'[r].created = req[r].created
                          /\ req[r].created \subseteq Jobs
                          /\ req[r].pc = "insert" => req[r].cur # None
  BY RequestFacts DEF Same, BatchInv
<1>3. IdsInv'
  <2>1. ASSUME NEW j \in Jobs, Exists(j)' PROVE j \in s3'
    BY <1>1, <1>2, <2>1 DEF PipelineInv, IdsInv
  <2> QED BY <1>1, <1>2, <2>1 DEF PipelineInv, IdsInv
<1>4. ListedInHand'
  BY <1>1, <1>2 DEF PipelineInv, ListedInHand
<1>5. NoJobForgotten'
  BY <1>1, <1>2 DEF PipelineInv, NoJobForgotten, InHand, LeftBehind
<1> QED BY <1>3, <1>4, <1>5

(* What remains to be shown of a step of an upload is where it leaves the  *)
(* requests.                                                               *)
LEMMA Restored ==
    ASSUME PipelineInv, WorkersInv, Adds, UNCHANGED <<run, bda, dropped>>, s3' \subseteq Jobs,
           req' \in [Requests -> Handlers], audit' \subseteq Requests,
           \A r \in Requests : BatchInv(r)',
           \A r \in audit' : req'[r].pc \in Answered,
           IdsInv' /\ ListedInHand' /\ NoJobForgotten'
    PROVE  PipelineInv' /\ WorkersInv'
<1>1. TypeInv' /\ WorkersInv' /\ InputThere'
  BY WorkersUndisturbed
<1>2. UploadTypeOK'
  BY <1>1 DEF UploadTypeOK, TypeInv, RunnerTypeOK
<1> QED BY <1>1, <1>2 DEF PipelineInv, AuditedIsOver

(* A step that only moves one request. *)
LEMMA MoveRestores ==
    ASSUME PipelineInv, WorkersInv, Adds, UNCHANGED <<run, bda, dropped>>, s3' \subseteq Jobs,
           NEW r \in Requests, NEW label \in Places, Proceed(r, label),
           \/ jobs' = jobs
           \/ req[r].pc = "insert" /\ jobs' = [jobs EXCEPT ![req[r].cur] = QueuedRow],
           audit' \subseteq audit \cup {r}, r \in audit' => label \in Answered,
           BatchInv(r)'
    PROVE  PipelineInv' /\ WorkersInv'
<1>1. Moves(r, label) /\ req' \in [Requests -> Handlers]
  <2>1. UploadTypeOK /\ req \in [Requests -> Handlers]
    BY DEF PipelineInv, UploadTypeOK
  <2>2. req' \in [Requests -> Handlers]
    BY <2>1 DEF Proceed, Handlers, Places, InFlight
  <2> QED BY <2>1, <2>2, ProceedMoves
<1>2. \A q \in Requests : Same(q)
  BY <1>1 DEF Moves, Same
<1>3. \A q \in Requests : BatchInv(q)'
  BY <1>1, OthersKept DEF Moves
<1>4. audit' \subseteq Requests
  BY DEF PipelineInv, UploadTypeOK
<1>5. ASSUME NEW q \in audit' PROVE req'[q].pc \in Answered
  BY <1>1, <1>4, <1>5 DEF PipelineInv, AuditedIsOver, Moves
<1> QED BY <1>1, <1>2, <1>3, <1>4, <1>5, MovesKeepHands, Restored

(* The turns of the loop that leave files, rows and messages behind, or    *)
(* nothing.                                                                *)
LEMMA MovingSteps ==
    ASSUME PipelineInv, WorkersInv, Adds, UNCHANGED <<run, bda, dropped>>, NEW r \in Requests,
           \/ Admit(r) \/ Refuse(r) \/ FileRejected(r) \/ \E j \in Jobs : StoreFails(r, j)
           \/ Insert(r) \/ InsertFails(r) \/ SendFails(r)
           \/ Respond(r) \/ AuditFails(r) \/ Teardown(r) \/ TeardownFails(r)
    PROVE  PipelineInv' /\ WorkersInv'
<1>0. /\ BatchInv(r) /\ req[r].left \in Nat /\ Files[r] \in Nat
      /\ r \in audit => req[r].pc \in Answered
      /\ req[r].cur \in Jobs \cup {None}
      /\ UploadTypeOK /\ s3 \subseteq Jobs
      /\ jobs \in [Jobs -> Rows \cup {NoRow}]
  BY RequestFacts, UploadConstants
  DEF PipelineInv, UploadTypeOK, StoresTypeOK
<1>1. ASSUME NEW label \in {"refused", "failed"}, Proceed(r, label) PROVE BatchInv(r)'
  <2>1. Moves(r, label)
    BY <1>0, <1>1, ProceedMoves
  <2> QED BY <1>0, <1>1, <2>1 DEF Moves, Same, BatchInv, Counting, Answered
<1>2. CASE Admit(r)
  <2>1. Proceed(r, "read") /\ req[r].pc = "idle" /\ req[r].left > 0
        /\ jobs' = jobs /\ s3' = s3 /\ audit' = audit
    BY <1>0, <1>2 DEF Admit, Serving, BatchInv
  <2>2. Moves(r, "read")
    BY <1>0, <2>1, ProceedMoves
  <2>3. BatchInv(r)'
    BY <1>0, <2>1, <2>2 DEF Moves, Same, BatchInv, Counting, Answered
  <2>4. r \notin audit
    BY <1>0, <2>1 DEF Answered
  <2> QED BY <1>0, <2>1, <2>3, <2>4, MoveRestores DEF Places, InFlight
<1>3. CASE Refuse(r) \/ FileRejected(r) \/ AuditFails(r)
  <2>1. /\ Proceed(r, "refused") \/ Proceed(r, "failed")
        /\ req[r].pc \in {"idle", "read", "audit"}
        /\ jobs' = jobs /\ s3' = s3 /\ audit' = audit
    BY <1>3 DEF Refuse, FileRejected, AuditFails, Serving
  <2>2. BatchInv(r)'
    BY <1>1, <2>1
  <2>3. r \notin audit
    BY <1>0, <2>1 DEF Answered
  <2> QED BY <1>0, <2>1, <2>2, <2>3, MoveRestores DEF Places, InFlight
<1>4. CASE (\E j \in Jobs : StoreFails(r, j)) \/ SendFails(r)
  <2>1. /\ Proceed(r, "failed") /\ req[r].pc \in {"read", "send"}
        /\ jobs' = jobs /\ s3' \subseteq Jobs /\ audit' = audit
    BY <1>0, <1>4 DEF StoreFails, SendFails, Serving
  <2>2. BatchInv(r)'
    BY <1>1, <2>1
  <2>3. r \notin audit
    BY <1>0, <2>1 DEF Answered
  <2> QED BY <1>0, <2>1, <2>2, <2>3, MoveRestores DEF Places, InFlight
<1>5. CASE InsertFails(r)
  <2>1. /\ Proceed(r, "failed") /\ req[r].pc = "insert"
        /\ jobs' = jobs \/ jobs' = [jobs EXCEPT ![req[r].cur] = QueuedRow]
        /\ s3' = s3 /\ audit' = audit
    BY <1>5 DEF InsertFails, Serving
  <2>2. BatchInv(r)'
    BY <1>1, <2>1
  <2>3. r \notin audit
    BY <1>0, <2>1 DEF Answered
  <2> QED BY <1>0, <2>1, <2>2, <2>3, MoveRestores DEF Places, InFlight
<1>6. CASE Insert(r)
  <2>1. /\ Proceed(r, "send") /\ req[r].pc = "insert"
        /\ jobs' = [jobs EXCEPT ![req[r].cur] = QueuedRow]
        /\ s3' = s3 /\ audit' = audit
    BY <1>6 DEF Insert, Serving
  <2>2. Moves(r, "send")
    BY <1>0, <2>1, ProceedMoves
  <2>3. req[r].cur \in Jobs /\ req[r].cur # None
    BY <1>0, <2>1 DEF BatchInv
  <2>4. QueuedRow # NoRow
    <3>1. QueuedRow \in Rows
      BY DEF QueuedRow, Rows
    <3> QED BY <3>1, StoreConstants
  <2>5. jobs'[req[r].cur] # NoRow /\ req'[r].cur = req[r].cur
    BY <1>0, <2>1, <2>2, <2>3, <2>4 DEF Moves, Same
  <2>6. BatchInv(r)'
    BY <1>0, <2>1, <2>2, <2>3, <2>5 DEF Moves, Same, BatchInv, Counting, Answered, Exists
  <2>7. r \notin audit
    BY <1>0, <2>1 DEF Answered
  <2> QED BY <1>0, <2>1, <2>6, <2>7, MoveRestores DEF Places, InFlight
<1>7. CASE Respond(r)
  <2>1. /\ Proceed(r, "teardown") /\ req[r].pc = "audit"
        /\ jobs' = jobs /\ s3' = s3 /\ audit' = audit
    BY <1>7 DEF Respond, Serving
  <2>2. Moves(r, "teardown")
    BY <1>0, <2>1, ProceedMoves
  <2>3. BatchInv(r)'
    BY <1>0, <2>1, <2>2 DEF Moves, Same, BatchInv, Counting, Answered
  <2> QED BY <1>0, <2>1, <2>3, MoveRestores DEF Places, InFlight, Answered
<1>8. ASSUME NEW label \in {"done", "unaudited"}, Proceed(r, label), Teardown(r) \/ TeardownFails(r)
      PROVE  PipelineInv' /\ WorkersInv'
  <2>1. /\ req[r].pc = "teardown" /\ audit' \subseteq audit \cup {r}
        /\ jobs' = jobs /\ s3' = s3
    BY <1>8 DEF Teardown, TeardownFails, Serving
  <2>2. Moves(r, label)
    BY <1>0, <1>8, ProceedMoves
  <2>3. BatchInv(r)'
    BY <1>0, <1>8, <2>1, <2>2 DEF Moves, Same, BatchInv, Counting, Answered
  <2> QED BY <1>0, <1>8, <2>1, <2>3, MoveRestores DEF Places, InFlight, Answered
<1>9. CASE Teardown(r) \/ TeardownFails(r)
  BY <1>8, <1>9 DEF Teardown, TeardownFails
<1> QED BY <1>2, <1>3, <1>4, <1>5, <1>6, <1>7, <1>9

(* An object is put under an id nobody has. *)
LEMMA StoreRestores ==
    ASSUME PipelineInv, WorkersInv, Adds, UNCHANGED <<run, bda, dropped>>,
           NEW r \in Requests, NEW j \in Jobs, Store(r, j)
    PROVE  PipelineInv' /\ WorkersInv'
<1>0. /\ \A q \in Requests : /\ BatchInv(q) /\ req[q].cur \in Jobs \cup {None}
                             /\ req[q].created \subseteq Jobs /\ req[q] \in Handlers
                             /\ q \in audit => req[q].pc \in Answered
      /\ req \in [Requests -> Handlers] /\ s3 \subseteq Jobs /\ audit \subseteq Requests
  BY RequestFacts DEF PipelineInv, UploadTypeOK, StoresTypeOK
<1>1. /\ req[r].pc = "read" /\ j \notin s3 /\ ~ Exists(j) /\ j # None
      /\ s3' = s3 \cup {j} /\ jobs' = jobs /\ ready' = ready /\ audit' = audit
      /\ req' = [req EXCEPT ![r].pc = "insert", ![r].cur = j]
  BY StoreConstants DEF Store, Serving
<1>2. /\ req' \in [Requests -> Handlers]
      /\ req'[r].pc = "insert" /\ req'[r].cur = j
      /\ req'[r].left = req[r].left /\ req'[r].created = req[r].created
      /\ \A q \in Requests \ {r} : req'[q] = req[q]
  <2>1. req[r] \in Handlers
    BY <1>0
  <2> QED BY <1>0, <1>1, <2>1 DEF Handlers
<1>3. BatchInv(r)'
  BY <1>0, <1>1, <1>2 DEF BatchInv, Counting, Answered, Exists
<1>4. \A q \in Requests : BatchInv(q)'
  BY <1>1, <1>2, <1>3, OthersKept
<1>5. \A q \in audit' : req'[q].pc \in Answered
  BY <1>0, <1>1, <1>2 DEF Answered
<1>6. \A q \in Requests : req[q].cur # j /\ j \notin req[q].created
  BY <1>0, <1>1 DEF PipelineInv, IdsInv, ListedInHand
<1>7. IdsInv'
  <2>1. \A q \in Requests : req'[q].cur # None => req'[q].cur \in s3'
    BY <1>1, <1>2 DEF PipelineInv, IdsInv
  <2>2. \A p, q \in Requests : req'[p].cur # None /\ req'[p].cur = req'[q].cur => p = q
    BY <1>2, <1>6 DEF PipelineInv, IdsInv
  <2>3. \A p, q \in Requests : req'[p].cur \notin req'[q].created
    BY <1>2, <1>6 DEF PipelineInv, IdsInv
  <2>4. \A k \in Jobs : Exists(k)' => k \in s3'
    BY <1>1 DEF PipelineInv, IdsInv, Exists
  <2> QED BY <2>1, <2>2, <2>3, <2>4 DEF IdsInv
<1>8. s3' \subseteq Jobs
  BY <1>0, <1>1
<1>9. \A k \in Jobs : Exists(k) /\ InHand(k) => Exists(k)' /\ InHand(k)'
  BY <1>1, <1>8, WorkersUndisturbed DEF Exists
<1>10. ListedInHand'
  BY <1>0, <1>2, <1>9 DEF PipelineInv, ListedInHand
<1>11. NoJobForgotten'
  <2> SUFFICES ASSUME NEW k \in Jobs, Exists(k)' PROVE InHand(k)' \/ LeftBehind(k)'
    BY DEF NoJobForgotten, InHand
  <2>1. Exists(k)
    BY <1>1 DEF Exists
  <2>2. ASSUME NEW q \in Requests, req[q].cur = k PROVE LeftBehind(k)'
    <3>1. q # r
      BY <1>0, <1>1, <2>2, StoreConstants DEF BatchInv
    <3> QED BY <1>2, <2>2, <3>1 DEF LeftBehind
  <2> QED BY <1>9, <2>1, <2>2 DEF PipelineInv, NoJobForgotten, InHand, LeftBehind
<1> QED BY <1>0, <1>1, <1>2, <1>4, <1>5, <1>7, <1>8, <1>10, <1>11, Restored

(* The message is in the queue before the file joins the response. *)
LEMMA SendRestores ==
    ASSUME PipelineInv, WorkersInv, Adds, UNCHANGED <<run, bda, dropped>>,
           NEW r \in Requests, Send(r)
    PROVE  PipelineInv' /\ WorkersInv'
<1>0. /\ \A q \in Requests : /\ BatchInv(q) /\ req[q].cur \in Jobs \cup {None}
                             /\ req[q].created \subseteq Jobs /\ req[q] \in Handlers
                             /\ req[q].left \in Nat /\ Cardinality(req[q].created) \in Nat
                             /\ q \in audit => req[q].pc \in Answered
      /\ req \in [Requests -> Handlers] /\ s3 \subseteq Jobs /\ audit \subseteq Requests
      /\ ready \in [Jobs -> Nat]
  BY RequestFacts DEF PipelineInv, UploadTypeOK, StoresTypeOK
<1> DEFINE k == req[r].cur
<1>1. /\ req[r].pc = "send" /\ k \in Jobs /\ k # None /\ Exists(k) /\ req[r].left > 0
      /\ Cardinality(req[r].created) + req[r].left = Files[r]
      /\ s3' = s3 /\ jobs' = jobs /\ audit' = audit
  BY <1>0 DEF Send, Serving, BatchInv, Counting
<1>2. ready'[k] > 0
  <2>1. PICK n \in Copies : ready' = [ready EXCEPT ![k] = @ + n]
    BY DEF Send
  <2>2. n \in Nat \ {0} /\ ready[k] \in Nat
    BY <1>0, <1>1, UploadConstants
  <2>3. ready'[k] = ready[k] + n
    BY <1>0, <1>1, <2>1
  <2> QED BY <2>2, <2>3
<1>3. /\ req'[r].pc = IF req[r].left = 1 THEN "audit" ELSE "read"
      /\ req'[r].cur = None
      /\ req'[r].left = req[r].left - 1 /\ req'[r].created = req[r].created \cup {k}
      /\ \A q \in Requests \ {r} : req'[q] = req[q]
  <2>1. req[r] \in Handlers
    BY <1>0
  <2> QED BY <1>0, <2>1 DEF Send, NextFile, Handlers
<1>4. req' \in [Requests -> Handlers]
  <2>1. req[r].left - 1 \in Nat
    BY <1>0, <1>1
  <2>2. req[r].created \cup {k} \in SUBSET Jobs
    BY <1>0, <1>1
  <2>3. req' = [req EXCEPT ![r].pc = IF req[r].left = 1 THEN "audit" ELSE "read",
                           ![r].left = req[r].left - 1, ![r].cur = None,
                           ![r].created = req[r].created \cup {k}]
    BY DEF Send, NextFile
  <2> QED BY <1>0, <2>1, <2>2, <2>3 DEF Handlers
<1>5. k \notin req[r].created /\ IsFiniteSet(req[r].created)
  BY <1>0 DEF PipelineInv, IdsInv, BatchInv
<1>6. /\ IsFiniteSet(req'[r].created)
      /\ Cardinality(req'[r].created) = Cardinality(req[r].created) + 1
  <2> DEFINE S == req[r].created
  <2>1. IsFiniteSet(S \cup {k}) /\ Cardinality(S \cup {k}) = Cardinality(S) + 1
    <3> HIDE DEF S, k
    <3> QED BY <1>5, FS_AddElement DEF S, k
  <2> QED BY <1>3, <2>1
<1>7. BatchInv(r)'
  <2>1. Cardinality(req'[r].created) + req'[r].left = Files[r]
    BY <1>0, <1>1, <1>3, <1>6
  <2>2. CASE req[r].left = 1
    <3>1. req'[r].pc = "audit" /\ req'[r].left = 0
      BY <1>3, <2>2
    <3> QED BY <1>6, <2>1, <3>1 DEF BatchInv, Answered
  <2>3. CASE req[r].left # 1
    <3>1. req'[r].pc = "read" /\ req'[r].left > 0
      BY <1>0, <1>1, <1>3, <2>3
    <3> QED BY <1>3, <1>6, <2>1, <3>1 DEF BatchInv, Answered
  <2> QED BY <2>2, <2>3
<1>8. \A q \in Requests : BatchInv(q)'
  BY <1>1, <1>3, <1>7, OthersKept
<1>9. \A q \in audit' : req'[q].pc \in Answered
  BY <1>0, <1>1, <1>3 DEF Answered
<1>10. IdsInv'
  <2>1. \A q \in Requests : req'[q].cur # None => req'[q].cur \in s3'
    BY <1>1, <1>3 DEF PipelineInv, IdsInv
  <2>2. \A p, q \in Requests : req'[p].cur # None /\ req'[p].cur = req'[q].cur => p = q
    BY <1>3 DEF PipelineInv, IdsInv
  <2>3. ASSUME NEW p \in Requests, NEW q \in Requests
        PROVE  req'[p].cur \notin req'[q].created
    <3>1. CASE p = r
      BY <1>0, <1>1, <1>3, <3>1, StoreConstants
    <3>2. CASE p # r
      <4>1. req[p].cur # k
        BY <1>1, <3>2 DEF PipelineInv, IdsInv
      <4> QED BY <1>3, <3>2, <4>1 DEF PipelineInv, IdsInv
    <3> QED BY <3>1, <3>2
  <2>4. \A j \in Jobs : Exists(j)' => j \in s3'
    BY <1>1 DEF PipelineInv, IdsInv, Exists
  <2> QED BY <2>1, <2>2, <2>3, <2>4 DEF IdsInv
<1>11. \A j \in Jobs : Exists(j) /\ InHand(j) => Exists(j)' /\ InHand(j)'
  BY <1>0, <1>1, WorkersUndisturbed DEF Exists
<1>12. jobs'[k] # NoRow /\ (k \in Jobs => (ready'[k] > 0))
  BY <1>1, <1>2 DEF Exists
<1>13. ASSUME NEW j \in Jobs, j = k PROVE Exists(j)' /\ InHand(j)'
  BY <1>12, <1>13 DEF Exists, InHand, InGoodHands
<1>14. ListedInHand'
  <2> SUFFICES ASSUME NEW q \in Requests, NEW j \in req'[q].created
               PROVE  Exists(j)' /\ InHand(j)'
    BY DEF ListedInHand
  <2>1. j \in Jobs /\ (j = k \/ j \in req[q].created)
    BY <1>0, <1>1, <1>3
  <2> QED BY <1>11, <1>13, <2>1 DEF PipelineInv, ListedInHand
<1>15. NoJobForgotten'
  <2> SUFFICES ASSUME NEW j \in Jobs, Exists(j)' PROVE InHand(j)' \/ LeftBehind(j)'
    BY DEF NoJobForgotten, InHand
  <2>1. Exists(j)
    BY <1>1 DEF Exists
  <2>2. ASSUME NEW q \in Requests, req[q].cur = j, j # k PROVE LeftBehind(j)'
    BY <1>3, <2>2 DEF LeftBehind
  <2> QED BY <1>11, <1>13, <2>1, <2>2 DEF PipelineInv, NoJobForgotten, InHand, LeftBehind
<1> QED BY <1>0, <1>1, <1>4, <1>8, <1>9, <1>10, <1>14, <1>15, Restored

(* The process that dies takes its handlers with it, and nothing else. *)
LEMMA CrashRestores ==
    ASSUME PipelineInv, WorkersInv, Adds, UNCHANGED <<run, bda, dropped>>, ApiCrash
    PROVE  PipelineInv' /\ WorkersInv'
<1>0. /\ \A q \in Requests : /\ BatchInv(q) /\ req[q] \in Handlers
                             /\ q \in audit => req[q].pc \in Answered
      /\ s3 \subseteq Jobs /\ audit \subseteq Requests
  BY RequestFacts DEF PipelineInv, UploadTypeOK, StoresTypeOK
<1>1. /\ jobs' = jobs /\ s3' = s3 /\ audit' = audit
      /\ req' = [r \in Requests |-> [req[r] EXCEPT !.pc = AfterCrash(@)]]
  BY DEF ApiCrash
<1>2. ASSUME NEW r \in Requests
      PROVE  /\ Same(r) /\ req'[r].pc = AfterCrash(req[r].pc) /\ req'[r] \in Handlers
  <2>1. AfterCrash(req[r].pc) \in Places /\ req[r] \in Handlers
    BY <1>0 DEF AfterCrash, Places, InFlight, Handlers
  <2>2. req'[r] = [req[r] EXCEPT !.pc = AfterCrash(req[r].pc)]
    BY <1>1
  <2> QED BY <2>1, <2>2 DEF Same, Handlers, Places, InFlight
<1>3. req' \in [Requests -> Handlers]
  BY <1>1, <1>2
<1>4. ASSUME NEW r \in Requests PROVE BatchInv(r)'
  <2>1. /\ req'[r].pc \in {"unaudited", "crashed"} \/ req'[r].pc = req[r].pc
        /\ req'[r].pc = "unaudited" => req[r].pc \in {"teardown", "unaudited"}
        /\ req'[r].pc \notin InFlight
    BY <1>2 DEF AfterCrash, InFlight
  <2> QED BY <1>0, <1>1, <1>2, <2>1 DEF BatchInv, Same, Counting, Answered, InFlight, Exists
<1>5. \A q \in audit' : req'[q].pc \in Answered
  BY <1>0, <1>1, <1>2 DEF Answered, AfterCrash, InFlight
<1> QED BY <1>0, <1>1, <1>2, <1>3, <1>4, <1>5, MovesKeepHands, Restored

LEMMA PipelineStep ==
    PipelineInv /\ WorkersInv /\ [PipelineNext]_pipelineVars => PipelineInv' /\ WorkersInv'
<1> SUFFICES ASSUME PipelineInv, WorkersInv, [PipelineNext]_pipelineVars
             PROVE  PipelineInv' /\ WorkersInv'
  OBVIOUS
<1>1. CASE RunnerNext /\ UNCHANGED <<req, audit>>
  BY <1>1, WorkersStep
<1>2. CASE UploadNext /\ UNCHANGED <<run, bda, dropped>>
  <2>1. Adds
    BY <1>2, UploadAdds
  <2> QED BY <1>2, <2>1, MovingSteps, StoreRestores, SendRestores, CrashRestores DEF UploadNext
<1>3. CASE UNCHANGED pipelineVars
  <2>1. UNCHANGED <<jobs, ready, s3, req, audit, run, bda, dropped>>
    BY <1>3 DEF pipelineVars
  <2>2. Adds /\ s3' \subseteq Jobs
    BY <2>1 DEF Adds, PipelineInv, UploadTypeOK, StoresTypeOK
  <2>3. req' \in [Requests -> Handlers] /\ audit' \subseteq Requests
    BY <2>1 DEF PipelineInv, UploadTypeOK
  <2>4. \A r \in Requests : Same(r) /\ BatchInv(r)'
    BY <2>1 DEF PipelineInv, Same, BatchInv, Exists
  <2>5. \A r \in audit' : req'[r].pc \in Answered
    BY <2>1 DEF PipelineInv, AuditedIsOver
  <2> QED BY <2>1, <2>2, <2>3, <2>4, <2>5, MovesKeepHands, Restored
<1> QED BY <1>1, <1>2, <1>3 DEF PipelineNext

-----------------------------------------------------------------------------
(* The theorems. *)

(* The inductive invariant, the workers' own included: what the other      *)
(* modules of proofs show of the workers holds beside the uploads as well. *)
THEOREM PipelineInvariant == PipelineSpec => [](PipelineInv /\ WorkersInv)
BY PipelineBegins, PipelineStep, PTL DEF PipelineSpec

(* API and workers keep the stores and their own state well typed.         *)
THEOREM PipelineTypeCorrect == PipelineSpec => []PipelineTypeOK
<1>1. PipelineInv => PipelineTypeOK
  BY DEF PipelineInv, TypeInv, PipelineTypeOK
<1> QED BY <1>1, PipelineInvariant, PTL

(* No message is published for a row a worker could not see.               *)
THEOREM RowsFirst == PipelineSpec => []RowBeforeMessage
<1>1. PipelineInv => RowBeforeMessage
  BY DEF PipelineInv, TypeInv, RowBeforeMessage
<1> QED BY <1>1, PipelineInvariant, PTL

(* An upload in the audit log has come to its end, every file of it.       *)
THEOREM AuditIsTrue == PipelineSpec => []AuditTellsTheTruth
<1>1. PipelineInv => AuditTellsTheTruth
  <2> SUFFICES ASSUME PipelineInv, NEW r \in audit
               PROVE  req[r].pc \in Answered /\ Cardinality(req[r].created) = Files[r]
    BY DEF AuditTellsTheTruth
  <2>1. r \in Requests /\ req[r].pc \in Answered
    BY DEF PipelineInv, UploadTypeOK, AuditedIsOver
  <2>2. /\ Cardinality(req[r].created) + req[r].left = Files[r] /\ req[r].left = 0
        /\ Cardinality(req[r].created) \in Nat
    BY <2>1, RequestFacts DEF BatchInv, Counting
  <2> QED BY <2>1, <2>2
<1> QED BY <1>1, PipelineInvariant, PTL

(* Every job with a row is on its way to a final status, or its attempt or *)
(* its upload is known to have broken.                                     *)
THEOREM NoneForgotten == PipelineSpec => []NoJobForgotten
<1>1. PipelineInv => NoJobForgotten
  BY DEF PipelineInv
<1> QED BY <1>1, PipelineInvariant, PTL

(* A 202 lists a job for every file, and each of them is being taken care  *)
(* of, or an attempt at it was lost.                                       *)
THEOREM AcceptedMeansProcessed == PipelineSpec => []AcceptedIsProcessed
<1>1. PipelineInv => AcceptedIsProcessed
  <2> SUFFICES ASSUME PipelineInv, NEW r \in Requests, req[r].pc \in Answered
               PROVE  /\ Cardinality(req[r].created) = Files[r]
                      /\ \A j \in req[r].created : InGoodHands(j) \/ j \in dropped
    BY DEF AcceptedIsProcessed
  <2>1. /\ Cardinality(req[r].created) + req[r].left = Files[r] /\ req[r].left = 0
        /\ Cardinality(req[r].created) \in Nat
    BY RequestFacts DEF BatchInv, Counting
  <2>2. \A j \in req[r].created : InGoodHands(j) \/ j \in dropped
    BY DEF PipelineInv, ListedInHand, InHand
  <2> QED BY <2>1, <2>2
<1> QED BY <1>1, PipelineInvariant, PTL

(* A worker has a row to work on, and what BDA is to read is in the bucket.*)
THEOREM InputsAreThere == PipelineSpec => []WorkHasItsInput
<1>1. PipelineInv => WorkHasItsInput
  BY DEF PipelineInv, TypeInv, TaskInv, AttemptHasRow, InputThere, WorkHasItsInput
<1> QED BY <1>1, PipelineInvariant, PTL

(* Beside any uploads, too, settled rows are complete and agree with BDA,  *)
(* and the row of a job names its invocation while it is waited for.       *)
THEOREM PipelineRowsRight ==
    PipelineSpec => [](SettledRowsComplete /\ RowAgreesWithBda /\ ArnOnRow)
<1>1. WorkersInv => SettledRowsComplete /\ RowAgreesWithBda
  BY DEF WorkersInv, RowInv, InvocationInv
<1>2. WorkersInv => ArnOnRow
  BY DEF WorkersInv, InvocationInv, Knows, PastInvoke, Recorded, ArnOnRow
<1> QED BY <1>1, <1>2, PipelineInvariant, PTL

(* Neither a worker nor an upload changes what was extracted for a job, or *)
(* from which invocation.                                                  *)
THEOREM PipelineExtractionStays == PipelineSpec => ExtractionIsStable
<1>1. PipelineInv /\ WorkersInv /\ [PipelineNext]_pipelineVars
         => [\A j \in Jobs : Exists(j) =>
               /\ jobs[j].arn # None => jobs'[j].arn = jobs[j].arn
               /\ jobs[j].result # None => jobs'[j].result = jobs[j].result]_runnerVars
  <2> SUFFICES ASSUME PipelineInv, WorkersInv, [PipelineNext]_pipelineVars,
                      NEW j \in Jobs, Exists(j)
               PROVE  /\ jobs[j].arn # None => jobs'[j].arn = jobs[j].arn
                      /\ jobs[j].result # None => jobs'[j].result = jobs[j].result
    OBVIOUS
  <2>1. CASE RunnerNext
    BY <2>1, RowsSteady DEF PipelineInv, WorkersInv, InvocationInv, OwnRow
  <2>2. CASE UploadNext
    BY <2>2, UploadAdds, UploadGrows
  <2>3. CASE UNCHANGED pipelineVars
    BY <2>3 DEF pipelineVars
  <2> QED BY <2>1, <2>2, <2>3 DEF PipelineNext
<1> QED BY <1>1, PipelineInvariant, PTL DEF PipelineSpec, ExtractionIsStable

-----------------------------------------------------------------------------
(* The life of a job, from before its upload on. *)

(* The table after an upload's step: as it was, or with one row more, of a *)
(* job just queued.                                                        *)
LEMMA UploadSubmits ==
    ASSUME PipelineInv, UploadNext
    PROVE  \/ StatusOf' = StatusOf
           \/ \E k \in Jobs : /\ StatusOf[k] = "absent"
                              /\ StatusOf' = [StatusOf EXCEPT ![k] = "queued"]
<1>1. CASE jobs' = jobs
  BY <1>1 DEF StatusOf, Exists
<1>2. ASSUME NEW r \in Requests, req[r].pc = "insert",
             jobs' = [jobs EXCEPT ![req[r].cur] = QueuedRow]
      PROVE  \E k \in Jobs : /\ StatusOf[k] = "absent"
                             /\ StatusOf' = [StatusOf EXCEPT ![k] = "queued"]
  <2> DEFINE k == req[r].cur
  <2>1. k \in Jobs /\ ~ Exists(k) /\ jobs \in [Jobs -> Rows \cup {NoRow}]
    BY <1>2, RequestFacts DEF BatchInv, PipelineInv, TypeInv, RunnerTypeOK, StoresTypeOK
  <2>2. QueuedRow # NoRow /\ QueuedRow.status = "queued"
    <3>1. QueuedRow \in Rows
      BY DEF QueuedRow, Rows
    <3> QED BY <3>1, StoreConstants DEF QueuedRow
  <2>3. StatusOf[k] = "absent"
    BY <2>1 DEF StatusOf
  <2>4. \A j \in Jobs : StatusOf'[j] = [StatusOf EXCEPT ![k] = "queued"][j]
    BY <1>2, <2>1, <2>2 DEF StatusOf, Exists
  <2>5. StatusOf' = [StatusOf EXCEPT ![k] = "queued"]
    BY <2>4 DEF StatusOf
  <2> QED BY <2>1, <2>3, <2>5
<1> QED BY <1>1, <1>2, UploadAdds DEF Adds

(* Under every fault of the API and of the workers, a job appears queued,  *)
(* is taken up before it ends, and is never queued again.                  *)
THEOREM PipelineRefinement == PipelineSpec => RunsAgain
<1>1. PipelineInit => Again!Init
  <2> SUFFICES ASSUME PipelineInit PROVE StatusOf \in [Jobs -> {"absent", "queued"}]
    BY DEF Again!Init
  <2> QED BY NoRowsYet DEF StatusOf
<1>2. PipelineInv /\ WorkersInv /\ [PipelineNext]_pipelineVars => [Again!Next]_StatusOf
  <2> SUFFICES ASSUME PipelineInv, WorkersInv, [PipelineNext]_pipelineVars
               PROVE  Again!Next \/ StatusOf' = StatusOf
    OBVIOUS
  <2>1. CASE RunnerNext
    BY <2>1, LifeGoesOn DEF PipelineInv, WorkersInv
  <2>2. CASE UploadNext
    BY <2>2, UploadSubmits DEF Again!Next, Again!Submit, Again!Become
  <2>3. CASE UNCHANGED pipelineVars
    BY <2>3 DEF pipelineVars, StatusOf, Exists
  <2> QED BY <2>1, <2>2, <2>3 DEF PipelineNext
<1> QED BY <1>1, <1>2, PipelineInvariant, PTL DEF PipelineSpec, RunsAgain, Again!Spec

-----------------------------------------------------------------------------
(* Delivery.  Where send_task leaves one copy of a message, a job in the   *)
(* hand of a request that has yet to publish it is in nobody else's: its   *)
(* row is as it was inserted, no message is waiting, no slot is at work.   *)

Untouched(j) ==
    /\ jobs[j] = QueuedRow /\ ready[j] = 0
    /\ \A s \in Slots : run[s].job # j

Unsent == \A r \in Requests : req[r].pc = "send" => Untouched(req[r].cur)

(* The workers leave alone a job whose message they have not got.          *)
LEMMA WorkersLeaveAlone ==
    ASSUME TypeInv, HeldInv, RunnerNext, NEW j \in Jobs, Untouched(j)
    PROVE  Untouched(j)'
<1>0. /\ run \in [Slots -> Tasks] /\ ready \in [Jobs -> Nat]
      /\ jobs[j] = QueuedRow /\ ready[j] = 0
      /\ \A s \in Slots : run[s].job # j
      /\ j # None
      /\ jobs \in [Jobs -> Rows \cup {NoRow}]
  BY StoreConstants DEF TypeInv, RunnerTypeOK, StoresTypeOK, Untouched
<1>1. jobs'[j] = QueuedRow
  <2>1. ASSUME NEW s \in Slots, run[s].pc \in SetLabels, jobs' = Committed(s)
        PROVE  jobs'[j] = jobs[j]
    BY <1>0, <2>1 DEF Committed
  <2> QED BY <1>0, <2>1, TableStep
<1>2. ASSUME NEW s \in Slots, NEW k \in Jobs, Deliver(s, k)
      PROVE  ready'[j] = 0 /\ \A t \in Slots : run'[t].job # j
  <2>1. ready[k] > 0 /\ ready' = [ready EXCEPT ![k] = ready[k] - 1]
        /\ run'[s].job = k /\ \A t \in Slots \ {s} : run'[t] = run[t]
    BY <1>0, <1>2 DEF Deliver, IdleTask
  <2>2. k # j
    BY <1>0, <2>1
  <2> QED BY <1>0, <2>1, <2>2
<1>3. ASSUME NEW s \in Slots, ready' = ready, \A t \in Slots \ {s} : run'[t] = run[t],
             run'[s] = IdleTask \/ run'[s].job = run[s].job
      PROVE  ready'[j] = 0 /\ \A t \in Slots : run'[t].job # j
  BY <1>0, <1>3 DEF IdleTask
<1>4. ASSUME NEW s \in Slots, RunStep(s) \/ PollTimeout(s)
      PROVE  ready'[j] = 0 /\ \A t \in Slots : run'[t].job # j
  BY <1>3, <1>4, RunStepType
<1>5. ASSUME NEW s \in Slots, DbError(s) \/ SoftLimit(s) \/ ChildKilled(s)
      PROVE  ready'[j] = 0 /\ \A t \in Slots : run'[t].job # j
  <2>1. /\ ready' = ready
        /\ \/ run' = [run EXCEPT ![s] = IdleTask]
           \/ \E code \in ErrorCodes : Fail(s, code) \/ Raise(s)
    BY <1>5 DEF DbError, SoftLimit, ChildKilled, ErrorCodes
  <2>2. /\ \A t \in Slots \ {s} : run'[t] = run[t]
        /\ run'[s] = IdleTask \/ run'[s].job = run[s].job
    BY <1>0, <2>1 DEF Fail, Raise, Tasks
  <2> QED BY <1>3, <2>1, <2>2
<1>6. ASSUME NEW w \in Workers, WorkerCrash(w) \/ ConnectionLoss(w)
      PROVE  ready'[j] = 0 /\ \A t \in Slots : run'[t].job # j
  <2>1. ready' = GiveBack(w)
    BY <1>6 DEF WorkerCrash, ConnectionLoss
  <2>2. ready'[j] = ready[j] + Cardinality(HeldBy(w, j)) /\ HeldBy(w, j) = {}
    BY <1>0, <2>1 DEF GiveBack, HeldBy, SlotsOf
  <2>3. ready'[j] = 0
    BY <1>0, <2>2, FS_EmptySet
  <2>4. \A t \in Slots : run'[t] = IdleTask \/ run'[t].job = run[t].job
    BY <1>0, <1>6 DEF WorkerCrash, ConnectionLoss, Tasks
  <2> QED BY <1>0, <2>3, <2>4 DEF IdleTask
<1>7. ASSUME NEW i \in bda, NEW status \in Outcomes, BdaFinish(i, status)
      PROVE  ready'[j] = 0 /\ \A t \in Slots : run'[t].job # j
  BY <1>0, <1>7 DEF BdaFinish
<1> QED BY <1>1, <1>2, <1>4, <1>5, <1>6, <1>7 DEF RunnerNext, Untouched

LEMMA UnsentKept ==
    ASSUME PipelineInv, HeldInv, Unsent, RunnerNext, UNCHANGED <<req, audit>>
    PROVE  Unsent'
<1>1. \A r \in Requests : req[r].pc = "send" => req[r].cur \in Jobs
  BY RequestFacts DEF BatchInv
<1>2. \A r \in Requests : req[r].pc = "send" => Untouched(req[r].cur)'
  BY <1>1, WorkersLeaveAlone DEF PipelineInv, Unsent
<1> QED BY <1>2 DEF Unsent, Untouched

(* A request that publishes gives the job from its hand: it becomes the    *)
(* message's.                                                              *)
LEMMA UploadHolds ==
    ASSUME Copies \subseteq {1}, PipelineInv, HeldInv, Unsent, UploadNext,
           UNCHANGED <<run, bda, dropped>>
    PROVE  /\ HeldInv' /\ Unsent'
           /\ \A j \in Jobs : ready'[j] > 0 => ready[j] > 0 \/ jobs'[j] = QueuedRow
<1>0. /\ req \in [Requests -> Handlers]
      /\ \A r \in Requests :
            /\ req[r] \in Handlers /\ req[r].cur \in Jobs \cup {None}
            /\ req[r].pc = "insert" => req[r].cur \in Jobs /\ ~ Exists(req[r].cur)
            /\ req[r].pc = "send" => req[r].cur \in Jobs /\ Exists(req[r].cur)
      /\ ready \in [Jobs -> Nat] /\ jobs \in [Jobs -> Rows \cup {NoRow}]
      /\ \A j \in Jobs : ready[j] > 0 => Exists(j)
      /\ \A r, q \in Requests : req[r].cur # None /\ req[r].cur = req[q].cur => r = q
  BY RequestFacts DEF BatchInv, PipelineInv, IdsInv, UploadTypeOK, TypeInv, RunnerTypeOK, StoresTypeOK
<1>1. \A s \in Slots : /\ ~ At(s, "idle") => run[s].job \in Jobs /\ Exists(run[s].job)
                       /\ At(s, "idle") => run[s].job = None
  BY DEF PipelineInv, TypeInv, TaskInv, HeldInv
(* Nothing is published, and no request comes to the point of publishing. *)
<1>2. ASSUME ready' = ready, jobs' = jobs,
             \A q \in Requests : req'[q].pc = "send" => req[q].pc = "send" /\ req'[q].cur = req[q].cur
      PROVE  HeldInv' /\ Unsent'
             /\ \A j \in Jobs : ready'[j] > 0 => ready[j] > 0
  BY <1>2 DEF HeldInv, OneAttemptAtATime, At, Unsent, Untouched
<1>3. ASSUME NEW r \in Requests, NEW label, Proceed(r, label)
      PROVE  /\ req'[r].pc = label /\ req'[r].cur = req[r].cur
             /\ \A q \in Requests \ {r} : req'[q] = req[q]
  BY <1>0, <1>3, ProceedMoves DEF PipelineInv, Moves, Same
<1>4. ASSUME NEW r \in Requests, req[r].pc = "insert", ready' = ready,
             jobs' = jobs \/ jobs' = [jobs EXCEPT ![req[r].cur] = QueuedRow],
             (Proceed(r, "send") /\ jobs' # jobs) \/ Proceed(r, "failed")
      PROVE  HeldInv' /\ Unsent'
  <2> DEFINE k == req[r].cur
  <2>1. k \in Jobs /\ ~ Exists(k) /\ ready[k] = 0 /\ \A s \in Slots : run[s].job # k
    BY <1>0, <1>1, <1>4, StoreConstants
  <2>2. jobs' # jobs => jobs'[k] = QueuedRow
    BY <1>0, <1>4, <2>1
  <2>3. \A j \in Jobs \ {k} : jobs'[j] = jobs[j]
    BY <1>0, <1>4
  <2>4. HeldInv'
    BY <1>4 DEF HeldInv, OneAttemptAtATime, At
  <2>5. req'[r].pc \in {"send", "failed"} /\ req'[r].cur = k
        /\ (req'[r].pc = "send" => jobs' # jobs)
        /\ \A q \in Requests \ {r} : req'[q] = req[q]
    BY <1>3, <1>4
  <2>6. ASSUME NEW q \in Requests, req'[q].pc = "send"
        PROVE  /\ jobs'[req'[q].cur] = QueuedRow /\ ready[req'[q].cur] = 0
               /\ \A s \in Slots : run[s].job # req'[q].cur
    <3>1. CASE q = r
      BY <2>1, <2>2, <2>5, <2>6, <3>1
    <3>2. CASE q # r
      <4>1. req'[q] = req[q] /\ req[q].cur \in Jobs /\ req[q].cur # k
        BY <1>0, <2>1, <2>5, <2>6, <3>2
      <4> QED BY <2>3, <2>6, <4>1 DEF Unsent, Untouched
    <3> QED BY <3>1, <3>2
  <2> QED BY <1>4, <2>4, <2>6 DEF Unsent, Untouched
<1>5. ASSUME NEW r \in Requests, req[r].pc = "send", jobs' = jobs,
             ready' = ready \/ ready' = [ready EXCEPT ![req[r].cur] = @ + 1],
             req'[r].pc # "send", \A q \in Requests \ {r} : req'[q] = req[q]
      PROVE  /\ HeldInv' /\ Unsent'
             /\ \A j \in Jobs : ready'[j] > 0 => ready[j] > 0 \/ jobs'[j] = QueuedRow
  <2> DEFINE k == req[r].cur
  <2>1. /\ k \in Jobs /\ jobs[k] = QueuedRow /\ ready[k] = 0
        /\ \A s \in Slots : run[s].job # k
    BY <1>0, <1>5 DEF Unsent, Untouched
  <2>2. /\ \A j \in Jobs \ {k} : ready'[j] = ready[j]
        /\ ready'[k] \in {0, 1}
    BY <1>0, <1>5, <2>1
  <2>3. HeldInv'
    <3>1. \A j \in Jobs : ready'[j] <= 1
      BY <2>1, <2>2 DEF HeldInv
    <3>2. OneAttemptAtATime'
      BY <1>1, <2>1, <2>2 DEF HeldInv, OneAttemptAtATime, At
    <3> QED BY <3>1, <3>2 DEF HeldInv, At
  <2>4. ASSUME NEW q \in Requests, req'[q].pc = "send"
        PROVE  jobs[req'[q].cur] = QueuedRow /\ ready'[req'[q].cur] = 0
               /\ \A s \in Slots : run[s].job # req'[q].cur
    <3>1. q # r /\ req'[q] = req[q] /\ req[q].cur \in Jobs
      BY <1>0, <1>5, <2>4
    <3>2. req[q].cur # k
      BY <1>0, <2>1, <3>1, StoreConstants
    <3> QED BY <2>2, <2>4, <3>1, <3>2 DEF Unsent, Untouched
  <2>5. Unsent'
    BY <1>5, <2>4 DEF Unsent, Untouched
  <2> QED BY <1>5, <2>1, <2>2, <2>3, <2>5
<1>6. ASSUME NEW r \in Requests, Insert(r) \/ InsertFails(r)
      PROVE  HeldInv' /\ Unsent' /\ \A j \in Jobs : ready'[j] > 0 => ready[j] > 0
  <2>1. /\ req[r].pc = "insert" /\ ready' = ready
        /\ jobs' = jobs \/ jobs' = [jobs EXCEPT ![req[r].cur] = QueuedRow]
    BY <1>6 DEF Insert, InsertFails, Serving
  <2>2. (Proceed(r, "send") /\ jobs' # jobs) \/ Proceed(r, "failed")
    <3>1. CASE InsertFails(r)
      BY <3>1 DEF InsertFails
    <3>2. CASE Insert(r)
      <4>1. req[r].cur \in Jobs /\ jobs[req[r].cur] = NoRow /\ QueuedRow # NoRow
        <5>1. QueuedRow \in Rows
          BY DEF QueuedRow, Rows
        <5> QED BY <1>0, <2>1, <5>1, StoreConstants DEF Exists
      <4> QED BY <1>0, <3>2, <4>1 DEF Insert
    <3> QED BY <1>6, <3>1, <3>2
  <2> QED BY <1>4, <2>1, <2>2
<1>7. ASSUME NEW r \in Requests, Send(r) \/ SendFails(r)
      PROVE  /\ HeldInv' /\ Unsent'
             /\ \A j \in Jobs : ready'[j] > 0 => ready[j] > 0 \/ jobs'[j] = QueuedRow
  <2>1. /\ req[r].pc = "send" /\ jobs' = jobs
        /\ ready' = ready \/ ready' = [ready EXCEPT ![req[r].cur] = @ + 1]
    BY <1>7 DEF Send, SendFails, Serving
  <2>2. req'[r].pc # "send" /\ \A q \in Requests \ {r} : req'[q] = req[q]
    <3>1. CASE Send(r)
      BY <1>0, <3>1 DEF Send, NextFile, Handlers
    <3>2. CASE SendFails(r)
      BY <1>3, <3>2 DEF SendFails
    <3> QED BY <1>7, <3>1, <3>2
  <2> QED BY <1>5, <2>1, <2>2
<1>8. ASSUME NEW r \in Requests, NEW j \in Jobs, Store(r, j)
      PROVE  HeldInv' /\ Unsent' /\ \A k \in Jobs : ready'[k] > 0 => ready[k] > 0
  <2>1. ready' = ready /\ jobs' = jobs /\ req' = [req EXCEPT ![r].pc = "insert", ![r].cur = j]
    BY <1>8 DEF Store
  <2>2. req'[r].pc = "insert" /\ \A q \in Requests \ {r} : req'[q] = req[q]
    BY <1>0, <2>1 DEF Handlers
  <2>3. \A q \in Requests : req'[q].pc = "send" => req[q].pc = "send" /\ req'[q].cur = req[q].cur
    BY <2>2
  <2> QED BY <1>2, <2>1, <2>3
<1>9. ASSUME NEW r \in Requests,
             \/ Admit(r) \/ Refuse(r) \/ FileRejected(r) \/ \E j \in Jobs : StoreFails(r, j)
             \/ Respond(r) \/ AuditFails(r) \/ Teardown(r) \/ TeardownFails(r)
      PROVE  HeldInv' /\ Unsent' /\ \A j \in Jobs : ready'[j] > 0 => ready[j] > 0
  <2>1. /\ ready' = ready /\ jobs' = jobs
        /\ \E label \in {"read", "refused", "failed", "teardown", "done", "unaudited"} :
              Proceed(r, label)
    BY <1>9 DEF Admit, Refuse, FileRejected, StoreFails, Respond, AuditFails, Teardown, TeardownFails
  <2>2. PICK label \in {"read", "refused", "failed", "teardown", "done", "unaudited"} :
           Proceed(r, label)
    BY <2>1
  <2>3. \A q \in Requests : req'[q].pc = "send" => req[q].pc = "send" /\ req'[q].cur = req[q].cur
    BY <1>3, <2>2
  <2> QED BY <1>2, <2>1, <2>3
<1>10. CASE ApiCrash
  <2>1. /\ ready' = ready /\ jobs' = jobs
        /\ req' = [r \in Requests |-> [req[r] EXCEPT !.pc = AfterCrash(@)]]
    BY <1>10 DEF ApiCrash
  <2>2. \A q \in Requests : req'[q].pc # "send"
    BY <1>0, <2>1 DEF AfterCrash, InFlight, Handlers
  <2> QED BY <1>2, <2>1, <2>2
<1> QED BY <1>6, <1>7, <1>8, <1>9, <1>10 DEF UploadNext

LEMMA DeliveryStep ==
    ASSUME Copies \subseteq {1}, "connection_loss" \notin Faults,
           PipelineInv, HeldInv, Unsent, [PipelineNext]_pipelineVars
    PROVE  HeldInv' /\ Unsent'
<1>1. CASE RunnerNext /\ UNCHANGED <<req, audit>>
  BY <1>1, HeldStep, UnsentKept DEF PipelineInv
<1>2. CASE UploadNext /\ UNCHANGED <<run, bda, dropped>>
  BY <1>2, UploadHolds
<1>3. CASE UNCHANGED pipelineVars
  BY <1>3 DEF pipelineVars, HeldInv, OneAttemptAtATime, At, Unsent, Untouched
<1> QED BY <1>1, <1>2, <1>3 DEF PipelineNext

LEMMA DeliveryBegins == PipelineInit => HeldInv /\ Unsent
BY DEF PipelineInit, UploadInit, RunInit, IdleTask, HeldInv, OneAttemptAtATime, At, Unsent

(* Where each message is published once and no connection is lost, a job   *)
(* is in one place: the hand of its request, the queue or one slot; what   *)
(* other uploads do beside it and how often servers and workers die makes  *)
(* no difference.                                                          *)
THEOREM PipelineOneAttempt ==
    ASSUME Copies \subseteq {1}, "connection_loss" \notin Faults
    PROVE  PipelineSpec => []OneAttemptAtATime
<1>1. PipelineInv /\ WorkersInv /\ HeldInv /\ Unsent /\ [PipelineNext]_pipelineVars
         => (PipelineInv /\ WorkersInv /\ HeldInv /\ Unsent)'
  BY PipelineStep, DeliveryStep
<1>2. PipelineInit => PipelineInv /\ WorkersInv /\ HeldInv /\ Unsent
  BY PipelineBegins, DeliveryBegins
<1>3. HeldInv => OneAttemptAtATime
  BY DEF HeldInv
<1> QED BY <1>1, <1>2, <1>3, PTL DEF PipelineSpec

(* An upload leaves an attempt alone with its row. *)
LEMMA UploadLeavesAlone ==
    ASSUME Copies \subseteq {1}, PipelineInv, HeldInv, Unsent, OnceInv, UploadNext,
           UNCHANGED <<run, bda, dropped>>
    PROVE  OnceInv'
<1>1. /\ \A j \in Jobs : Exists(j) => jobs'[j] = jobs[j]
      /\ \A j \in Jobs : Exists(j)' /\ ~ Exists(j) => jobs'[j] = QueuedRow
      /\ \A j \in Jobs : ready[j] > 0 => Exists(j)
  BY UploadAdds, UploadGrows DEF PipelineInv, TypeInv
<1>2. \A j \in Jobs : ready'[j] > 0 => ready[j] > 0 \/ jobs'[j] = QueuedRow
  BY UploadHolds
<1>3. ASSUME NEW j \in Jobs, ready'[j] > 0
      PROVE  jobs'[j].status = "queued"
  BY <1>1, <1>2, <1>3 DEF OnceInv, QueuedRow
<1>4. ASSUME NEW j \in Jobs, Exists(j)', jobs'[j].result # None
      PROVE  jobs'[j].status = "success"
  BY <1>1, <1>4 DEF OnceInv, QueuedRow
<1>5. ASSUME NEW s \in Slots
      PROVE  Alone(s)'
  <2>1. CASE run[s].pc = "idle"
    BY <2>1 DEF Alone, InTry, SetLabels
  <2>2. CASE run[s].pc # "idle"
    <3>1. jobs'[run[s].job] = jobs[run[s].job]
      BY <1>1, <2>2 DEF PipelineInv, TypeInv, TaskInv, At
    <3> QED BY <3>1 DEF OnceInv, Alone
  <2> QED BY <2>1, <2>2
<1> QED BY <1>3, <1>4, <1>5 DEF OnceInv

LEMMA PipelineOnceStep ==
    ASSUME Copies \subseteq {1}, Faults \subseteq {"child_kill"},
           PipelineInv, HeldInv, Unsent, OnceInv, [PipelineNext]_pipelineVars
    PROVE  OnceInv'
<1>1. CASE RunnerNext
  BY <1>1, OnceStep DEF PipelineInv
<1>2. CASE UploadNext /\ UNCHANGED <<run, bda, dropped>>
  BY <1>2, UploadLeavesAlone
<1>3. CASE UNCHANGED pipelineVars
  BY <1>3 DEF pipelineVars, OnceInv, Alone, Exists
<1> QED BY <1>1, <1>2, <1>3 DEF PipelineNext

LEMMA PipelineOnceHolds ==
    ASSUME Copies \subseteq {1}, Faults \subseteq {"child_kill"}
    PROVE  PipelineSpec => [](PipelineInv /\ WorkersInv /\ HeldInv /\ Unsent /\ OnceInv)
<1>1. PipelineInv /\ WorkersInv /\ HeldInv /\ Unsent /\ OnceInv /\ [PipelineNext]_pipelineVars
         => (PipelineInv /\ WorkersInv /\ HeldInv /\ Unsent /\ OnceInv)'
  BY PipelineStep, DeliveryStep, PipelineOnceStep
<1>2. PipelineInit => PipelineInv /\ WorkersInv /\ HeldInv /\ Unsent
  BY PipelineBegins, DeliveryBegins
<1>3. PipelineInit => OnceInv
  BY NoRowsYet DEF PipelineInit, RunInit, IdleTask, OnceInv, Alone, InTry, SetLabels
<1> QED BY <1>1, <1>2, <1>3, PTL DEF PipelineSpec

(* From its upload on, a job goes through its states once, and what came   *)
(* to success is not turned into a failure, whatever requests and API      *)
(* processes fail and whichever children are killed.                       *)
THEOREM PipelineOnceOnly ==
    ASSUME Copies \subseteq {1}, Faults \subseteq {"child_kill"}
    PROVE  PipelineSpec => RunsOnce /\ []SuccessStands
<1>1. PipelineInit => Once!Init
  <2> SUFFICES ASSUME PipelineInit PROVE StatusOf \in [Jobs -> {"absent", "queued"}]
    BY DEF Once!Init
  <2> QED BY NoRowsYet DEF StatusOf
<1>2. PipelineInv /\ WorkersInv /\ HeldInv /\ Unsent /\ OnceInv /\ [PipelineNext]_pipelineVars
         => [Once!Next]_StatusOf
  <2> SUFFICES ASSUME PipelineInv, HeldInv, OnceInv, [PipelineNext]_pipelineVars
               PROVE  [Once!Next]_StatusOf
    OBVIOUS
  <2>1. CASE RunnerNext
    BY <2>1, LifeOnce DEF PipelineInv
  <2>2. CASE UploadNext
    BY <2>2, UploadSubmits DEF Once!Next, Once!Submit, Once!Become
  <2>3. CASE UNCHANGED pipelineVars
    BY <2>3 DEF pipelineVars, StatusOf, Exists
  <2> QED BY <2>1, <2>2, <2>3 DEF PipelineNext
<1>3. OnceInv => SuccessStands
  BY DEF OnceInv, SuccessStands
<1>4. PipelineSpec => RunsOnce
  BY <1>1, <1>2, PipelineOnceHolds, PTL DEF PipelineSpec, RunsOnce, Once!Spec
<1>5. PipelineSpec => []SuccessStands
  BY <1>3, PipelineOnceHolds, PTL
<1> QED BY <1>4, <1>5
=============================================================================
