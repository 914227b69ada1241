------------------------------ MODULE JobRunner ------------------------------
(***************************************************************************)
(* The worker side: Celery delivers a process_document message to a pool   *)
(* slot of a worker, the slot runs run_job to its end, and the message is  *)
(* acknowledged late, once the task has returned or raised.  run_job reads *)
(* and writes its row in separate sessions, so a read and the commit that  *)
(* rests on it are two steps here, as are the calls to the extraction      *)
(* service (Bedrock Data Automation, BDA) between them.                    *)
(*                                                                         *)
(* A message may be delivered again: when its worker dies, when the        *)
(* worker's connection to the broker is lost while the task runs on, or    *)
(* when it was published twice.  Nothing stops two attempts at one job     *)
(* from running side by side.                                              *)
(***************************************************************************)
EXTENDS Stores, FiniteSets

CONSTANTS
    Workers,     \* worker processes, each with its own broker connection
    Slots,       \* their pool children; a slot runs one task at a time
    WorkerOf,    \* slot -> the worker it belongs to
    AwsErrors,   \* codes of the ClientErrors an AWS call may raise
    MaxTries,    \* attempts tenacity makes at an AWS call
    InvokeTransients,  \* error codes start_invocation retries
    PollTransients,    \* error codes _check_status retries
    Faults       \* the faults that may happen

FaultKinds ==
    {"worker_crash",      \* a worker dies with all its slots
     "connection_loss",   \* a worker loses the broker; its tasks run on
     "child_kill",        \* a slot's process is killed: hard time limit, out of memory
     "soft_limit",        \* task_soft_time_limit raises inside the task
     "db_error"}          \* a database call raises

ASSUME RunnerConstants ==
    /\ IsFiniteSet(Slots)
    /\ WorkerOf \in [Slots -> Workers]
    /\ MaxTries \in Nat \ {0}
    /\ InvokeTransients \subseteq AwsErrors
    /\ PollTransients \subseteq AwsErrors
    /\ Faults \subseteq FaultKinds

VARIABLES
    run,         \* slot -> the task it runs
    bda,         \* the invocations BDA knows of
    dropped      \* jobs an attempt at which ended without a final row and
                 \* will not be made again (a history variable)

runnerVars == <<jobs, ready, s3, run, bda, dropped>>

(* Where run_job stands: x.get reads the row in a session, x.set commits   *)
(* what that session changed; "returned" and "raised" await the ack.       *)
Labels ==
    {"idle", "load", "begin", "invoke", "arn.get", "arn.set", "poll", "fetch",
     "save.get", "save.set", "fail.get", "fail.set", "returned", "raised"}

Tasks ==
    [pc    : Labels,
     job   : Jobs \cup {None},
     held  : BOOLEAN,                  \* its message is still unacknowledged here
     read  : Rows \cup {NoRow},        \* the row as the open session read it
     arn   : Arns \cup {None},         \* invoked.invocation_arn
     err   : ErrorCodes \cup {None},   \* the code _mark_failed will store
     tries : 1 .. MaxTries]            \* the attempt tenacity is making

IdleTask ==
    [pc |-> "idle", job |-> None, held |-> FALSE, read |-> NoRow,
     arn |-> None, err |-> None, tries |-> 1]

(* What BDA makes of an invocation; the output of a "BadOutput" one is     *)
(* there, but fetch_and_parse or compute_cost cannot make sense of it.     *)
Outcomes == {"Success", "BadOutput", "ServiceError"}

Invocations == [token : Arns, job : Jobs, status : Outcomes \cup {"InProgress"}]

At(s, label) == run[s].pc = label

Goto(s, label) == run' = [run EXCEPT ![s].pc = label]

(* Inside the try block of run_job, outside it, and either. *)
InTry == {"invoke", "arn.get", "arn.set", "poll", "fetch", "save.get", "save.set"}
OutOfTry == {"load", "begin", "fail.get", "fail.set"}
Working == InTry \cup OutOfTry

(* The job's row as the attempt means to leave it.                         *)
(* EditForgettingCompletion is not the code: it sets no completed_at.      *)
EditForgettingCompletion(s) ==
    LET t == run[s] IN
    CASE t.pc = "begin"    -> [t.read EXCEPT !.status = "processing"]
      [] t.pc = "arn.set"  -> [t.read EXCEPT !.arn = t.arn]
      [] t.pc = "save.set" -> [t.read EXCEPT !.status = "success", !.result = t.arn]
      [] t.pc = "fail.set" -> [t.read EXCEPT !.status = "failed", !.error = t.err]

Edit(s) ==
    LET t == run[s] IN
    CASE t.pc = "begin"    -> [t.read EXCEPT !.status = "processing"]
      [] t.pc = "arn.set"  -> [t.read EXCEPT !.arn = t.arn]
      [] t.pc = "save.set" -> [t.read EXCEPT !.status = "success", !.result = t.arn,
                                             !.completed = TRUE]
      [] t.pc = "fail.set" -> [t.read EXCEPT !.status = "failed", !.error = t.err,
                                             !.completed = TRUE]

Committed(s) == [jobs EXCEPT ![run[s].job] = Flush(@, run[s].read, Edit(s))]

-----------------------------------------------------------------------------
(* Delivery. *)

Deliver(s, j) ==
    /\ At(s, "idle") /\ ready[j] > 0
    /\ ready' = [ready EXCEPT ![j] = @ - 1]
    /\ run' = [run EXCEPT ![s] = [IdleTask EXCEPT !.pc = "load", !.job = j, !.held = TRUE]]
    /\ UNCHANGED <<jobs, s3, bda, dropped>>

(* The task is over.  task_acks_late acknowledges its message whether it   *)
(* returned or raised; a message already given back is left alone.         *)
Ack(s) ==
    /\ run[s].pc \in {"returned", "raised"}
    /\ dropped' = IF At(s, "raised") THEN dropped \cup {run[s].job} ELSE dropped
    /\ run' = [run EXCEPT ![s] = IdleTask]
    /\ UNCHANGED <<jobs, ready, s3, bda>>

-----------------------------------------------------------------------------
(* run_job. *)

(* A session reads the row.  No row: the first session and the last two    *)
(* end the task, the one that records the ARN goes on to poll.             *)
ReadRow(s, get, found, missing) ==
    /\ At(s, get)
    /\ run' = [run EXCEPT ![s].read = jobs[run[s].job],
                          ![s].pc = IF Exists(run[s].job) THEN found ELSE missing]
    /\ UNCHANGED <<jobs, ready, s3, bda, dropped>>

LoadRow(s)    == ReadRow(s, "load", "begin", "returned")
LoadForArn(s) == ReadRow(s, "arn.get", "arn.set", "poll")
LoadToSave(s) == ReadRow(s, "save.get", "save.set", "returned")
LoadToFail(s) == ReadRow(s, "fail.get", "fail.set", "returned")

CommitRow(s, set, next) ==
    /\ At(s, set)
    /\ jobs' = Committed(s)
    /\ run' = [run EXCEPT ![s].pc = next, ![s].read = NoRow]
    /\ UNCHANGED <<ready, s3, bda, dropped>>

(* MarkProcessingLater is not the code: it defers the first commit. *)
MarkProcessingLater(s) ==
    /\ At(s, "begin")
    /\ run' = [run EXCEPT ![s].pc = "invoke", ![s].read = NoRow]
    /\ UNCHANGED <<jobs, ready, s3, bda, dropped>>

(* RecordArnUnsaved is not the code: it forgets the commit. *)
RecordArnUnsaved(s) ==
    /\ At(s, "arn.set")
    /\ run' = [run EXCEPT ![s].pc = "poll", ![s].read = NoRow]
    /\ UNCHANGED <<jobs, ready, s3, bda, dropped>>

(* MarkFailedResending is not the code: a retry published by hand. *)
MarkFailedResending(s) ==
    /\ At(s, "fail.set")
    /\ jobs' = Committed(s)
    /\ ready' = [ready EXCEPT ![run[s].job] = @ + 1]
    /\ run' = [run EXCEPT ![s].pc = "returned", ![s].read = NoRow]
    /\ UNCHANGED <<s3, bda, dropped>>

MarkProcessing(s) == CommitRow(s, "begin", "invoke")
RecordArn(s)      == CommitRow(s, "arn.set", "poll")
MarkSuccess(s)    == CommitRow(s, "save.set", "returned")
MarkFailed(s)     == CommitRow(s, "fail.set", "returned")

(* An exception in the try block reaches _mark_failed.                     *)
(* FailUnhandled is not the code: it swallows the exception.               *)
FailUnhandled(s, code) == run' = [run EXCEPT ![s].pc = "returned", ![s].read = NoRow]

Fail(s, code) == run' = [run EXCEPT ![s].pc = "fail.get", ![s].err = code, ![s].read = NoRow]

(* A call to AWS raises a ClientError with the given code: tenacity        *)
(* repeats the call if the code is one to retry and attempts are left;     *)
(* else the call fails with `code` for those, "ClientError" for others.    *)
(* CallRetriedForever is not the code: no attempt is the last.             *)
CallRetriedForever(s, err, retried, code) ==
    IF err \in retried
    THEN run' = [run EXCEPT ![s].tries = @ + 1]
    ELSE Fail(s, "ClientError")

CallFails(s, err, retried, code) ==
    IF err \in retried
    THEN IF run[s].tries < MaxTries
         THEN run' = [run EXCEPT ![s].tries = @ + 1]
         ELSE Fail(s, code)
    ELSE Fail(s, "ClientError")

(* start_invocation.  The client token is the job id, and a repeated token *)
(* gets the invocation it named first.                                     *)
(* TokenPerAttempt is not the code: a token of the slot's own.             *)
TokenPerAttempt(s) == s

ClientToken(s) == run[s].job

Submitted(s) ==
    IF \E i \in bda : i.token = ClientToken(s) THEN bda
    ELSE bda \cup {[token |-> ClientToken(s), job |-> run[s].job, status |-> "InProgress"]}

Invoke(s) ==
    /\ At(s, "invoke")
    /\ bda' = Submitted(s)
    /\ run' = [run EXCEPT ![s].pc = "arn.get", ![s].arn = ClientToken(s), ![s].tries = 1]
    /\ UNCHANGED <<jobs, ready, s3, dropped>>

(* The call raises; BDA may have taken the invocation all the same. *)
InvokeFails(s, err) ==
    /\ At(s, "invoke")
    /\ bda' \in {bda, Submitted(s)}
    /\ CallFails(s, err, InvokeTransients, "TransientBdaError")
    /\ UNCHANGED <<jobs, ready, s3, dropped>>

(* wait_for_completion: one call of _check_status, and what its answer     *)
(* means.  PollPending is a turn of the loop, with fresh retries.          *)
Answer(s, status) == \E i \in bda : i.token = run[s].arn /\ i.status = status

PollPending(s) ==
    /\ At(s, "poll") /\ Answer(s, "InProgress")
    /\ run' = [run EXCEPT ![s].tries = 1]
    /\ UNCHANGED <<jobs, ready, s3, bda, dropped>>

(* PollAnyDone is not the code: it takes any answer for success. *)
PollAnyDone(s) ==
    /\ At(s, "poll")
    /\ run' = [run EXCEPT ![s].pc = "fetch", ![s].tries = 1]
    /\ UNCHANGED <<jobs, ready, s3, bda, dropped>>

PollDone(s) ==
    /\ At(s, "poll") /\ (Answer(s, "Success") \/ Answer(s, "BadOutput"))
    /\ run' = [run EXCEPT ![s].pc = "fetch", ![s].tries = 1]
    /\ UNCHANGED <<jobs, ready, s3, bda, dropped>>

PollServiceError(s) ==
    /\ At(s, "poll") /\ Answer(s, "ServiceError")
    /\ Fail(s, "ServiceError")
    /\ UNCHANGED <<jobs, ready, s3, bda, dropped>>

(* The deadline is looked at before each turn, whatever the call would say, *)
(* and not between tenacity's attempts at one call.                        *)
PollTimeout(s) ==
    /\ At(s, "poll") /\ run[s].tries = 1
    /\ Fail(s, "TimeoutError")
    /\ UNCHANGED <<jobs, ready, s3, bda, dropped>>

PollFails(s, err) ==
    /\ At(s, "poll")
    /\ CallFails(s, err, PollTransients, "TransientBdaError")
    /\ UNCHANGED <<jobs, ready, s3, bda, dropped>>

(* fetch_and_parse, its S3 reads folded into one.  They are repeated on    *)
(* any ClientError; what they read is the same for every attempt.          *)
Fetch(s) ==
    /\ At(s, "fetch")
    /\ IF Answer(s, "Success") THEN Goto(s, "save.get") ELSE Fail(s, "ValueError")
    /\ UNCHANGED <<jobs, ready, s3, bda, dropped>>

FetchFails(s, err) ==
    /\ At(s, "fetch")
    /\ CallFails(s, err, AwsErrors, "ClientError")
    /\ UNCHANGED <<jobs, ready, s3, bda, dropped>>

-----------------------------------------------------------------------------
(* Faults. *)

(* A commit cut short may have gone through. *)
MaybeCommitted(s) ==
    IF run[s].pc \in {"begin", "arn.set", "save.set", "fail.set"}
    THEN jobs' \in {jobs, Committed(s)}
    ELSE UNCHANGED jobs

(* The exception leaves run_job. *)
Raise(s) == run' = [run EXCEPT ![s].pc = "raised", ![s].read = NoRow]

(* A database call raises: in the try block the row is marked failed, in   *)
(* the first session or in _mark_failed nothing catches it.                *)
DbError(s) ==
    /\ "db_error" \in Faults
    /\ run[s].pc \in {"load", "begin", "arn.get", "arn.set",
                      "save.get", "save.set", "fail.get", "fail.set"}
    /\ MaybeCommitted(s)
    /\ IF run[s].pc \in InTry THEN Fail(s, "DBAPIError") ELSE Raise(s)
    /\ UNCHANGED <<ready, s3, bda, dropped>>

(* The soft time limit, once per task.  The signal may find the event loop *)
(* running a step of run_job, which then sees an Exception; or waiting, and*)
(* then asyncio.run cancels run_job and no handler of it runs.             *)
SoftLimit(s) ==
    /\ "soft_limit" \in Faults
    /\ run[s].pc \in Working /\ run[s].err # "SoftTimeLimitExceeded"
    /\ MaybeCommitted(s)
    /\ \/ run[s].pc \in InTry /\ Fail(s, "SoftTimeLimitExceeded")
       \/ Raise(s)
    /\ UNCHANGED <<ready, s3, bda, dropped>>

(* The slot's process dies, at any point of its task.  The worker lives,   *)
(* and acknowledges the message (task_reject_on_worker_lost is not set).   *)
(* ChildKilledRequeued is not the code: the setting it describes is on.    *)
ChildKilledRequeued(s) ==
    /\ "child_kill" \in Faults
    /\ ~ At(s, "idle")
    /\ ready' = [ready EXCEPT ![run[s].job] = @ + 1]
    /\ run' = [run EXCEPT ![s] = IdleTask]
    /\ UNCHANGED <<jobs, s3, bda, dropped>>

ChildKilled(s) ==
    /\ "child_kill" \in Faults
    /\ ~ At(s, "idle")
    /\ dropped' = dropped \cup {run[s].job}
    /\ run' = [run EXCEPT ![s] = IdleTask]
    /\ UNCHANGED <<jobs, ready, s3, bda>>

SlotsOf(w) == {s \in Slots : WorkerOf[s] = w}

(* The unacknowledged messages of job j that w holds. *)
HeldBy(w, j) == {s \in SlotsOf(w) : run[s].held /\ run[s].job = j}

(* The broker puts back every message w had not acknowledged.              *)
GiveBack(w) == [j \in Jobs |-> ready[j] + Cardinality(HeldBy(w, j))]

(* The worker dies.  The attempts whose message had been given back before *)
(* die for good.                                                           *)
(* WorkerCrashAckedEarly is not the code: with task_acks_late off, nothing *)
(* is given back.                                                          *)
WorkerCrashAckedEarly(w) ==
    /\ "worker_crash" \in Faults
    /\ \E s \in SlotsOf(w) : ~ At(s, "idle")
    /\ run' = [s \in Slots |-> IF s \in SlotsOf(w) THEN IdleTask ELSE run[s]]
    /\ UNCHANGED <<jobs, ready, s3, bda, dropped>>

WorkerCrash(w) ==
    /\ "worker_crash" \in Faults
    /\ \E s \in SlotsOf(w) : ~ At(s, "idle")
    /\ ready' = GiveBack(w)
    /\ dropped' = dropped \cup {run[s].job : s \in {t \in SlotsOf(w) : ~ run[t].held /\ ~ At(t, "idle")}}
    /\ run' = [s \in Slots |-> IF s \in SlotsOf(w) THEN IdleTask ELSE run[s]]
    /\ UNCHANGED <<jobs, s3, bda>>

(* The worker loses the broker; its tasks run on, detached. *)
ConnectionLoss(w) ==
    /\ "connection_loss" \in Faults
    /\ \E s \in SlotsOf(w) : run[s].held
    /\ ready' = GiveBack(w)
    /\ run' = [s \in Slots |-> IF s \in SlotsOf(w) THEN [run[s] EXCEPT !.held = FALSE] ELSE run[s]]
    /\ UNCHANGED <<jobs, s3, bda, dropped>>

-----------------------------------------------------------------------------
(* An invocation ends, for good. *)
BdaFinish(i, status) ==
    /\ i.status = "InProgress"
    /\ bda' = (bda \ {i}) \cup {[i EXCEPT !.status = status]}
    /\ UNCHANGED <<jobs, ready, s3, run, dropped>>

(* Whatever an attempt does next of its own accord. *)
RunStep(s) ==
    \/ LoadRow(s) \/ MarkProcessing(s)
    \/ Invoke(s) \/ \E err \in AwsErrors : InvokeFails(s, err)
    \/ LoadForArn(s) \/ RecordArn(s)
    \/ PollPending(s) \/ PollDone(s) \/ PollServiceError(s)
    \/ \E err \in AwsErrors : PollFails(s, err)
    \/ Fetch(s) \/ \E err \in AwsErrors : FetchFails(s, err)
    \/ LoadToSave(s) \/ MarkSuccess(s)
    \/ LoadToFail(s) \/ MarkFailed(s)
    \/ Ack(s)

RunnerNext ==
    \/ \E s \in Slots :
          \/ \E j \in Jobs : Deliver(s, j)
          \/ RunStep(s) \/ PollTimeout(s)
          \/ DbError(s) \/ SoftLimit(s) \/ ChildKilled(s)
    \/ \E w \in Workers : WorkerCrash(w) \/ ConnectionLoss(w)
    \/ \E i \in bda, status \in Outcomes : BdaFinish(i, status)

(* The worker's own variables at rest; the stores as a batch of uploads    *)
(* leaves them.                                                            *)
RunInit ==
    /\ run = [s \in Slots |-> IdleTask]
    /\ bda = {}
    /\ dropped = {}

RunnerInit ==
    /\ jobs = [j \in Jobs |-> QueuedRow]
    /\ ready = [j \in Jobs |-> 1]
    /\ s3 = Jobs
    /\ RunInit

(* Fairness: a task in a slot keeps running, the broker delivers while a   *)
(* message waits and a slot is free, and BDA ends every invocation.  The   *)
(* polling deadline is not counted on: the soft time limit of the task is  *)
(* the same number of seconds from an earlier moment, and comes first.     *)
RunnerFairness ==
    /\ WF_runnerVars(\E s \in Slots, j \in Jobs : Deliver(s, j))
    /\ \A s \in Slots : WF_runnerVars(RunStep(s))
    /\ WF_runnerVars(\E i \in bda, status \in Outcomes : BdaFinish(i, status))

RunnerSpec == RunnerInit /\ [][RunnerNext]_runnerVars

FairRunnerSpec == RunnerSpec /\ RunnerFairness

-----------------------------------------------------------------------------
(* Properties. *)

RunnerTypeOK ==
    /\ StoresTypeOK
    /\ run \in [Slots -> Tasks]
    /\ bda \subseteq Invocations
    /\ dropped \subseteq Jobs

(* The attempt in slot s will still give the row of job j a final status,  *)
(* or be counted in dropped.  At its last commit that takes a status other *)
(* than the one it read, for the ORM writes no column it sees unchanged.   *)
Owes(s, j) ==
    /\ run[s].job = j
    /\ \/ run[s].pc \in {"load", "begin", "invoke", "arn.get", "arn.set", "poll", "fetch",
                         "save.get", "fail.get", "raised"}
       \/ At(s, "save.set") /\ run[s].read.status # "success"
       \/ At(s, "fail.set") /\ run[s].read.status # "failed"

InGoodHands(j) ==
    \/ Settled(jobs[j])
    \/ ready[j] > 0
    \/ \E s \in Slots : Owes(s, j)

(* However attempts at a job overlap, a job without a final status has a   *)
(* message in the queue or an attempt that owes it one, unless an attempt  *)
(* at it was lost to an escaped exception or a dead process.  The try block*)
(* of run_job and its two handlers are there for that.                     *)
NoOrphan == \A j \in Jobs : Exists(j) => InGoodHands(j) \/ j \in dropped

(* A row that says success has a result, one that says failed has an error *)
(* code, and both have their completion time, though each attempt writes   *)
(* only the columns that differ from the row as it read it.                *)
Complete(row) ==
    /\ row.status = "success" => row.result # None /\ row.completed
    /\ row.status = "failed" => row.error # None /\ row.completed

SettledRowsComplete == \A j \in Jobs : Exists(j) => Complete(jobs[j])

(* A row never contradicts BDA: it holds the output of its own job's       *)
(* successful invocation, and blames the service or the output only where  *)
(* these were at fault.                                                    *)
EndedAs(j, status) == \E i \in bda : i.job = j /\ i.status = status

RowAgreesWithBda ==
    \A j \in Jobs : Exists(j) =>
        /\ jobs[j].result # None => EndedAs(j, "Success")
        /\ jobs[j].error = "ServiceError" => EndedAs(j, "ServiceError")
        /\ jobs[j].error = "ValueError" => EndedAs(j, "BadOutput")

(* Whatever another attempt at the job commits in between, the row of a    *)
(* job that is polled or parsed names the invocation.                      *)
ArnOnRow ==
    \A s \in Slots :
        run[s].pc \in {"poll", "fetch", "save.get", "save.set"} =>
            jobs[run[s].job].arn = run[s].arn

(* An attempt works for a job whose row is there. *)
AttemptHasRow == \A s \in Slots : ~ At(s, "idle") => Exists(run[s].job)

(* As long as no worker loses the broker and nothing is published twice, a *)
(* job is in the hands of one slot at most, its message gone from the      *)
(* queue: crashes alone never set two attempts at it side by side.         *)
OneAttemptAtATime ==
    \A s \in Slots : ~ At(s, "idle") =>
        /\ ready[run[s].job] = 0
        /\ \A t \in Slots : run[t].job = run[s].job => t = s

(* What was extracted, and from which invocation, never changes again,     *)
(* whatever later attempts at the job do.                                  *)
ExtractionIsStable ==
    [][\A j \in Jobs : Exists(j) =>
          /\ jobs[j].arn # None => jobs'[j].arn = jobs[j].arn
          /\ jobs[j].result # None => jobs'[j].result = jobs[j].result]_runnerVars

(* "safe to retry/dispatch the task multiple times": a job an attempt has  *)
(* brought to success is not turned into a failed one by another.          *)
SuccessStands == \A j \in Jobs : Exists(j) /\ jobs[j].result # None => jobs[j].status # "failed"

(* Once workers stop crashing, every job comes to a final status and stays *)
(* there: "broker requeues on worker crash".                               *)
AllSettled == \A j \in Jobs : Exists(j) => Settled(jobs[j])

CrashesEnd == <>[][~ \E w \in Workers : WorkerCrash(w)]_runnerVars

EventuallySettled == CrashesEnd => <>[]AllSettled

(* The life of a job as a client sees it. *)
StatusOf == [j \in Jobs |-> IF Exists(j) THEN jobs[j].status ELSE "absent"]

Once == INSTANCE JobLifecycle WITH status <- StatusOf, Reopening <- FALSE

Again == INSTANCE JobLifecycle WITH status <- StatusOf, Reopening <- TRUE

(* Where a message is delivered once only, a job goes through its states   *)
(* once.                                                                   *)
RunsOnce == Once!Spec

(* Under every fault, a job is taken up before it ends and never queued    *)
(* again; it may be reopened.                                              *)
RunsAgain == Again!Spec
=============================================================================
