--------------------------- MODULE JobRunnerProofs ---------------------------
(***************************************************************************)
(* What holds of the workers for any number of jobs, slots and workers:    *)
(* under any choice of faults, and what more holds where nothing is        *)
(* delivered twice.                                                        *)
(***************************************************************************)
EXTENDS JobRunner, FiniteSetTheorems, TLAPS

(* The labels at which an open session is about to commit what it read. *)
SetLabels == {"begin", "arn.set", "save.set", "fail.set"}

(* What makes the types inductive: whoever works has a row to work on, and *)
(* whoever commits has read it.                                            *)
TaskInv(s) ==
    /\ ~ At(s, "idle") => run[s].job \in Jobs /\ Exists(run[s].job)
    /\ run[s].held => ~ At(s, "idle")
    /\ run[s].pc \in SetLabels => run[s].read \in Rows

TypeInv ==
    /\ RunnerTypeOK
    /\ \A j \in Jobs : ready[j] > 0 => Exists(j)
    /\ \A s \in Slots : TaskInv(s)

-----------------------------------------------------------------------------
(* What a commit does to a row. *)

(* The ORM's write turns a row into a row. *)
LEMMA FlushType ==
    ASSUME NEW row \in Rows, NEW read \in Rows, NEW edit \in Rows
    PROVE  Flush(row, read, edit) \in Rows
BY DEF Flush, Rows

(* What an attempt at a commit label means to write is a row. *)
LEMMA EditType ==
    ASSUME NEW s \in Slots, run[s] \in Tasks, run[s].pc \in SetLabels, run[s].read \in Rows
    PROVE  Edit(s) \in Rows
<1>1. run[s].arn \in Arns \cup {None} /\ run[s].err \in ErrorCodes \cup {None}
  BY DEF Tasks
<1>2. CASE At(s, "begin")
  BY <1>2 DEF Edit, At, Rows
<1>3. CASE At(s, "arn.set")
  BY <1>1, <1>3 DEF Edit, At, Rows
<1>4. CASE At(s, "save.set")
  BY <1>1, <1>4 DEF Edit, At, Rows
<1>5. CASE At(s, "fail.set")
  BY <1>1, <1>5 DEF Edit, At, Rows
<1> QED BY <1>2, <1>3, <1>4, <1>5 DEF SetLabels, At

(* A commit keeps the table a table and adds or removes no row. *)
LEMMA CommitType ==
    ASSUME TypeInv, NEW s \in Slots, run[s].pc \in SetLabels
    PROVE  /\ Committed(s) \in [Jobs -> Rows \cup {NoRow}]
           /\ \A j \in Jobs : Committed(s)[j] = NoRow <=> jobs[j] = NoRow
           /\ Committed(s)[run[s].job] \in Rows
<1>1. /\ jobs \in [Jobs -> Rows \cup {NoRow}]
      /\ run[s] \in Tasks
      /\ run[s].job \in Jobs /\ jobs[run[s].job] \in Rows
      /\ run[s].read \in Rows
  BY DEF TypeInv, RunnerTypeOK, StoresTypeOK, TaskInv, Exists, SetLabels, At
<1>2. Edit(s) \in Rows
  BY <1>1, EditType
<1>3. Flush(jobs[run[s].job], run[s].read, Edit(s)) \in Rows
  BY <1>1, <1>2, FlushType
<1> QED BY <1>1, <1>3, StoreConstants DEF Committed

(* The table after any step of the workers: as it was, or one commit.      *)
LEMMA TableStep ==
    ASSUME TypeInv, RunnerNext
    PROVE  \/ jobs' = jobs
           \/ \E s \in Slots : run[s].pc \in SetLabels /\ jobs' = Committed(s)
<1> USE DEF At
<1>1. ASSUME NEW s \in Slots, NEW j \in Jobs, Deliver(s, j) PROVE jobs' = jobs
  BY <1>1 DEF Deliver
<1>2. ASSUME NEW s \in Slots, RunStep(s)
      PROVE  jobs' = jobs \/ (run[s].pc \in SetLabels /\ jobs' = Committed(s))
  BY <1>2 DEF RunStep, LoadRow, LoadForArn, LoadToSave, LoadToFail, ReadRow,
     MarkProcessing, RecordArn, MarkSuccess, MarkFailed, CommitRow, Invoke, InvokeFails,
     PollPending, PollDone, PollServiceError, PollFails, Fetch, FetchFails, Ack, SetLabels
<1>3. ASSUME NEW s \in Slots, PollTimeout(s) \/ ChildKilled(s) PROVE jobs' = jobs
  BY <1>3 DEF PollTimeout, ChildKilled
<1>4. ASSUME NEW s \in Slots, DbError(s) \/ SoftLimit(s)
      PROVE  jobs' = jobs \/ (run[s].pc \in SetLabels /\ jobs' = Committed(s))
  BY <1>4 DEF DbError, SoftLimit, MaybeCommitted, SetLabels
<1>5. ASSUME NEW w \in Workers, WorkerCrash(w) \/ ConnectionLoss(w) PROVE jobs' = jobs
  BY <1>5 DEF WorkerCrash, ConnectionLoss
<1>6. ASSUME NEW i \in bda, NEW status \in Outcomes, BdaFinish(i, status) PROVE jobs' = jobs
  BY <1>6 DEF BdaFinish
<1> QED BY <1>1, <1>2, <1>3, <1>4, <1>5, <1>6 DEF RunnerNext

(* No step of the workers adds or removes a row.                           *)
LEMMA RowsStay ==
    ASSUME TypeInv, RunnerNext
    PROVE  /\ jobs' \in [Jobs -> Rows \cup {NoRow}]
           /\ \A j \in Jobs : Exists(j)' <=> Exists(j)
<1>1. jobs \in [Jobs -> Rows \cup {NoRow}]
  BY DEF TypeInv, RunnerTypeOK, StoresTypeOK
<1>2. CASE jobs' = jobs
  BY <1>1, <1>2 DEF Exists
<1>3. ASSUME NEW s \in Slots, run[s].pc \in SetLabels, jobs' = Committed(s)
      PROVE  /\ jobs' \in [Jobs -> Rows \cup {NoRow}]
             /\ \A j \in Jobs : Exists(j)' <=> Exists(j)
  BY <1>3, CommitType DEF Exists
<1> QED BY <1>2, <1>3, TableStep

-----------------------------------------------------------------------------
(* Type correctness. *)

(* What a worker gives back leaves a count of messages for every job, and  *)
(* a message for each job it gave one back for.                            *)
LEMMA GiveBackCounts ==
    ASSUME TypeInv, NEW w \in Workers
    PROVE  /\ GiveBack(w) \in [Jobs -> Nat]
           /\ \A j \in Jobs : GiveBack(w)[j] >= ready[j]
           /\ \A j \in Jobs : \A s \in HeldBy(w, j) : GiveBack(w)[j] > 0
           /\ \A j \in Jobs : GiveBack(w)[j] > 0 =>
                 ready[j] > 0 \/ \E s \in Slots : run[s].held /\ run[s].job = j
<1> SUFFICES ASSUME NEW j \in Jobs
             PROVE  /\ Cardinality(HeldBy(w, j)) \in Nat
                    /\ HeldBy(w, j) # {} <=> Cardinality(HeldBy(w, j)) > 0
  <2>1. ready \in [Jobs -> Nat]
    BY DEF TypeInv, RunnerTypeOK, StoresTypeOK
  <2> QED BY <2>1 DEF GiveBack, HeldBy, SlotsOf
<1>1. IsFiniteSet(HeldBy(w, j))
  BY RunnerConstants, FS_Subset DEF HeldBy, SlotsOf
<1> QED BY <1>1, FS_CardinalityType, FS_EmptySet

(* The initial state is well typed. *)
LEMMA TypeInit == RunnerInit => TypeInv
<1> SUFFICES ASSUME RunnerInit PROVE TypeInv
  OBVIOUS
<1>1. QueuedRow \in Rows
  BY DEF QueuedRow, Rows
<1>2. IdleTask \in Tasks
  BY RunnerConstants DEF IdleTask, Tasks, Labels
<1>3. RunnerTypeOK
  BY <1>1, <1>2 DEF RunnerInit, RunInit, RunnerTypeOK, StoresTypeOK
<1>4. \A j \in Jobs : Exists(j)
  BY <1>1, StoreConstants DEF RunnerInit, Exists
<1>5. \A s \in Slots : TaskInv(s)
  BY DEF RunnerInit, RunInit, IdleTask, TaskInv, At, SetLabels
<1> QED BY <1>3, <1>4, <1>5 DEF TypeInv

(* A slot's own step keeps its task a task, and puts none to a commit it   *)
(* has not read for.                                                       *)
LEMMA RunStepType ==
    ASSUME TypeInv, NEW s \in Slots, RunStep(s) \/ PollTimeout(s)
    PROVE  /\ run' \in [Slots -> Tasks]
           /\ \A t \in Slots \ {s} : run'[t] = run[t]
           /\ \/ run'[s] = IdleTask
              \/ /\ run'[s].pc # "idle" /\ run'[s].job = run[s].job /\ run[s].pc # "idle"
                 /\ run'[s].pc \in SetLabels => run'[s].read = jobs[run[s].job] /\ Exists(run[s].job)
           /\ bda' \subseteq Invocations
           /\ dropped' \subseteq Jobs
           /\ ready' = ready /\ s3' = s3
<1>0. /\ run \in [Slots -> Tasks] /\ run[s] \in Tasks
      /\ bda \subseteq Invocations /\ dropped \subseteq Jobs
      /\ jobs \in [Jobs -> Rows \cup {NoRow}]
      /\ run[s].pc # "idle" => run[s].job \in Jobs
      /\ IdleTask \in Tasks
  BY RunnerConstants DEF TypeInv, RunnerTypeOK, StoresTypeOK, TaskInv, At, IdleTask, Tasks, Labels
<1>1. ASSUME NEW get \in {"load", "arn.get", "save.get", "fail.get"},
             NEW found \in SetLabels, NEW missing \in {"returned", "poll"},
             ReadRow(s, get, found, missing)
      PROVE  /\ run' \in [Slots -> Tasks]
             /\ \A t \in Slots \ {s} : run'[t] = run[t]
             /\ run'[s].pc # "idle" /\ run'[s].job = run[s].job /\ run[s].pc # "idle"
             /\ run'[s].pc \in SetLabels => run'[s].read = jobs[run[s].job] /\ Exists(run[s].job)
             /\ bda' = bda /\ dropped' = dropped /\ ready' = ready /\ s3' = s3
  BY <1>0, <1>1 DEF ReadRow, At, Tasks, Labels, SetLabels
<1>2. ASSUME NEW set \in SetLabels, NEW next \in {"invoke", "poll", "returned"},
             CommitRow(s, set, next)
      PROVE  /\ run' \in [Slots -> Tasks]
             /\ \A t \in Slots \ {s} : run'[t] = run[t]
             /\ run'[s].pc = next /\ run'[s].job = run[s].job /\ run[s].pc # "idle"
             /\ bda' = bda /\ dropped' = dropped /\ ready' = ready /\ s3' = s3
  BY <1>0, <1>2 DEF CommitRow, At, Tasks, Labels, SetLabels
<1>3. ASSUME NEW code \in ErrorCodes, Fail(s, code)
      PROVE  /\ run' \in [Slots -> Tasks]
             /\ \A t \in Slots \ {s} : run'[t] = run[t]
             /\ run'[s].pc = "fail.get" /\ run'[s].job = run[s].job
  BY <1>0, <1>3 DEF Fail, Tasks, Labels
<1>4. ASSUME NEW err, NEW retried, NEW code \in ErrorCodes, CallFails(s, err, retried, code)
      PROVE  /\ run' \in [Slots -> Tasks]
             /\ \A t \in Slots \ {s} : run'[t] = run[t]
             /\ run'[s].pc \in {run[s].pc, "fail.get"} /\ run'[s].job = run[s].job
  <2>1. CASE run' = [run EXCEPT ![s].tries = @ + 1] /\ run[s].tries < MaxTries
    <3>1. run[s].tries + 1 \in 1 .. MaxTries
      BY <1>0, <2>1, RunnerConstants DEF Tasks
    <3> QED BY <1>0, <2>1, <3>1 DEF Tasks
  <2>2. CASE Fail(s, code) \/ Fail(s, "ClientError")
    BY <1>3, <2>2 DEF ErrorCodes
  <2> QED BY <1>4, <2>1, <2>2 DEF CallFails
<1>5. ClientToken(s) = run[s].job /\ (run[s].pc # "idle" => Submitted(s) \subseteq Invocations)
  BY <1>0 DEF ClientToken, Submitted, Invocations, Arns
<1>6. CASE LoadRow(s) \/ LoadForArn(s) \/ LoadToSave(s) \/ LoadToFail(s)
  BY <1>0, <1>1, <1>6 DEF LoadRow, LoadForArn, LoadToSave, LoadToFail, SetLabels
<1>7. CASE MarkProcessing(s) \/ RecordArn(s) \/ MarkSuccess(s) \/ MarkFailed(s)
  BY <1>0, <1>2, <1>7 DEF MarkProcessing, RecordArn, MarkSuccess, MarkFailed, SetLabels
<1>8. CASE Invoke(s)
  <2>1. /\ run' = [run EXCEPT ![s].pc = "arn.get", ![s].arn = run[s].job, ![s].tries = 1]
        /\ run[s].pc = "invoke" /\ run[s].job \in Jobs /\ bda' = Submitted(s)
        /\ dropped' = dropped /\ ready' = ready /\ s3' = s3
    BY <1>0, <1>5, <1>8 DEF Invoke, At
  <2>2. 1 \in 1 .. MaxTries
    BY RunnerConstants
  <2>3. run' \in [Slots -> Tasks] /\ \A t \in Slots \ {s} : run'[t] = run[t]
    BY <1>0, <2>1, <2>2 DEF Tasks, Labels, Arns
  <2>4. run'[s].pc = "arn.get" /\ run'[s].job = run[s].job
    BY <1>0, <2>1 DEF Tasks
  <2> QED BY <1>0, <1>5, <2>1, <2>3, <2>4 DEF SetLabels
<1>9. ASSUME NEW err \in AwsErrors, InvokeFails(s, err) \/ PollFails(s, err) \/ FetchFails(s, err)
      PROVE  /\ run' \in [Slots -> Tasks]
             /\ \A t \in Slots \ {s} : run'[t] = run[t]
             /\ run'[s].pc # "idle" /\ run'[s].job = run[s].job /\ run[s].pc # "idle"
             /\ run'[s].pc \notin SetLabels
             /\ bda' \subseteq Invocations /\ dropped' = dropped /\ ready' = ready /\ s3' = s3
  BY <1>0, <1>4, <1>5, <1>9 DEF InvokeFails, PollFails, FetchFails, At, SetLabels, ErrorCodes
<1>10. CASE PollPending(s) \/ PollDone(s)
  BY <1>0, <1>10, RunnerConstants DEF PollPending, PollDone, At, Tasks, Labels, SetLabels
<1>11. CASE PollServiceError(s) \/ PollTimeout(s)
  BY <1>0, <1>3, <1>11 DEF PollServiceError, PollTimeout, At, SetLabels, ErrorCodes
<1>12. CASE Fetch(s)
  <2>1. CASE Goto(s, "save.get")
    BY <1>0, <1>12, <2>1 DEF Fetch, Goto, At, Tasks, Labels, SetLabels
  <2>2. CASE Fail(s, "ValueError")
    BY <1>0, <1>3, <1>12, <2>2 DEF Fetch, At, SetLabels, ErrorCodes
  <2> QED BY <1>12, <2>1, <2>2 DEF Fetch
<1>13. CASE Ack(s)
  BY <1>0, <1>13 DEF Ack, At
<1> QED BY <1>0, <1>6, <1>7, <1>8, <1>9, <1>10, <1>11, <1>12, <1>13 DEF RunStep

(* Every step keeps the types.                                             *)
LEMMA TypeStep == TypeInv /\ [RunnerNext]_runnerVars => TypeInv'
<1> SUFFICES ASSUME TypeInv, [RunnerNext]_runnerVars PROVE TypeInv'
  OBVIOUS
<1>0. /\ run \in [Slots -> Tasks]
      /\ bda \subseteq Invocations /\ dropped \subseteq Jobs
      /\ jobs \in [Jobs -> Rows \cup {NoRow}] /\ ready \in [Jobs -> Nat] /\ s3 \subseteq Jobs
      /\ \A s \in Slots : TaskInv(s)
      /\ \A j \in Jobs : ready[j] > 0 => Exists(j)
      /\ IdleTask \in Tasks
  BY RunnerConstants DEF TypeInv, RunnerTypeOK, StoresTypeOK, IdleTask, Tasks, Labels
<1>1. CASE UNCHANGED runnerVars
  BY <1>1 DEF runnerVars, TypeInv, RunnerTypeOK, StoresTypeOK, TaskInv, At, Exists
<1>2. CASE RunnerNext
  <2>0. /\ jobs' \in [Jobs -> Rows \cup {NoRow}]
        /\ \A j \in Jobs : Exists(j)' <=> Exists(j)
    BY <1>2, RowsStay
  <2>1. ASSUME run' \in [Slots -> Tasks], bda' \subseteq Invocations, dropped' \subseteq Jobs,
               ready' \in [Jobs -> Nat], s3' = s3,
               \A j \in Jobs : ready'[j] > 0 => Exists(j),
               \A s \in Slots : TaskInv(s)'
        PROVE  TypeInv'
    BY <1>0, <2>0, <2>1 DEF TypeInv, RunnerTypeOK, StoresTypeOK
  (* A slot whose task is idle, or is at no commit of its own and works for the same row. *)
  <2>2. ASSUME NEW s \in Slots,
               \/ run'[s] = run[s]
               \/ run'[s] = IdleTask
               \/ /\ run'[s].pc # "idle" /\ run'[s].job \in Jobs /\ Exists(run'[s].job)
                  /\ run'[s].pc \in SetLabels => run'[s].read \in Rows
        PROVE  TaskInv(s)'
    <3>1. TaskInv(s)
      BY <1>0
    <3>2. CASE run'[s] = run[s]
      BY <2>0, <3>1, <3>2 DEF TaskInv, At, Exists
    <3>3. CASE run'[s] = IdleTask
      BY <3>3 DEF TaskInv, At, IdleTask, SetLabels
    <3>4. CASE /\ run'[s].pc # "idle" /\ run'[s].job \in Jobs /\ Exists(run'[s].job)
               /\ run'[s].pc \in SetLabels => run'[s].read \in Rows
      BY <2>0, <3>4 DEF TaskInv, At, Exists
    <3> QED BY <2>2, <3>2, <3>3, <3>4
  <2>3. ASSUME NEW s \in Slots, NEW j \in Jobs, Deliver(s, j) PROVE TypeInv'
    <3>1. /\ run' = [run EXCEPT ![s] = [IdleTask EXCEPT !.pc = "load", !.job = j, !.held = TRUE]]
          /\ ready' = [ready EXCEPT ![j] = @ - 1] /\ ready[j] > 0
          /\ s3' = s3 /\ bda' = bda /\ dropped' = dropped
      BY <2>3 DEF Deliver
    <3>2. [IdleTask EXCEPT !.pc = "load", !.job = j, !.held = TRUE] \in Tasks
      BY <1>0 DEF Tasks, Labels, IdleTask
    <3>3. run' \in [Slots -> Tasks] /\ \A t \in Slots \ {s} : run'[t] = run[t]
      BY <1>0, <3>1, <3>2
    <3>4. run'[s].pc = "load" /\ run'[s].job = j
      BY <1>0, <3>1, <3>2 DEF IdleTask
    <3>5. ready' \in [Jobs -> Nat] /\ \A k \in Jobs : ready'[k] > 0 => Exists(k)
      BY <1>0, <3>1
    <3>6. \A t \in Slots : TaskInv(t)'
      BY <1>0, <2>2, <3>1, <3>3, <3>4 DEF SetLabels
    <3> QED BY <1>0, <2>1, <3>1, <3>3, <3>5, <3>6
  <2>4. ASSUME NEW s \in Slots, RunStep(s) \/ PollTimeout(s) PROVE TypeInv'
    <3>1. \A t \in Slots : TaskInv(t)'
      <4>1. \A t \in Slots \ {s} : TaskInv(t)'
        BY <2>2, <2>4, RunStepType
      <4>2. TaskInv(s)
        BY <1>0
      <4>3. TaskInv(s)'
        BY <1>0, <2>2, <2>4, <4>2, RunStepType DEF TaskInv, At, Exists
      <4> QED BY <4>1, <4>3
    <3> QED BY <1>0, <2>1, <2>4, <3>1, RunStepType
  <2>5. ASSUME NEW s \in Slots, DbError(s) \/ SoftLimit(s) PROVE TypeInv'
    <3>1. /\ run[s].pc \in Working
          /\ \E code \in ErrorCodes : Fail(s, code) \/ Raise(s)
          /\ ready' = ready /\ s3' = s3 /\ bda' = bda /\ dropped' = dropped
      BY <2>5 DEF DbError, SoftLimit, Working, InTry, OutOfTry, ErrorCodes
    <3>2. /\ run' \in [Slots -> Tasks]
          /\ \A t \in Slots \ {s} : run'[t] = run[t]
          /\ run'[s].pc \in {"fail.get", "raised"} /\ run'[s].job = run[s].job
      BY <1>0, <3>1 DEF Fail, Raise, Tasks, Labels
    <3>3. run[s].job \in Jobs /\ Exists(run[s].job)
      BY <1>0, <3>1 DEF TaskInv, At, Working, InTry, OutOfTry
    <3>4. \A t \in Slots : TaskInv(t)'
      BY <2>2, <3>2, <3>3 DEF SetLabels
    <3> QED BY <1>0, <2>1, <3>1, <3>2, <3>4
  <2>6. ASSUME NEW s \in Slots, ChildKilled(s) PROVE TypeInv'
    <3>1. /\ run' = [run EXCEPT ![s] = IdleTask]
          /\ ready' = ready /\ s3' = s3 /\ bda' = bda
          /\ dropped' = dropped \cup {run[s].job} /\ run[s].pc # "idle"
      BY <2>6 DEF ChildKilled, At
    <3>2. run' \in [Slots -> Tasks] /\ dropped' \subseteq Jobs
      BY <1>0, <3>1 DEF TaskInv, At
    <3>3. \A t \in Slots : TaskInv(t)'
      BY <1>0, <2>2, <3>1
    <3> QED BY <1>0, <2>1, <3>1, <3>2, <3>3
  <2>7. ASSUME NEW w \in Workers, WorkerCrash(w) PROVE TypeInv'
    <3>1. /\ run' = [s \in Slots |-> IF s \in SlotsOf(w) THEN IdleTask ELSE run[s]]
          /\ ready' = GiveBack(w) /\ s3' = s3 /\ bda' = bda
          /\ dropped' \subseteq dropped \cup {run[s].job : s \in {t \in Slots : ~ At(t, "idle")}}
      BY <2>7 DEF WorkerCrash, SlotsOf
    <3>2. run' \in [Slots -> Tasks] /\ dropped' \subseteq Jobs
      BY <1>0, <3>1 DEF TaskInv
    <3>3. ready' \in [Jobs -> Nat] /\ \A j \in Jobs : ready'[j] > 0 => Exists(j)
      BY <1>0, <3>1, GiveBackCounts DEF TaskInv
    <3>4. \A t \in Slots : TaskInv(t)'
      BY <1>0, <2>2, <3>1
    <3> QED BY <1>0, <2>1, <3>1, <3>2, <3>3, <3>4
  <2>8. ASSUME NEW w \in Workers, ConnectionLoss(w) PROVE TypeInv'
    <3>1. /\ run' = [s \in Slots |-> IF s \in SlotsOf(w)
                                     THEN [run[s] EXCEPT !.held = FALSE] ELSE run[s]]
          /\ ready' = GiveBack(w) /\ s3' = s3 /\ bda' = bda /\ dropped' = dropped
      BY <2>8 DEF ConnectionLoss
    <3>2. run' \in [Slots -> Tasks]
      BY <1>0, <3>1 DEF Tasks
    <3>3. ready' \in [Jobs -> Nat] /\ \A j \in Jobs : ready'[j] > 0 => Exists(j)
      BY <1>0, <3>1, GiveBackCounts DEF TaskInv
    <3>4. ASSUME NEW t \in Slots PROVE TaskInv(t)'
      <4>1. TaskInv(t) /\ run[t] \in Tasks
        BY <1>0
      <4>2. CASE t \in SlotsOf(w)
        <5>1. /\ run'[t].pc = run[t].pc /\ run'[t].job = run[t].job
              /\ run'[t].read = run[t].read /\ run'[t].held = FALSE
          BY <3>1, <4>1, <4>2 DEF Tasks
        <5> QED BY <2>0, <4>1, <5>1 DEF TaskInv, At, Exists
      <4>3. CASE t \notin SlotsOf(w)
        BY <2>2, <3>1, <4>3
      <4> QED BY <4>2, <4>3
    <3> QED BY <1>0, <2>1, <3>1, <3>2, <3>3, <3>4
  <2>9. ASSUME NEW i \in bda, NEW status \in Outcomes, BdaFinish(i, status) PROVE TypeInv'
    <3>1. /\ bda' = (bda \ {i}) \cup {[i EXCEPT !.status = status]}
          /\ run' = run /\ ready' = ready /\ s3' = s3 /\ dropped' = dropped
      BY <2>9 DEF BdaFinish
    <3>2. [i EXCEPT !.status = status] \in Invocations
      BY <1>0 DEF Invocations, Outcomes
    <3>3. \A t \in Slots : TaskInv(t)'
      BY <2>2, <3>1
    <3> QED BY <1>0, <2>1, <3>1, <3>2, <3>3
  <2> QED BY <1>2, <2>3, <2>4, <2>5, <2>6, <2>7, <2>8, <2>9 DEF RunnerNext
<1> QED BY <1>1, <1>2

(* Whatever the number of jobs, slots and workers and whatever the faults, *)
(* the workers keep their state well typed.                                *)
THEOREM TypeCorrect == RunnerSpec => []RunnerTypeOK
<1>1. RunnerSpec => []TypeInv
  BY TypeInit, TypeStep, PTL DEF RunnerSpec
<1>2. TypeInv => RunnerTypeOK
  BY DEF TypeInv
<1> QED BY <1>1, <1>2, PTL

-----------------------------------------------------------------------------
(* One invocation per job. *)

(* The client token is the job id, whoever invokes. *)
TokenIsJob == \A i \in bda : i.token = i.job

(* An invocation is only ever added by a call, or brought to its end. *)
LEMMA BdaStep ==
    ASSUME TypeInv, [RunnerNext]_runnerVars
    PROVE  \/ bda' = bda
           \/ \E s \in Slots : run[s].pc = "invoke" /\ bda' = Submitted(s)
           \/ \E i \in bda, status \in Outcomes : BdaFinish(i, status)
<1>1. ASSUME NEW s \in Slots, RunStep(s)
      PROVE  bda' = bda \/ (run[s].pc = "invoke" /\ bda' = Submitted(s))
  BY <1>1 DEF RunStep, LoadRow, LoadForArn, LoadToSave, LoadToFail, ReadRow, At,
     MarkProcessing, RecordArn, MarkSuccess, MarkFailed, CommitRow, Invoke, InvokeFails,
     PollPending, PollDone, PollServiceError, PollFails, Fetch, FetchFails, Ack
<1>2. CASE \E s \in Slots : \/ \E j \in Jobs : Deliver(s, j)
                            \/ PollTimeout(s) \/ DbError(s) \/ SoftLimit(s) \/ ChildKilled(s)
  BY <1>2 DEF Deliver, PollTimeout, DbError, SoftLimit, ChildKilled
<1>3. CASE \E w \in Workers : WorkerCrash(w) \/ ConnectionLoss(w)
  BY <1>3 DEF WorkerCrash, ConnectionLoss
<1>4. CASE UNCHANGED runnerVars
  BY <1>4 DEF runnerVars
<1> QED BY <1>1, <1>2, <1>3, <1>4 DEF RunnerNext

LEMMA TokenStep == TypeInv /\ TokenIsJob /\ [RunnerNext]_runnerVars => TokenIsJob'
<1> SUFFICES ASSUME TypeInv, TokenIsJob, [RunnerNext]_runnerVars PROVE TokenIsJob'
  OBVIOUS
<1>1. \A s \in Slots : \A i \in Submitted(s) : i.token = i.job
  BY DEF Submitted, ClientToken, TokenIsJob
<1>2. ASSUME NEW i \in bda, NEW status \in Outcomes, BdaFinish(i, status) PROVE TokenIsJob'
  <2>1. i \in Invocations
    BY DEF TypeInv, RunnerTypeOK
  <2>2. /\ [i EXCEPT !.status = status].token = i.token
        /\ [i EXCEPT !.status = status].job = i.job
    BY <2>1 DEF Invocations
  <2> QED BY <1>2, <2>2 DEF BdaFinish, TokenIsJob
<1> QED BY <1>1, <1>2, BdaStep DEF TokenIsJob

-----------------------------------------------------------------------------
(* Settled rows are complete.                                              *)
(*                                                                         *)
(* A commit writes only what differs from the row as it was read, so that  *)
(* what it leaves unwritten must still be there when it commits.  It is,   *)
(* because rows only ever grow: no commit clears a result, an error or a   *)
(* completion time, and none puts a row back to queued.                    *)

Grown(old, new) ==
    /\ old.result # None => new.result # None
    /\ old.error # None => new.error # None
    /\ old.completed => new.completed
    /\ old.status # "queued" => new.status # "queued"

(* What an attempt has to show for where it stands: the ARN once it has    *)
(* invoked, the code once it has failed, a row no longer queued once it    *)
(* has marked it, and at a commit a reading the row has only outgrown.     *)
AttemptInv(s) ==
    /\ run[s].pc \in {"arn.get", "arn.set", "poll", "fetch", "save.get", "save.set"}
          => run[s].arn # None
    /\ run[s].pc \in {"fail.get", "fail.set"} => run[s].err # None
    /\ run[s].pc \in InTry \cup {"fail.get", "fail.set"} => jobs[run[s].job].status # "queued"
    /\ run[s].pc \in SetLabels =>
          Complete(run[s].read) /\ Grown(run[s].read, jobs[run[s].job])

RowInv == SettledRowsComplete /\ \A s \in Slots : AttemptInv(s)

(* A commit makes the row grow, leaves it complete and no longer queued    *)
(* unless it only records an ARN, and touches no other row.                *)
LEMMA CommitGrows ==
    ASSUME TypeInv, NEW s \in Slots, run[s].pc \in SetLabels, AttemptInv(s),
           Complete(jobs[run[s].job])
    PROVE  LET old == jobs[run[s].job]
               new == Committed(s)[run[s].job]
           IN  /\ Grown(old, new) /\ Complete(new) /\ new.status # "queued"
               /\ \A j \in Jobs \ {run[s].job} : Committed(s)[j] = jobs[j]
<1> DEFINE old == jobs[run[s].job]
           new == Committed(s)[run[s].job]
           read == run[s].read
<1>1. /\ jobs \in [Jobs -> Rows \cup {NoRow}]
      /\ run[s] \in Tasks /\ run[s].job \in Jobs
      /\ old \in Rows /\ read \in Rows
  BY DEF TypeInv, RunnerTypeOK, StoresTypeOK, TaskInv, Exists, SetLabels, At
<1>2. new = Flush(old, read, Edit(s)) /\ \A j \in Jobs \ {run[s].job} : Committed(s)[j] = jobs[j]
  BY <1>1 DEF Committed
<1>3. Complete(read) /\ Grown(read, old)
  BY DEF AttemptInv
<1>4. CASE At(s, "begin")
  BY <1>1, <1>2, <1>3, <1>4 DEF Edit, At, Flush, Grown, Complete, Rows
<1>5. CASE At(s, "arn.set")
  <2>1. old.status # "queued"
    BY <1>5 DEF AttemptInv, At, InTry
  <2> QED BY <1>1, <1>2, <1>3, <1>5, <2>1 DEF Edit, At, Flush, Grown, Complete, Rows, AttemptInv
<1>6. CASE At(s, "save.set")
  <2>1. old.status # "queued" /\ run[s].arn # None
    BY <1>6 DEF AttemptInv, At, InTry
  <2>2. Edit(s) = [read EXCEPT !.status = "success", !.result = run[s].arn, !.completed = TRUE]
    BY <1>6 DEF Edit, At
  <2>3. new.completed = TRUE
    <3>1. new.completed = IF Edit(s).completed = read.completed
                          THEN old.completed ELSE Edit(s).completed
      BY <1>2 DEF Flush
    <3>2. Edit(s).completed = TRUE
      BY <1>1, <2>2 DEF Rows
    <3>3. old.completed \in BOOLEAN
      BY <1>1 DEF Rows
    <3>4. read.completed = TRUE => old.completed = TRUE
      BY <1>3, <3>3 DEF Grown
    <3> QED BY <3>1, <3>2, <3>4
  <2>4. /\ new.result # None /\ new.error = old.error
        /\ new.status = IF read.status = "success" THEN old.status ELSE "success"
    BY <1>1, <1>2, <1>3, <2>1, <2>2 DEF Flush, Grown, Complete, Rows
  <2> QED BY <1>2, <2>1, <2>3, <2>4 DEF Grown, Complete
<1>7. CASE At(s, "fail.set")
  <2>1. old.status # "queued" /\ run[s].err # None
    BY <1>7 DEF AttemptInv, At
  <2>2. Edit(s) = [read EXCEPT !.status = "failed", !.error = run[s].err, !.completed = TRUE]
    BY <1>7 DEF Edit, At
  <2>3. new.completed = TRUE
    <3>1. new.completed = IF Edit(s).completed = read.completed
                          THEN old.completed ELSE Edit(s).completed
      BY <1>2 DEF Flush
    <3>2. Edit(s).completed = TRUE
      BY <1>1, <2>2 DEF Rows
    <3>3. old.completed \in BOOLEAN
      BY <1>1 DEF Rows
    <3>4. read.completed = TRUE => old.completed = TRUE
      BY <1>3, <3>3 DEF Grown
    <3> QED BY <3>1, <3>2, <3>4
  <2>4. /\ new.error # None /\ new.result = old.result
        /\ new.status = IF read.status = "failed" THEN old.status ELSE "failed"
    BY <1>1, <1>2, <1>3, <2>1, <2>2 DEF Flush, Grown, Complete, Rows
  <2> QED BY <1>2, <2>1, <2>3, <2>4 DEF Grown, Complete
<1> QED BY <1>2, <1>4, <1>5, <1>6, <1>7 DEF SetLabels, At

(* Every row grows in every step, and stays complete.                      *)
LEMMA RowsGrow ==
    ASSUME TypeInv, RowInv, RunnerNext
    PROVE  \A j \in Jobs : Exists(j) => Grown(jobs[j], jobs'[j]) /\ Complete(jobs'[j])
<1> SUFFICES ASSUME NEW j \in Jobs, Exists(j)
             PROVE  Grown(jobs[j], jobs'[j]) /\ Complete(jobs'[j])
  OBVIOUS
<1>1. Complete(jobs[j]) /\ Grown(jobs[j], jobs[j])
  BY DEF RowInv, SettledRowsComplete, Grown
<1>2. CASE jobs' = jobs
  BY <1>1, <1>2
<1>3. ASSUME NEW s \in Slots, run[s].pc \in SetLabels, jobs' = Committed(s)
      PROVE  Grown(jobs[j], jobs'[j]) /\ Complete(jobs'[j])
  <2>1. run[s].job \in Jobs /\ Exists(run[s].job)
    BY <1>3 DEF TypeInv, TaskInv, SetLabels, At
  <2>2. AttemptInv(s) /\ Complete(jobs[run[s].job])
    BY <2>1 DEF RowInv, SettledRowsComplete
  <2> QED BY <1>1, <1>3, <2>2, CommitGrows
<1> QED BY <1>2, <1>3, TableStep

(* A slot whose task stays what it was keeps what it has to show.          *)
LEMMA AttemptKept ==
    ASSUME TypeInv, RowInv, RunnerNext, NEW s \in Slots,
           run'[s].pc = run[s].pc, run'[s].job = run[s].job, run'[s].read = run[s].read,
           run'[s].arn = run[s].arn, run'[s].err = run[s].err
    PROVE  AttemptInv(s)'
<1>1. AttemptInv(s)
  BY DEF RowInv
<1>2. CASE run[s].pc = "idle"
  BY <1>2 DEF AttemptInv, InTry, SetLabels
<1>3. CASE run[s].pc # "idle"
  <2>1. Grown(jobs[run[s].job], jobs'[run[s].job])
    BY <1>3, RowsGrow DEF TypeInv, TaskInv, At
  <2>2. Grown(run[s].read, jobs[run[s].job]) => Grown(run[s].read, jobs'[run[s].job])
    BY <2>1 DEF Grown
  <2>3. jobs[run[s].job].status # "queued" => jobs'[run[s].job].status # "queued"
    BY <2>1 DEF Grown
  <2> QED BY <1>1, <2>2, <2>3 DEF AttemptInv
<1> QED BY <1>2, <1>3

(* A failure in the try block has its code, and a row that was marked.     *)
LEMMA FailShown ==
    ASSUME TypeInv, RowInv, RunnerNext, NEW s \in Slots, run[s].pc \in InTry,
           NEW code \in ErrorCodes, Fail(s, code)
    PROVE  AttemptInv(s)'
<1>1. run[s] \in Tasks /\ run \in [Slots -> Tasks]
  BY DEF TypeInv, RunnerTypeOK
<1>2. run'[s].pc = "fail.get" /\ run'[s].err = code /\ run'[s].job = run[s].job
  BY <1>1 DEF Fail, Tasks
<1>3. code # None
  BY StoreConstants
<1>4. jobs[run[s].job].status # "queued"
  BY DEF RowInv, AttemptInv
<1>5. Grown(jobs[run[s].job], jobs'[run[s].job])
  BY RowsGrow DEF TypeInv, TaskInv, At, InTry
<1> QED BY <1>2, <1>3, <1>4, <1>5 DEF AttemptInv, Grown, SetLabels

(* A slot's own step leaves it with what it has to show.                   *)
LEMMA RunStepShown ==
    ASSUME TypeInv, RowInv, RunnerNext, NEW s \in Slots, RunStep(s) \/ PollTimeout(s)
    PROVE  AttemptInv(s)'
<1> DEFINE j == run[s].job
<1>0. /\ run[s] \in Tasks /\ run \in [Slots -> Tasks]
      /\ run[s].pc # "idle" => j \in Jobs /\ Exists(j)
      /\ AttemptInv(s)
  BY DEF TypeInv, RunnerTypeOK, TaskInv, At, RowInv
<1>1. run[s].pc # "idle" => Grown(jobs[j], jobs'[j]) /\ Complete(jobs[j])
  BY <1>0, RowsGrow DEF RowInv, SettledRowsComplete
<1>2. ASSUME NEW get, NEW found, NEW missing, ReadRow(s, get, found, missing),
             <<get, found, missing>> \in {<<"load", "begin", "returned">>,
                <<"arn.get", "arn.set", "poll">>, <<"save.get", "save.set", "returned">>,
                <<"fail.get", "fail.set", "returned">>}
      PROVE  AttemptInv(s)'
  <2>1. /\ run[s].pc = get /\ jobs' = jobs /\ run[s].pc # "idle"
        /\ run'[s].pc = found /\ run'[s].job = j /\ run'[s].read = jobs[j]
        /\ run'[s].arn = run[s].arn /\ run'[s].err = run[s].err
    BY <1>0, <1>2 DEF ReadRow, At, Tasks
  <2>2. Complete(jobs[j]) /\ Grown(jobs[j], jobs[j])
    BY <1>1, <2>1 DEF Grown
  <2> QED BY <1>0, <1>2, <2>1, <2>2 DEF AttemptInv, InTry, SetLabels
<1>3. ASSUME NEW set \in SetLabels, NEW next, CommitRow(s, set, next),
             <<set, next>> \in {<<"begin", "invoke">>, <<"arn.set", "poll">>,
                <<"save.set", "returned">>, <<"fail.set", "returned">>}
      PROVE  AttemptInv(s)'
  <2>1. /\ run[s].pc = set /\ jobs' = Committed(s) /\ run[s].pc # "idle"
        /\ run'[s].pc = next /\ run'[s].job = j
        /\ run'[s].arn = run[s].arn /\ run'[s].err = run[s].err
    BY <1>0, <1>3 DEF CommitRow, At, Tasks, SetLabels
  <2>2. jobs'[j].status # "queued"
    BY <1>0, <1>1, <2>1, CommitGrows
  <2> QED BY <1>0, <1>3, <2>1, <2>2 DEF AttemptInv, InTry, SetLabels
<1>4. ASSUME run[s].pc \in {"invoke", "poll", "fetch"},
             NEW err, NEW retried, NEW code \in ErrorCodes, CallFails(s, err, retried, code)
      PROVE  AttemptInv(s)'
  <2>1. CASE run' = [run EXCEPT ![s].tries = @ + 1]
    BY <1>0, <2>1, AttemptKept DEF Tasks
  <2>2. CASE Fail(s, code) \/ Fail(s, "ClientError")
    BY <1>4, <2>2, FailShown DEF ErrorCodes, InTry
  <2> QED BY <1>4, <2>1, <2>2 DEF CallFails
<1>5. CASE LoadRow(s) \/ LoadForArn(s) \/ LoadToSave(s) \/ LoadToFail(s)
  BY <1>2, <1>5 DEF LoadRow, LoadForArn, LoadToSave, LoadToFail
<1>6. CASE MarkProcessing(s) \/ RecordArn(s) \/ MarkSuccess(s) \/ MarkFailed(s)
  BY <1>3, <1>6 DEF MarkProcessing, RecordArn, MarkSuccess, MarkFailed, SetLabels
<1>7. CASE Invoke(s)
  <2>1. /\ run[s].pc = "invoke" /\ jobs' = jobs /\ run'[s].pc = "arn.get"
        /\ run'[s].job = j /\ run'[s].arn = j /\ run[s].pc # "idle"
    BY <1>0, <1>7 DEF Invoke, At, Tasks, ClientToken
  <2>2. run'[s].arn # None
    BY <1>0, <2>1, StoreConstants
  <2> QED BY <1>0, <2>1, <2>2 DEF AttemptInv, InTry, SetLabels
<1>8. ASSUME NEW err \in AwsErrors, InvokeFails(s, err) \/ PollFails(s, err) \/ FetchFails(s, err)
      PROVE  AttemptInv(s)'
  BY <1>4, <1>8 DEF InvokeFails, PollFails, FetchFails, At, ErrorCodes
<1>9. CASE PollPending(s) \/ PollDone(s)
  <2>1. /\ run[s].pc = "poll" /\ jobs' = jobs /\ run'[s].pc \in {"poll", "fetch"}
        /\ run'[s].job = j /\ run'[s].arn = run[s].arn
    BY <1>0, <1>9 DEF PollPending, PollDone, At, Tasks
  <2> QED BY <1>0, <2>1 DEF AttemptInv, InTry, SetLabels
<1>10. CASE PollServiceError(s) \/ PollTimeout(s)
  BY <1>10, FailShown DEF PollServiceError, PollTimeout, At, InTry, ErrorCodes
<1>11. CASE Fetch(s)
  <2>1. CASE Fail(s, "ValueError")
    BY <1>11, <2>1, FailShown DEF Fetch, At, InTry, ErrorCodes
  <2>2. CASE Goto(s, "save.get")
    <3>1. /\ run[s].pc = "fetch" /\ jobs' = jobs /\ run'[s].pc = "save.get"
          /\ run'[s].job = j /\ run'[s].arn = run[s].arn
      BY <1>0, <1>11, <2>2 DEF Fetch, Goto, At, Tasks
    <3> QED BY <1>0, <3>1 DEF AttemptInv, InTry, SetLabels
  <2> QED BY <1>11, <2>1, <2>2 DEF Fetch
<1>12. CASE Ack(s)
  BY <1>0, <1>12 DEF Ack, IdleTask, AttemptInv, InTry, SetLabels
<1> QED BY <1>5, <1>6, <1>7, <1>8, <1>9, <1>10, <1>11, <1>12 DEF RunStep

(* Queued rows are complete, and no attempt is under way. *)
LEMMA RowInvInit == RunnerInit => RowInv
<1> SUFFICES ASSUME RunnerInit PROVE RowInv
  OBVIOUS
<1>1. \A j \in Jobs : Complete(jobs[j])
  BY DEF RunnerInit, QueuedRow, Complete
<1>2. \A s \in Slots : AttemptInv(s)
  BY DEF RunnerInit, RunInit, IdleTask, AttemptInv, InTry, SetLabels
<1> QED BY <1>1, <1>2 DEF RowInv, SettledRowsComplete

(* Every step of the system keeps rows complete and the attempts in order. *)
LEMMA RowInvStep == TypeInv /\ RowInv /\ [RunnerNext]_runnerVars => RowInv'
<1> SUFFICES ASSUME TypeInv, RowInv, [RunnerNext]_runnerVars PROVE RowInv'
  OBVIOUS
<1>0. run \in [Slots -> Tasks]
  BY DEF TypeInv, RunnerTypeOK
<1>1. CASE UNCHANGED runnerVars
  BY <1>1 DEF runnerVars, RowInv, SettledRowsComplete, AttemptInv, Exists
<1>2. CASE RunnerNext
  <2>1. SettledRowsComplete'
    BY <1>2, RowsGrow, RowsStay DEF SettledRowsComplete
  <2>2. ASSUME NEW s \in Slots, run'[s] = IdleTask PROVE AttemptInv(s)'
    BY <2>2 DEF IdleTask, AttemptInv, InTry, SetLabels
  <2>3. ASSUME NEW s \in Slots, run'[s] = run[s] PROVE AttemptInv(s)'
    BY <1>2, <2>3, AttemptKept
  <2>4. ASSUME NEW s \in Slots, NEW j \in Jobs, Deliver(s, j) PROVE RowInv'
    <3>1. run'[s].pc = "load" /\ \A t \in Slots \ {s} : run'[t] = run[t]
      BY <1>0, <2>4 DEF Deliver, IdleTask
    <3>2. AttemptInv(s)'
      BY <3>1 DEF AttemptInv, InTry, SetLabels
    <3> QED BY <2>1, <2>3, <3>1, <3>2 DEF RowInv
  <2>5. ASSUME NEW s \in Slots, RunStep(s) \/ PollTimeout(s) PROVE RowInv'
    BY <1>2, <2>1, <2>3, <2>5, RunStepType, RunStepShown DEF RowInv
  <2>6. ASSUME NEW s \in Slots, DbError(s) \/ SoftLimit(s) PROVE RowInv'
    <3>1. \A t \in Slots \ {s} : run'[t] = run[t]
      BY <1>0, <2>6 DEF DbError, SoftLimit, Fail, Raise
    <3>2. CASE Raise(s)
      <4>1. run'[s].pc = "raised"
        BY <1>0, <3>2 DEF Raise
      <4>2. AttemptInv(s)'
        BY <4>1 DEF AttemptInv, InTry, SetLabels
      <4> QED BY <2>1, <2>3, <3>1, <4>2 DEF RowInv
    <3>3. CASE run[s].pc \in InTry /\ (Fail(s, "DBAPIError") \/ Fail(s, "SoftTimeLimitExceeded"))
      <4>1. AttemptInv(s)'
        BY <1>2, <3>3, FailShown DEF ErrorCodes
      <4> QED BY <2>1, <2>3, <3>1, <4>1 DEF RowInv
    <3> QED BY <2>6, <3>2, <3>3 DEF DbError, SoftLimit
  <2>7. ASSUME NEW s \in Slots, ChildKilled(s) PROVE RowInv'
    <3>1. run'[s] = IdleTask /\ \A t \in Slots \ {s} : run'[t] = run[t]
      BY <1>0, <2>7 DEF ChildKilled
    <3> QED BY <2>1, <2>2, <2>3, <3>1 DEF RowInv
  <2>8. ASSUME NEW w \in Workers, WorkerCrash(w) PROVE RowInv'
    <3>1. \A s \in Slots : run'[s] = IdleTask \/ run'[s] = run[s]
      BY <2>8 DEF WorkerCrash
    <3> QED BY <2>1, <2>2, <2>3, <3>1 DEF RowInv
  <2>9. ASSUME NEW w \in Workers, ConnectionLoss(w) PROVE RowInv'
    <3>1. ASSUME NEW s \in Slots PROVE AttemptInv(s)'
      <4>1. /\ run'[s].pc = run[s].pc /\ run'[s].job = run[s].job /\ run'[s].read = run[s].read
            /\ run'[s].arn = run[s].arn /\ run'[s].err = run[s].err
        BY <1>0, <2>9 DEF ConnectionLoss, Tasks
      <4> QED BY <1>2, <4>1, AttemptKept
    <3> QED BY <2>1, <3>1 DEF RowInv
  <2>10. ASSUME NEW i \in bda, NEW status \in Outcomes, BdaFinish(i, status) PROVE RowInv'
    BY <2>1, <2>3, <2>10 DEF BdaFinish, RowInv
  <2> QED BY <1>2, <2>4, <2>5, <2>6, <2>7, <2>8, <2>9, <2>10 DEF RunnerNext
<1> QED BY <1>1, <1>2

(* The inductive invariant the theorems below rest on. *)
LEMMA RowInvHolds == RunnerSpec => [](TypeInv /\ RowInv)
<1>1. TypeInv /\ RowInv /\ [RunnerNext]_runnerVars => (TypeInv /\ RowInv)'
  BY TypeStep, RowInvStep
<1> QED BY <1>1, TypeInit, RowInvInit, PTL DEF RunnerSpec

(* A settled row is complete, however attempts and their partial writes    *)
(* interleave and wherever they are cut short.                             *)
THEOREM SettledComplete == RunnerSpec => []SettledRowsComplete
<1>1. TypeInv /\ RowInv => SettledRowsComplete
  BY DEF RowInv
<1> QED BY <1>1, RowInvHolds, PTL

-----------------------------------------------------------------------------
(* No job is orphaned. *)

(* Through a slot's own step a job that was settled or owed by that slot   *)
(* is so again, or is counted as dropped.                                  *)
LEMMA HandOver ==
    ASSUME TypeInv, NEW s \in Slots, NEW j \in Jobs, Exists(j),
           RunStep(s) \/ PollTimeout(s) \/ DbError(s) \/ SoftLimit(s),
           Settled(jobs[j]) \/ Owes(s, j)
    PROVE  Settled(jobs'[j]) \/ Owes(s, j)' \/ j \in dropped'
<1>0. /\ run[s] \in Tasks /\ run \in [Slots -> Tasks]
      /\ jobs \in [Jobs -> Rows \cup {NoRow}] /\ jobs[j] \in Rows
      /\ run[s].pc # "idle" => run[s].job \in Jobs /\ Exists(run[s].job)
      /\ run[s].pc \in SetLabels => run[s].read \in Rows
  BY DEF TypeInv, RunnerTypeOK, StoresTypeOK, TaskInv, At, Exists
<1>1. CASE run[s].job # j
  <2>1. jobs'[j] = jobs[j]
    <3>1. jobs' = jobs \/ jobs' = Committed(s)
      BY DEF RunStep, LoadRow, LoadForArn, LoadToSave, LoadToFail, ReadRow,
         MarkProcessing, RecordArn, MarkSuccess, MarkFailed, CommitRow, Invoke, InvokeFails,
         PollPending, PollDone, PollServiceError, PollFails, Fetch, FetchFails, Ack,
         PollTimeout, DbError, SoftLimit, MaybeCommitted
    <3> QED BY <1>0, <1>1, <3>1 DEF Committed
  <2> QED BY <1>1, <2>1 DEF Owes
<1>2. ASSUME run[s].job = j, run'[s].job = j,
             run'[s].pc \in {"load", "begin", "invoke", "arn.get", "arn.set", "poll", "fetch",
                             "save.get", "fail.get", "raised"}
      PROVE  Owes(s, j)'
  BY <1>2 DEF Owes
<1>3. CASE run[s].job = j
  <2>1. ASSUME NEW get, NEW found, NEW missing, ReadRow(s, get, found, missing),
               found \in SetLabels
        PROVE  Settled(jobs'[j]) \/ Owes(s, j)'
    <3>1. /\ jobs' = jobs /\ run'[s].pc = found /\ run'[s].job = j /\ run'[s].read = jobs[j]
      BY <1>0, <1>3, <2>1 DEF ReadRow, Tasks
    <3>2. CASE found \in {"begin", "arn.set"}
      BY <1>2, <1>3, <3>1, <3>2
    <3>3. CASE found = "save.set"
      BY <3>1, <3>3 DEF Owes, At, Settled
    <3>4. CASE found = "fail.set"
      BY <3>1, <3>4 DEF Owes, At, Settled
    <3> QED BY <2>1, <3>2, <3>3, <3>4 DEF SetLabels
  <2>2. ASSUME NEW set \in {"begin", "arn.set"}, NEW next \in {"invoke", "poll"},
               CommitRow(s, set, next)
        PROVE  Owes(s, j)'
    BY <1>0, <1>2, <1>3, <2>2 DEF CommitRow, Tasks
  <2>3. ASSUME NEW set \in {"save.set", "fail.set"}, CommitRow(s, set, "returned")
        PROVE  Settled(jobs'[j])
    <3>1. run[s].pc = set /\ run[s].read \in Rows /\ jobs'[j] = Flush(jobs[j], run[s].read, Edit(s))
      BY <1>0, <1>3, <2>3 DEF CommitRow, At, Committed, SetLabels
    <3>2. CASE set = "save.set"
      <4>1. Edit(s).status = "success"
        BY <3>1, <3>2 DEF Edit, Rows
      <4>2. jobs'[j].status = IF run[s].read.status = "success" THEN jobs[j].status ELSE "success"
        BY <3>1, <4>1 DEF Flush
      <4>3. run[s].read.status = "success" => Settled(jobs[j])
        BY <3>1, <3>2 DEF Owes, At
      <4> QED BY <4>2, <4>3 DEF Settled
    <3>3. CASE set = "fail.set"
      <4>1. Edit(s).status = "failed"
        BY <3>1, <3>3 DEF Edit, Rows
      <4>2. jobs'[j].status = IF run[s].read.status = "failed" THEN jobs[j].status ELSE "failed"
        BY <3>1, <4>1 DEF Flush
      <4>3. run[s].read.status = "failed" => Settled(jobs[j])
        BY <3>1, <3>3 DEF Owes, At
      <4> QED BY <4>2, <4>3 DEF Settled
    <3> QED BY <2>3, <3>2, <3>3
  <2>4. ASSUME NEW code, Fail(s, code) PROVE Owes(s, j)'
    BY <1>0, <1>2, <1>3, <2>4 DEF Fail, Tasks
  <2>5. ASSUME Raise(s) PROVE Owes(s, j)'
    BY <1>0, <1>2, <1>3, <2>5 DEF Raise, Tasks
  <2>6. ASSUME run[s].pc \in {"invoke", "poll", "fetch"},
               NEW err, NEW retried, NEW code, CallFails(s, err, retried, code)
        PROVE  Owes(s, j)'
    <3>1. CASE run' = [run EXCEPT ![s].tries = @ + 1]
      BY <1>0, <1>2, <1>3, <2>6, <3>1 DEF Tasks
    <3> QED BY <2>4, <2>6, <3>1 DEF CallFails
  <2>7. CASE LoadRow(s) \/ LoadForArn(s) \/ LoadToSave(s) \/ LoadToFail(s)
    BY <2>1, <2>7 DEF LoadRow, LoadForArn, LoadToSave, LoadToFail, SetLabels
  <2>8. CASE MarkProcessing(s) \/ RecordArn(s) \/ MarkSuccess(s) \/ MarkFailed(s)
    BY <2>2, <2>3, <2>8 DEF MarkProcessing, RecordArn, MarkSuccess, MarkFailed
  <2>9. CASE Invoke(s)
    BY <1>0, <1>2, <1>3, <2>9 DEF Invoke, Tasks
  <2>10. ASSUME NEW err \in AwsErrors, InvokeFails(s, err) \/ PollFails(s, err) \/ FetchFails(s, err)
         PROVE  Owes(s, j)'
    BY <2>6, <2>10 DEF InvokeFails, PollFails, FetchFails, At
  <2>11. CASE PollPending(s) \/ PollDone(s)
    BY <1>0, <1>2, <1>3, <2>11 DEF PollPending, PollDone, At, Tasks
  <2>12. CASE PollServiceError(s) \/ PollTimeout(s)
    BY <2>4, <2>12 DEF PollServiceError, PollTimeout
  <2>13. CASE Fetch(s)
    <3>1. CASE Goto(s, "save.get")
      BY <1>0, <1>2, <1>3, <3>1 DEF Goto, Tasks
    <3> QED BY <2>4, <2>13, <3>1 DEF Fetch
  <2>14. CASE Ack(s)
    BY <1>3, <2>14 DEF Ack, Owes, At
  <2>15. CASE DbError(s) \/ SoftLimit(s)
    BY <2>4, <2>5, <2>15 DEF DbError, SoftLimit
  <2> QED BY <2>7, <2>8, <2>9, <2>10, <2>11, <2>12, <2>13, <2>14, <2>15 DEF RunStep
<1> QED BY <1>1, <1>3

(* A job in good hands, or dropped, is so after every step. *)
LEMMA HandsStep ==
    ASSUME TypeInv, RunnerNext, NEW j \in Jobs, Exists(j), InGoodHands(j) \/ j \in dropped
    PROVE  InGoodHands(j)' \/ j \in dropped'
<1>0. /\ run \in [Slots -> Tasks] /\ ready \in [Jobs -> Nat]
      /\ \A s \in Slots : TaskInv(s)
  BY DEF TypeInv, RunnerTypeOK, StoresTypeOK
<1>1. dropped \subseteq dropped'
  <2>1. ASSUME NEW s \in Slots, RunStep(s) PROVE dropped \subseteq dropped'
    BY <2>1 DEF RunStep, LoadRow, LoadForArn, LoadToSave, LoadToFail, ReadRow,
       MarkProcessing, RecordArn, MarkSuccess, MarkFailed, CommitRow, Invoke, InvokeFails,
       PollPending, PollDone, PollServiceError, PollFails, Fetch, FetchFails, Ack
  <2> QED BY <2>1 DEF RunnerNext, Deliver, PollTimeout, DbError, SoftLimit, ChildKilled,
             WorkerCrash, ConnectionLoss, BdaFinish
<1>2. ASSUME NEW s \in Slots, run'[s] = run[s], Owes(s, j) PROVE Owes(s, j)'
  BY <1>2 DEF Owes, At
<1>3. ASSUME NEW s \in Slots, NEW k \in Jobs, Deliver(s, k)
      PROVE  InGoodHands(j)' \/ j \in dropped'
  <2>1. /\ ready' = [ready EXCEPT ![k] = @ - 1] /\ jobs' = jobs
        /\ run'[s].pc = "load" /\ run'[s].job = k /\ ~ Owes(s, j)
        /\ \A t \in Slots \ {s} : run'[t] = run[t]
    BY <1>0, <1>3 DEF Deliver, IdleTask, At, Owes
  <2>2. CASE j = k
    BY <2>1, <2>2 DEF InGoodHands, Owes
  <2>3. CASE j # k
    BY <1>0, <1>1, <1>2, <2>1, <2>3 DEF InGoodHands
  <2> QED BY <2>2, <2>3
<1>4. ASSUME NEW s \in Slots, RunStep(s) \/ PollTimeout(s) \/ DbError(s) \/ SoftLimit(s)
      PROVE  InGoodHands(j)' \/ j \in dropped'
  <2>1. ready' = ready /\ \A t \in Slots \ {s} : run'[t] = run[t]
    BY <1>0, <1>4, RunStepType DEF DbError, SoftLimit, Fail, Raise
  <2>2. CASE Settled(jobs[j]) \/ Owes(s, j)
    BY <1>4, <2>2, HandOver DEF InGoodHands
  <2>3. CASE ready[j] > 0 \/ (\E t \in Slots \ {s} : Owes(t, j)) \/ j \in dropped
    BY <1>1, <1>2, <2>1, <2>3 DEF InGoodHands
  <2> QED BY <2>2, <2>3 DEF InGoodHands
<1>5. ASSUME NEW s \in Slots, ChildKilled(s) PROVE InGoodHands(j)' \/ j \in dropped'
  <2>1. /\ jobs' = jobs /\ ready' = ready /\ dropped' = dropped \cup {run[s].job}
        /\ \A t \in Slots \ {s} : run'[t] = run[t]
    BY <1>0, <1>5 DEF ChildKilled
  <2>2. CASE Owes(s, j)
    BY <2>1, <2>2 DEF Owes
  <2>3. CASE ~ Owes(s, j)
    BY <1>2, <2>1, <2>3 DEF InGoodHands
  <2> QED BY <2>2, <2>3
<1>6. ASSUME NEW w \in Workers, WorkerCrash(w) PROVE InGoodHands(j)' \/ j \in dropped'
  <2>1. /\ jobs' = jobs /\ ready' = GiveBack(w)
        /\ \A s \in Slots \ SlotsOf(w) : run'[s] = run[s]
    BY <1>6 DEF WorkerCrash
  <2>2. CASE Settled(jobs[j]) \/ ready[j] > 0 \/ j \in dropped
    <3>1. GiveBack(w)[j] \in Nat /\ GiveBack(w)[j] >= ready[j] /\ ready[j] \in Nat
      BY <1>0, GiveBackCounts
    <3> QED BY <1>1, <2>1, <2>2, <3>1 DEF InGoodHands
  <2>3. ASSUME NEW s \in Slots \ SlotsOf(w), Owes(s, j) PROVE InGoodHands(j)'
    BY <1>2, <2>1, <2>3 DEF InGoodHands
  <2>4. ASSUME NEW s \in SlotsOf(w), Owes(s, j) PROVE InGoodHands(j)' \/ j \in dropped'
    <3>1. run[s].job = j /\ ~ At(s, "idle")
      BY <2>4 DEF Owes, At
    <3>2. CASE run[s].held
      <4>1. GiveBack(w)[j] > 0
        BY <2>4, <3>1, <3>2, GiveBackCounts DEF HeldBy
      <4> QED BY <2>1, <4>1 DEF InGoodHands
    <3>3. CASE ~ run[s].held
      BY <1>6, <2>4, <3>1, <3>3 DEF WorkerCrash
    <3> QED BY <3>2, <3>3
  <2> QED BY <2>2, <2>3, <2>4 DEF InGoodHands
<1>7. ASSUME NEW w \in Workers, ConnectionLoss(w) PROVE InGoodHands(j)' \/ j \in dropped'
  <2>1. jobs' = jobs /\ ready' = GiveBack(w) /\ dropped' = dropped
    BY <1>7 DEF ConnectionLoss
  <2>2. GiveBack(w)[j] \in Nat /\ GiveBack(w)[j] >= ready[j] /\ ready[j] \in Nat
    BY <1>0, GiveBackCounts
  <2>3. ASSUME NEW s \in Slots, Owes(s, j) PROVE Owes(s, j)'
    <3>1. run'[s].pc = run[s].pc /\ run'[s].job = run[s].job /\ run'[s].read = run[s].read
      BY <1>0, <1>7 DEF ConnectionLoss, Tasks
    <3> QED BY <2>3, <3>1 DEF Owes, At
  <2> QED BY <2>1, <2>2, <2>3 DEF InGoodHands
<1>8. ASSUME NEW i \in bda, NEW status \in Outcomes, BdaFinish(i, status)
      PROVE  InGoodHands(j)' \/ j \in dropped'
  BY <1>2, <1>8 DEF BdaFinish, InGoodHands
<1> QED BY <1>3, <1>4, <1>5, <1>6, <1>7, <1>8 DEF RunnerNext

(* Every job without a final status has a message waiting or an attempt    *)
(* that owes it one, or an attempt at it was lost.                         *)
THEOREM NoneOrphaned == RunnerSpec => []NoOrphan
<1>1. RunnerInit => NoOrphan
  BY DEF RunnerInit, NoOrphan, InGoodHands
<1>2. TypeInv /\ NoOrphan /\ [RunnerNext]_runnerVars => NoOrphan'
  <2> SUFFICES ASSUME TypeInv, NoOrphan, [RunnerNext]_runnerVars,
                      NEW j \in Jobs, Exists(j)'
               PROVE  InGoodHands(j)' \/ j \in dropped'
    BY DEF NoOrphan
  <2>1. CASE UNCHANGED runnerVars
    BY <2>1 DEF runnerVars, NoOrphan, InGoodHands, Owes, At, Exists
  <2>2. CASE RunnerNext
    BY <2>2, RowsStay, HandsStep DEF NoOrphan
  <2> QED BY <2>1, <2>2
<1>3. RunnerSpec => []TypeInv
  BY TypeInit, TypeStep, PTL DEF RunnerSpec
<1> QED BY <1>1, <1>2, <1>3, PTL DEF RunnerSpec

-----------------------------------------------------------------------------
(* A job and its invocation: the row names the invocation while it is     *)
(* waited for, what is stored came from it, and neither ever changes again.*)

PastInvoke == {"arn.get", "arn.set", "poll", "fetch", "save.get", "save.set"}

Recorded == {"poll", "fetch", "save.get", "save.set"}

(* What is known where an attempt stands: the ARN from the call on, on the *)
(* row too once it was recorded; how the invocation ended from the answer  *)
(* on, and whose fault it was where it is to be written down.              *)
Knows(s) ==
    /\ run[s].pc \in PastInvoke => run[s].arn = run[s].job
    /\ run[s].pc \in Recorded => jobs[run[s].job].arn = run[s].job
    /\ run[s].pc = "arn.set" /\ run[s].read.arn = run[s].job => jobs[run[s].job].arn = run[s].job
    /\ run[s].pc = "fetch" => EndedAs(run[s].job, "Success") \/ EndedAs(run[s].job, "BadOutput")
    /\ run[s].pc \in {"save.get", "save.set"} => EndedAs(run[s].job, "Success")
    /\ run[s].pc \in {"fail.get", "fail.set"} =>
          /\ run[s].err = "ServiceError" => EndedAs(run[s].job, "ServiceError")
          /\ run[s].err = "ValueError" => EndedAs(run[s].job, "BadOutput")

(* A row holds its own job's invocation and output or none. *)
OwnRow(j) == jobs[j].arn \in {None, j} /\ jobs[j].result \in {None, j}

InvocationInv ==
    /\ TokenIsJob
    /\ \A j \in Jobs : Exists(j) => OwnRow(j)
    /\ RowAgreesWithBda
    /\ \A s \in Slots : Knows(s)

LEMMA InvocationInit == RunnerInit => InvocationInv
<1> SUFFICES ASSUME RunnerInit PROVE InvocationInv
  OBVIOUS
<1>1. TokenIsJob /\ \A s \in Slots : Knows(s)
  BY DEF RunnerInit, RunInit, IdleTask, TokenIsJob, Knows, PastInvoke, Recorded
<1>2. \A j \in Jobs : OwnRow(j) /\ jobs[j].result = None /\ jobs[j].error = None
  BY DEF RunnerInit, QueuedRow, OwnRow
<1>3. None # "ServiceError" /\ None # "ValueError"
  BY StoreConstants DEF ErrorCodes
<1> QED BY <1>1, <1>2, <1>3 DEF InvocationInv, RowAgreesWithBda

(* An invocation that has ended stays as it ended. *)
LEMMA EndedStays ==
    ASSUME TypeInv, [RunnerNext]_runnerVars, NEW j, NEW status \in Outcomes, EndedAs(j, status)
    PROVE  EndedAs(j, status)'
<1>1. PICK i \in bda : i.job = j /\ i.status = status
  BY DEF EndedAs
<1>2. i \in bda'
  <2>1. ASSUME NEW k \in bda, NEW st \in Outcomes, BdaFinish(k, st)
        PROVE  i \in bda'
    BY <1>1, <2>1 DEF BdaFinish, Outcomes
  <2>2. \A s \in Slots : bda \subseteq Submitted(s)
    BY DEF Submitted
  <2> QED BY <2>1, <2>2, BdaStep
<1> QED BY <1>1, <1>2 DEF EndedAs

(* A commit sets the ARN to the job's own or leaves it, and brings in only *)
(* the output or the error it is there to write.                           *)
LEMMA CommitSteady ==
    ASSUME TypeInv, NEW s \in Slots, run[s].pc \in SetLabels, Knows(s)
    PROVE  LET j == run[s].job
               new == Committed(s)[j] IN
           /\ j \in Jobs /\ Exists(j)
           /\ new.arn \in {jobs[j].arn, j} /\ (run[s].pc = "arn.set" => new.arn = j)
           /\ new.result = jobs[j].result \/ (new.result = j /\ run[s].pc = "save.set")
           /\ new.error = jobs[j].error \/ (new.error = run[s].err /\ run[s].pc = "fail.set")
           /\ \A k \in Jobs \ {j} : Committed(s)[k] = jobs[k]
<1> DEFINE j == run[s].job
           old == jobs[j]
           new == Committed(s)[j]
           read == run[s].read
           Steady == /\ new.arn \in {old.arn, j} /\ (run[s].pc = "arn.set" => new.arn = j)
                     /\ new.result = old.result \/ (new.result = j /\ run[s].pc = "save.set")
                     /\ new.error = old.error \/ (new.error = run[s].err /\ run[s].pc = "fail.set")
<1>1. /\ jobs \in [Jobs -> Rows \cup {NoRow}]
      /\ run[s] \in Tasks /\ j \in Jobs /\ Exists(j)
      /\ old \in Rows /\ read \in Rows
  BY DEF TypeInv, RunnerTypeOK, StoresTypeOK, TaskInv, Exists, SetLabels, At
<1>2. new = Flush(old, read, Edit(s)) /\ \A k \in Jobs \ {j} : Committed(s)[k] = jobs[k]
  BY <1>1 DEF Committed
<1>3. /\ new.arn = IF Edit(s).arn = read.arn THEN old.arn ELSE Edit(s).arn
      /\ new.result = IF Edit(s).result = read.result THEN old.result ELSE Edit(s).result
      /\ new.error = IF Edit(s).error = read.error THEN old.error ELSE Edit(s).error
  BY <1>2 DEF Flush
<1> HIDE DEF new
<1>4. ASSUME At(s, "begin") PROVE Steady
  <2>1. Edit(s) = [read EXCEPT !.status = "processing"]
    BY <1>4 DEF Edit, At
  <2>2. Edit(s).arn = read.arn /\ Edit(s).result = read.result /\ Edit(s).error = read.error
    BY <1>1, <2>1 DEF Rows
  <2> QED BY <1>3, <1>4, <2>2 DEF At
<1>5. ASSUME At(s, "arn.set") PROVE Steady
  <2>1. run[s].arn = j /\ (read.arn = j => old.arn = j)
    BY <1>5 DEF Knows, At, PastInvoke
  <2>2. Edit(s) = [read EXCEPT !.arn = run[s].arn]
    BY <1>5 DEF Edit, At
  <2>3. Edit(s).arn = run[s].arn /\ Edit(s).result = read.result /\ Edit(s).error = read.error
    BY <1>1, <2>2 DEF Rows
  <2> QED BY <1>3, <1>5, <2>1, <2>3 DEF At
<1>6. ASSUME At(s, "save.set") PROVE Steady
  <2>1. run[s].arn = j
    BY <1>6 DEF Knows, At, PastInvoke
  <2>2. Edit(s) = [read EXCEPT !.status = "success", !.result = run[s].arn, !.completed = TRUE]
    BY <1>6 DEF Edit, At
  <2>3. Edit(s).arn = read.arn /\ Edit(s).result = run[s].arn /\ Edit(s).error = read.error
    BY <1>1, <2>2 DEF Rows
  <2> QED BY <1>3, <1>6, <2>1, <2>3 DEF At
<1>7. ASSUME At(s, "fail.set") PROVE Steady
  <2>1. Edit(s) = [read EXCEPT !.status = "failed", !.error = run[s].err, !.completed = TRUE]
    BY <1>7 DEF Edit, At
  <2>2. Edit(s).arn = read.arn /\ Edit(s).result = read.result /\ Edit(s).error = run[s].err
    BY <1>1, <2>1 DEF Rows
  <2> QED BY <1>3, <1>7, <2>2 DEF At
<1>8. Steady
  BY <1>4, <1>5, <1>6, <1>7 DEF SetLabels, At
<1> QED BY <1>1, <1>2, <1>8 DEF new

(* So every row keeps its ARN and its output once it has them, and goes on *)
(* agreeing with BDA.                                                      *)
LEMMA RowsSteady ==
    ASSUME TypeInv, InvocationInv, [RunnerNext]_runnerVars, NEW j \in Jobs, Exists(j)
    PROVE  /\ jobs'[j].arn \in {jobs[j].arn, j} /\ jobs'[j].result \in {jobs[j].result, j}
           /\ jobs'[j].result # None => EndedAs(j, "Success")
           /\ jobs'[j].error = "ServiceError" => EndedAs(j, "ServiceError")
           /\ jobs'[j].error = "ValueError" => EndedAs(j, "BadOutput")
<1>1. /\ jobs[j].result # None => EndedAs(j, "Success")
      /\ jobs[j].error = "ServiceError" => EndedAs(j, "ServiceError")
      /\ jobs[j].error = "ValueError" => EndedAs(j, "BadOutput")
  BY DEF InvocationInv, RowAgreesWithBda
<1>2. CASE jobs' = jobs
  BY <1>1, <1>2
<1>3. ASSUME NEW s \in Slots, run[s].pc \in SetLabels, jobs' = Committed(s)
      PROVE  /\ jobs'[j].arn \in {jobs[j].arn, j} /\ jobs'[j].result \in {jobs[j].result, j}
             /\ jobs'[j].result # None => EndedAs(j, "Success")
             /\ jobs'[j].error = "ServiceError" => EndedAs(j, "ServiceError")
             /\ jobs'[j].error = "ValueError" => EndedAs(j, "BadOutput")
  <2>1. Knows(s)
    BY DEF InvocationInv
  <2>2. CASE run[s].job # j
    BY <1>1, <1>3, <2>1, <2>2, CommitSteady
  <2>3. CASE run[s].job = j
    <3>1. /\ jobs'[j].arn \in {jobs[j].arn, j}
          /\ jobs'[j].result = jobs[j].result \/ (jobs'[j].result = j /\ run[s].pc = "save.set")
          /\ jobs'[j].error = jobs[j].error \/ (jobs'[j].error = run[s].err /\ run[s].pc = "fail.set")
      BY <1>3, <2>1, <2>3, CommitSteady
    <3>2. /\ run[s].pc = "save.set" => EndedAs(j, "Success")
          /\ run[s].pc = "fail.set" =>
                /\ run[s].err = "ServiceError" => EndedAs(j, "ServiceError")
                /\ run[s].err = "ValueError" => EndedAs(j, "BadOutput")
      BY <2>1, <2>3 DEF Knows
    <3> QED BY <1>1, <3>1, <3>2
  <2> QED BY <2>2, <2>3
<1> QED BY <1>2, <1>3, TableStep DEF runnerVars

(* A slot whose task stays what it was keeps what it knows. *)
LEMMA KnowsKept ==
    ASSUME TypeInv, InvocationInv, [RunnerNext]_runnerVars, NEW s \in Slots,
           run'[s].pc = run[s].pc, run'[s].job = run[s].job, run'[s].read = run[s].read,
           run'[s].arn = run[s].arn, run'[s].err = run[s].err
    PROVE  Knows(s)'
<1>1. Knows(s)
  BY DEF InvocationInv
<1>2. CASE run[s].pc = "idle"
  BY <1>2 DEF Knows, PastInvoke, Recorded
<1>3. CASE run[s].pc # "idle"
  <2> DEFINE j == run[s].job
  <2>1. j \in Jobs /\ Exists(j)
    BY <1>3 DEF TypeInv, TaskInv, At
  <2>2. jobs[j].arn = j => jobs'[j].arn = j
    BY <2>1, RowsSteady
  <2>3. \A status \in {"Success", "BadOutput", "ServiceError"} :
            EndedAs(j, status) => EndedAs(j, status)'
    BY EndedStays DEF Outcomes
  <2> QED BY <1>1, <2>2, <2>3 DEF Knows, EndedAs
<1> QED BY <1>2, <1>3

(* A failure that blames the service or the output has its reason.         *)
LEMMA FailKnows ==
    ASSUME TypeInv, InvocationInv, [RunnerNext]_runnerVars, NEW s \in Slots,
           NEW code \in ErrorCodes, Fail(s, code),
           code = "ServiceError" => EndedAs(run[s].job, "ServiceError"),
           code = "ValueError" => EndedAs(run[s].job, "BadOutput")
    PROVE  Knows(s)'
<1>1. PICK j : j = run[s].job
  OBVIOUS
<1>2. run'[s].pc = "fail.get" /\ run'[s].err = code /\ run'[s].job = j
  BY <1>1 DEF Fail, Tasks, TypeInv, RunnerTypeOK
<1>3. code = "ServiceError" => EndedAs(j, "ServiceError")'
  <2>1. code = "ServiceError" => EndedAs(j, "ServiceError")
    BY <1>1
  <2> QED BY <2>1, EndedStays DEF Outcomes
<1>4. code = "ValueError" => EndedAs(j, "BadOutput")'
  <2>1. code = "ValueError" => EndedAs(j, "BadOutput")
    BY <1>1
  <2> QED BY <2>1, EndedStays DEF Outcomes
<1> QED BY <1>2, <1>3, <1>4 DEF Knows, EndedAs, PastInvoke, Recorded

(* What an answer says of the attempt's own invocation. *)
LEMMA AnswerIsOwn ==
    ASSUME InvocationInv, NEW s \in Slots, run[s].pc \in {"poll", "fetch"},
           NEW status, Answer(s, status)
    PROVE  EndedAs(run[s].job, status)
BY DEF InvocationInv, TokenIsJob, Knows, PastInvoke, Answer, EndedAs

(* A slot's own step leaves it knowing what it goes by from there. *)
LEMMA RunStepKnows ==
    ASSUME TypeInv, InvocationInv, RunnerNext, NEW s \in Slots, RunStep(s) \/ PollTimeout(s)
    PROVE  Knows(s)'
<1>0. PICK j : j = run[s].job
  OBVIOUS
<1>1. /\ run[s] \in Tasks /\ run \in [Slots -> Tasks]
      /\ run[s].pc # "idle" => j \in Jobs /\ Exists(j)
      /\ Knows(s)
  BY <1>0 DEF TypeInv, RunnerTypeOK, TaskInv, At, InvocationInv
<1>2. run[s].pc # "idle" /\ jobs[j].arn = j => jobs'[j].arn = j
  BY <1>1, RowsSteady
<1>3. /\ EndedAs(j, "Success") => EndedAs(j, "Success")'
      /\ EndedAs(j, "BadOutput") => EndedAs(j, "BadOutput")'
      /\ EndedAs(j, "ServiceError") => EndedAs(j, "ServiceError")'
  BY EndedStays DEF Outcomes
<1>4. ASSUME NEW get, NEW found, NEW missing, ReadRow(s, get, found, missing),
             <<get, found, missing>> \in {<<"load", "begin", "returned">>,
                <<"arn.get", "arn.set", "poll">>, <<"save.get", "save.set", "returned">>,
                <<"fail.get", "fail.set", "returned">>}
      PROVE  Knows(s)'
  <2>1. /\ run[s].pc = get /\ jobs' = jobs /\ run[s].pc # "idle"
        /\ run'[s].pc = found /\ run'[s].job = j /\ run'[s].read = jobs[j]
        /\ run'[s].arn = run[s].arn /\ run'[s].err = run[s].err
    BY <1>0, <1>1, <1>4 DEF ReadRow, At, Tasks
  <2>2. CASE get = "load"
    BY <1>4, <2>1, <2>2 DEF Knows, PastInvoke, Recorded
  <2>3. CASE get = "arn.get"
    BY <1>0, <1>1, <1>4, <2>1, <2>3 DEF Knows, PastInvoke, Recorded
  <2>4. CASE get = "save.get"
    BY <1>0, <1>1, <1>3, <1>4, <2>1, <2>4 DEF Knows, PastInvoke, Recorded, EndedAs
  <2>5. CASE get = "fail.get"
    BY <1>0, <1>1, <1>3, <1>4, <2>1, <2>5 DEF Knows, PastInvoke, Recorded, EndedAs
  <2> QED BY <1>4, <2>2, <2>3, <2>4, <2>5
<1>5. ASSUME NEW set \in SetLabels, NEW next, CommitRow(s, set, next),
             <<set, next>> \in {<<"begin", "invoke">>, <<"arn.set", "poll">>,
                <<"save.set", "returned">>, <<"fail.set", "returned">>}
      PROVE  Knows(s)'
  <2>1. /\ run[s].pc = set /\ jobs' = Committed(s)
        /\ run'[s].pc = next /\ run'[s].job = j /\ run'[s].arn = run[s].arn
    BY <1>0, <1>1, <1>5 DEF CommitRow, At, Tasks, SetLabels
  <2>2. CASE set = "arn.set"
    <3>1. run[s].arn = j
      BY <1>0, <1>1, <2>1, <2>2 DEF Knows, PastInvoke
    <3>2. jobs'[j].arn = j
      BY <1>0, <1>1, <2>1, <2>2, CommitSteady DEF SetLabels
    <3> QED BY <1>5, <2>1, <2>2, <3>1, <3>2 DEF Knows, PastInvoke, Recorded
  <2>3. CASE set # "arn.set"
    BY <1>5, <2>1, <2>3 DEF Knows, PastInvoke, Recorded
  <2> QED BY <2>2, <2>3
<1>6. ASSUME NEW code \in {"TransientBdaError", "ClientError", "TimeoutError"}, Fail(s, code)
      PROVE  Knows(s)'
  BY <1>6, FailKnows DEF ErrorCodes
<1>7. ASSUME NEW err, NEW retried, NEW code \in {"TransientBdaError", "ClientError"},
             CallFails(s, err, retried, code)
      PROVE  Knows(s)'
  <2>1. CASE run' = [run EXCEPT ![s].tries = @ + 1]
    BY <1>1, <2>1, KnowsKept DEF Tasks
  <2> QED BY <1>6, <1>7, <2>1 DEF CallFails
<1>8. CASE LoadRow(s) \/ LoadForArn(s) \/ LoadToSave(s) \/ LoadToFail(s)
  BY <1>4, <1>8 DEF LoadRow, LoadForArn, LoadToSave, LoadToFail
<1>9. CASE MarkProcessing(s) \/ RecordArn(s) \/ MarkSuccess(s) \/ MarkFailed(s)
  BY <1>5, <1>9 DEF MarkProcessing, RecordArn, MarkSuccess, MarkFailed, SetLabels
<1>10. CASE Invoke(s)
  <2>1. run'[s].pc = "arn.get" /\ run'[s].job = j /\ run'[s].arn = j
    BY <1>0, <1>1, <1>10 DEF Invoke, At, Tasks, ClientToken
  <2> QED BY <2>1 DEF Knows, PastInvoke, Recorded
<1>11. ASSUME NEW err \in AwsErrors, InvokeFails(s, err) \/ PollFails(s, err) \/ FetchFails(s, err)
       PROVE  Knows(s)'
  BY <1>7, <1>11 DEF InvokeFails, PollFails, FetchFails
<1>12. CASE PollPending(s)
  BY <1>1, <1>12, KnowsKept DEF PollPending, Tasks
<1>13. CASE PollDone(s)
  <2>1. /\ run[s].pc = "poll" /\ jobs' = jobs /\ run'[s].pc = "fetch"
        /\ run'[s].job = j /\ run'[s].arn = run[s].arn
    BY <1>0, <1>1, <1>13 DEF PollDone, At, Tasks
  <2>2. EndedAs(j, "Success") \/ EndedAs(j, "BadOutput")
    BY <1>0, <1>13, <2>1, AnswerIsOwn DEF PollDone
  <2> QED BY <1>0, <1>1, <1>3, <2>1, <2>2 DEF Knows, PastInvoke, Recorded, EndedAs
<1>14. CASE PollServiceError(s)
  <2>1. EndedAs(run[s].job, "ServiceError")
    BY <1>14, AnswerIsOwn DEF PollServiceError, At
  <2> QED BY <1>14, <2>1, FailKnows DEF PollServiceError, ErrorCodes
<1>15. CASE PollTimeout(s)
  BY <1>6, <1>15 DEF PollTimeout
<1>16. CASE Fetch(s)
  <2>1. /\ run[s].pc = "fetch" /\ jobs' = jobs /\ run[s].arn = j
        /\ EndedAs(j, "Success") \/ EndedAs(j, "BadOutput")
    BY <1>0, <1>1, <1>16 DEF Fetch, At, Knows, PastInvoke
  <2>2. CASE Answer(s, "Success")
    <3>1. run'[s].pc = "save.get" /\ run'[s].job = j /\ run'[s].arn = j
      BY <1>0, <1>1, <1>16, <2>1, <2>2 DEF Fetch, Goto, Tasks
    <3>2. EndedAs(j, "Success")
      BY <1>0, <2>1, <2>2, AnswerIsOwn
    <3> QED BY <1>0, <1>1, <1>3, <2>1, <3>1, <3>2 DEF Knows, PastInvoke, Recorded, EndedAs
  <2>3. CASE ~ Answer(s, "Success")
    <3>1. ~ EndedAs(j, "Success")
      BY <2>1, <2>3 DEF InvocationInv, TokenIsJob, EndedAs, Answer
    <3>2. EndedAs(run[s].job, "BadOutput")
      BY <1>0, <2>1, <3>1
    <3> QED BY <1>16, <2>3, <3>2, FailKnows DEF Fetch, ErrorCodes
  <2> QED BY <2>2, <2>3
<1>17. CASE Ack(s)
  BY <1>1, <1>17 DEF Ack, IdleTask, Knows, PastInvoke, Recorded
<1> QED BY <1>8, <1>9, <1>10, <1>11, <1>12, <1>13, <1>14, <1>15, <1>16, <1>17 DEF RunStep

(* Every step keeps rows and attempts in agreement with BDA.               *)
LEMMA InvocationStep == TypeInv /\ InvocationInv /\ [RunnerNext]_runnerVars => InvocationInv'
<1> SUFFICES ASSUME TypeInv, InvocationInv, [RunnerNext]_runnerVars PROVE InvocationInv'
  OBVIOUS
<1>0. run \in [Slots -> Tasks]
  BY DEF TypeInv, RunnerTypeOK
<1>1. TokenIsJob'
  BY TokenStep DEF InvocationInv
<1>2. ASSUME NEW j \in Jobs, Exists(j)' PROVE Exists(j)
  BY <1>2, RowsStay DEF runnerVars, Exists
<1>3. ASSUME NEW j \in Jobs, Exists(j)' PROVE OwnRow(j)'
  BY <1>2, <1>3, RowsSteady DEF InvocationInv, OwnRow
<1>4. RowAgreesWithBda'
  <2> SUFFICES ASSUME NEW j \in Jobs, Exists(j)'
               PROVE  /\ jobs'[j].result # None => EndedAs(j, "Success")'
                      /\ jobs'[j].error = "ServiceError" => EndedAs(j, "ServiceError")'
                      /\ jobs'[j].error = "ValueError" => EndedAs(j, "BadOutput")'
    BY DEF RowAgreesWithBda
  <2>1. /\ jobs'[j].result # None => EndedAs(j, "Success")
        /\ jobs'[j].error = "ServiceError" => EndedAs(j, "ServiceError")
        /\ jobs'[j].error = "ValueError" => EndedAs(j, "BadOutput")
    BY <1>2, RowsSteady
  <2> QED BY <2>1, EndedStays DEF Outcomes
<1>5. ASSUME NEW s \in Slots, run'[s] = IdleTask PROVE Knows(s)'
  BY <1>5 DEF IdleTask, Knows, PastInvoke, Recorded
<1>6. ASSUME NEW s \in Slots, run'[s] = run[s] PROVE Knows(s)'
  BY <1>6, KnowsKept
<1>7. \A s \in Slots : Knows(s)'
  <2>1. ASSUME NEW s \in Slots, NEW j \in Jobs, Deliver(s, j) PROVE \A t \in Slots : Knows(t)'
    <3>1. run'[s].pc = "load" /\ \A t \in Slots \ {s} : run'[t] = run[t]
      BY <1>0, <2>1 DEF Deliver, IdleTask
    <3>2. Knows(s)'
      BY <3>1 DEF Knows, PastInvoke, Recorded
    <3> QED BY <1>6, <3>1, <3>2
  <2>2. ASSUME NEW s \in Slots, RunStep(s) \/ PollTimeout(s), RunnerNext
        PROVE  \A t \in Slots : Knows(t)'
    <3>1. Knows(s)' /\ \A t \in Slots \ {s} : run'[t] = run[t]
      BY <2>2, RunStepType, RunStepKnows
    <3> QED BY <1>6, <3>1
  <2>3. ASSUME NEW s \in Slots, DbError(s) \/ SoftLimit(s) PROVE \A t \in Slots : Knows(t)'
    <3>1. \A t \in Slots \ {s} : run'[t] = run[t]
      BY <1>0, <2>3 DEF DbError, SoftLimit, Fail, Raise
    <3>2. CASE Raise(s)
      <4>1. run'[s].pc = "raised"
        BY <1>0, <3>2 DEF Raise
      <4>2. Knows(s)'
        BY <4>1 DEF Knows, PastInvoke, Recorded
      <4> QED BY <1>6, <3>1, <4>2
    <3>3. CASE Fail(s, "DBAPIError") \/ Fail(s, "SoftTimeLimitExceeded")
      <4>1. Knows(s)'
        BY <3>3, FailKnows DEF ErrorCodes
      <4> QED BY <1>6, <3>1, <4>1
    <3> QED BY <2>3, <3>2, <3>3 DEF DbError, SoftLimit
  <2>4. ASSUME NEW s \in Slots, ChildKilled(s) PROVE \A t \in Slots : Knows(t)'
    <3>1. run'[s] = IdleTask /\ \A t \in Slots \ {s} : run'[t] = run[t]
      BY <1>0, <2>4 DEF ChildKilled
    <3> QED BY <1>5, <1>6, <3>1
  <2>5. ASSUME NEW w \in Workers, WorkerCrash(w) PROVE \A t \in Slots : Knows(t)'
    <3>1. \A s \in Slots : run'[s] = IdleTask \/ run'[s] = run[s]
      BY <2>5 DEF WorkerCrash
    <3> QED BY <1>5, <1>6, <3>1
  <2>6. ASSUME NEW w \in Workers, ConnectionLoss(w), NEW s \in Slots PROVE Knows(s)'
    <3>1. /\ run'[s].pc = run[s].pc /\ run'[s].job = run[s].job /\ run'[s].read = run[s].read
          /\ run'[s].arn = run[s].arn /\ run'[s].err = run[s].err
      BY <1>0, <2>6 DEF ConnectionLoss, Tasks
    <3> QED BY <3>1, KnowsKept
  <2>7. CASE UNCHANGED run
    BY <1>6, <2>7
  <2> QED BY <2>1, <2>2, <2>3, <2>4, <2>5, <2>6, <2>7 DEF RunnerNext, runnerVars, BdaFinish
<1> QED BY <1>1, <1>3, <1>4, <1>7 DEF InvocationInv

-----------------------------------------------------------------------------
(* The theorems. *)

LEMMA InvocationInvHolds == RunnerSpec => [](TypeInv /\ InvocationInv)
<1>1. TypeInv /\ InvocationInv /\ [RunnerNext]_runnerVars => (TypeInv /\ InvocationInv)'
  BY TypeStep, InvocationStep
<1> QED BY <1>1, TypeInit, InvocationInit, PTL DEF RunnerSpec

(* However attempts at a job overlap, are retried or are cut short, its    *)
(* row never contradicts what BDA made of its invocation.                  *)
THEOREM RowAgrees == RunnerSpec => []RowAgreesWithBda
<1>1. InvocationInv => RowAgreesWithBda
  BY DEF InvocationInv
<1> QED BY <1>1, InvocationInvHolds, PTL

(* From the moment an attempt starts to poll until it has stored what it   *)
(* parsed, the row names the invocation, whatever other attempts commit.   *)
THEOREM ArnIsOnRow == RunnerSpec => []ArnOnRow
<1>1. InvocationInv => ArnOnRow
  BY DEF InvocationInv, Knows, PastInvoke, Recorded, ArnOnRow
<1> QED BY <1>1, InvocationInvHolds, PTL

(* No later attempt at a job changes what was extracted, or from which     *)
(* invocation.                                                             *)
THEOREM ExtractionStays == RunnerSpec => ExtractionIsStable
<1>1. TypeInv /\ InvocationInv /\ [RunnerNext]_runnerVars
         => [\A j \in Jobs : Exists(j) =>
               /\ jobs[j].arn # None => jobs'[j].arn = jobs[j].arn
               /\ jobs[j].result # None => jobs'[j].result = jobs[j].result]_runnerVars
  BY RowsSteady DEF InvocationInv, OwnRow
<1> QED BY <1>1, InvocationInvHolds, PTL DEF RunnerSpec, ExtractionIsStable

-----------------------------------------------------------------------------
(* Delivery: late acknowledgement and requeueing.  As long as no           *)
(* connection to the broker is lost while its tasks run on, a message is   *)
(* in one place, the queue or a slot.                                      *)

(* What a slot works at it holds the message of; a free slot has no job,   *)
(* and no job has two messages.                                            *)
HeldInv ==
    /\ \A j \in Jobs : ready[j] <= 1
    /\ \A s \in Slots : IF At(s, "idle") THEN run[s].job = None ELSE run[s].held
    /\ OneAttemptAtATime

LEMMA HeldInit == RunnerInit => HeldInv
BY DEF RunnerInit, RunInit, IdleTask, HeldInv, OneAttemptAtATime, At

(* A slot that goes on with its message, or is done with it, takes none    *)
(* from anybody.                                                           *)
LEMMA GoingOn ==
    ASSUME TypeInv, HeldInv, NEW s \in Slots, ready' = ready,
           \A t \in Slots \ {s} : run'[t] = run[t],
           \/ run'[s] = IdleTask
           \/ /\ run[s].pc # "idle" /\ run'[s].pc # "idle"
              /\ run'[s].job = run[s].job /\ run'[s].held = run[s].held
    PROVE  HeldInv'
<1>1. \A t \in Slots : ~ At(t, "idle") => run[t].job \in Jobs
  BY DEF TypeInv, TaskInv
<1>2. CASE run'[s] = IdleTask
  <2>1. run'[s].pc = "idle" /\ run'[s].job = None
    BY <1>2 DEF IdleTask
  <2>2. OneAttemptAtATime'
    BY <1>1, <2>1, StoreConstants DEF HeldInv, OneAttemptAtATime, At
  <2> QED BY <2>1, <2>2 DEF HeldInv, At
<1>3. CASE /\ run[s].pc # "idle" /\ run'[s].pc # "idle"
           /\ run'[s].job = run[s].job /\ run'[s].held = run[s].held
  <2>1. OneAttemptAtATime'
    BY <1>3 DEF HeldInv, OneAttemptAtATime, At
  <2> QED BY <1>3, <2>1 DEF HeldInv, At
<1> QED BY <1>2, <1>3

(* The steps of run_job hold on to the message. *)
LEMMA RunStepHolds ==
    ASSUME TypeInv, NEW s \in Slots,
           RunStep(s) \/ PollTimeout(s) \/ DbError(s) \/ SoftLimit(s)
    PROVE  run'[s] = IdleTask \/ run'[s].held = run[s].held
<1>0. run \in [Slots -> Tasks] /\ run[s] \in Tasks
  BY DEF TypeInv, RunnerTypeOK
<1>1. ASSUME NEW code, Fail(s, code) \/ Raise(s)
      PROVE  run'[s].held = run[s].held
  BY <1>0, <1>1 DEF Fail, Raise, Tasks
<1>2. ASSUME NEW err, NEW retried, NEW code, CallFails(s, err, retried, code)
      PROVE  run'[s].held = run[s].held
  <2>1. CASE run' = [run EXCEPT ![s].tries = @ + 1]
    BY <1>0, <2>1 DEF Tasks
  <2> QED BY <1>1, <1>2, <2>1 DEF CallFails
<1>3. CASE LoadRow(s) \/ LoadForArn(s) \/ LoadToSave(s) \/ LoadToFail(s)
  BY <1>0, <1>3 DEF LoadRow, LoadForArn, LoadToSave, LoadToFail, ReadRow, Tasks
<1>4. CASE MarkProcessing(s) \/ RecordArn(s) \/ MarkSuccess(s) \/ MarkFailed(s)
  BY <1>0, <1>4 DEF MarkProcessing, RecordArn, MarkSuccess, MarkFailed, CommitRow, Tasks
<1>5. CASE Invoke(s)
  BY <1>0, <1>5 DEF Invoke, Tasks
<1>6. ASSUME NEW err \in AwsErrors, InvokeFails(s, err) \/ PollFails(s, err) \/ FetchFails(s, err)
      PROVE  run'[s].held = run[s].held
  BY <1>2, <1>6 DEF InvokeFails, PollFails, FetchFails
<1>7. CASE PollPending(s) \/ PollDone(s)
  BY <1>0, <1>7 DEF PollPending, PollDone, Tasks
<1>8. CASE PollServiceError(s) \/ PollTimeout(s)
  BY <1>1, <1>8 DEF PollServiceError, PollTimeout
<1>9. CASE Fetch(s)
  <2>1. CASE Goto(s, "save.get")
    BY <1>0, <2>1 DEF Goto, Tasks
  <2> QED BY <1>1, <1>9, <2>1 DEF Fetch
<1>10. CASE Ack(s)
  BY <1>0, <1>10 DEF Ack
<1>11. CASE DbError(s) \/ SoftLimit(s)
  BY <1>1, <1>11 DEF DbError, SoftLimit
<1> QED BY <1>3, <1>4, <1>5, <1>6, <1>7, <1>8, <1>9, <1>10, <1>11 DEF RunStep

(* A worker that dies gives back one message for each of its jobs, and no  *)
(* other slot has one of those.                                            *)
LEMMA CrashHolds ==
    ASSUME TypeInv, HeldInv, NEW w \in Workers, WorkerCrash(w)
    PROVE  HeldInv'
<1>0. /\ run \in [Slots -> Tasks] /\ ready \in [Jobs -> Nat]
      /\ \A t \in Slots : ~ At(t, "idle") => run[t].job \in Jobs
      /\ \A t \in Slots : run[t].held => ~ At(t, "idle")
  BY DEF TypeInv, RunnerTypeOK, StoresTypeOK, TaskInv
<1>1. /\ ready' = GiveBack(w)
      /\ run' = [s \in Slots |-> IF s \in SlotsOf(w) THEN IdleTask ELSE run[s]]
  BY DEF WorkerCrash
<1>2. ASSUME NEW j \in Jobs
      PROVE  /\ GiveBack(w)[j] = ready[j] + Cardinality(HeldBy(w, j))
             /\ HeldBy(w, j) = {} => GiveBack(w)[j] = ready[j]
             /\ HeldBy(w, j) # {} => GiveBack(w)[j] = 1
  <2>1. GiveBack(w)[j] = ready[j] + Cardinality(HeldBy(w, j))
    BY DEF GiveBack
  <2>2. CASE HeldBy(w, j) = {}
    <3>1. Cardinality(HeldBy(w, j)) = 0
      BY <2>2, FS_EmptySet
    <3> QED BY <1>0, <2>1, <2>2, <3>1
  <2>3. ASSUME NEW s \in HeldBy(w, j)
        PROVE  GiveBack(w)[j] = 1
    <3>1. s \in Slots /\ run[s].job = j /\ ~ At(s, "idle")
      BY <1>0, <2>3 DEF HeldBy, SlotsOf
    <3>2. ready[j] = 0 /\ \A t \in Slots : run[t].job = j => t = s
      BY <3>1 DEF HeldInv, OneAttemptAtATime
    <3>3. HeldBy(w, j) = {s}
      BY <2>3, <3>2 DEF HeldBy, SlotsOf
    <3>4. Cardinality({s}) = 1
      BY FS_Singleton
    <3> QED BY <2>1, <3>2, <3>3, <3>4
  <2> QED BY <2>1, <2>2, <2>3
<1>3. \A j \in Jobs : ready'[j] <= 1
  BY <1>1, <1>2 DEF HeldInv
<1>4. ASSUME NEW s \in Slots
      PROVE  IF run'[s].pc = "idle" THEN run'[s].job = None ELSE run'[s].held
  BY <1>1 DEF HeldInv, At, IdleTask
<1>5. ASSUME NEW s \in Slots, run'[s].pc # "idle"
      PROVE  /\ ready'[run'[s].job] = 0
             /\ \A t \in Slots : run'[t].job = run'[s].job => t = s
  <2>1. s \notin SlotsOf(w) /\ run'[s] = run[s] /\ run[s].pc # "idle" /\ run[s].job \in Jobs
    BY <1>0, <1>1, <1>5 DEF IdleTask, At
  <2>2. ready[run[s].job] = 0 /\ \A t \in Slots : run[t].job = run[s].job => t = s
    BY <2>1 DEF HeldInv, OneAttemptAtATime, At
  <2>3. HeldBy(w, run[s].job) = {}
    BY <2>1, <2>2 DEF HeldBy, SlotsOf
  <2>4. ready'[run'[s].job] = 0
    BY <1>1, <1>2, <2>1, <2>2, <2>3
  <2>5. ASSUME NEW t \in Slots, run'[t].job = run'[s].job
        PROVE  t = s
    <3>1. run'[t] = run[t] \/ run'[t] = IdleTask
      BY <1>1
    <3>2. run'[t] # IdleTask
      BY <2>1, <2>5, StoreConstants DEF IdleTask
    <3> QED BY <2>1, <2>2, <2>5, <3>1, <3>2
  <2> QED BY <2>4, <2>5
<1> QED BY <1>3, <1>4, <1>5 DEF HeldInv, OneAttemptAtATime, At

(* A message leaves the queue for one slot, which it is the first to have. *)
LEMMA DeliverHolds ==
    ASSUME TypeInv, HeldInv, NEW s \in Slots, NEW j \in Jobs, Deliver(s, j)
    PROVE  HeldInv'
<1>0. /\ run \in [Slots -> Tasks] /\ ready \in [Jobs -> Nat]
      /\ \A t \in Slots : ~ At(t, "idle") => run[t].job \in Jobs
  BY DEF TypeInv, RunnerTypeOK, StoresTypeOK, TaskInv
<1>1. /\ ready[j] = 1 /\ run[s].pc = "idle"
      /\ ready' = [ready EXCEPT ![j] = 0]
  <2>1. ready[j] \in Nat /\ ready[j] > 0 /\ ready[j] <= 1 /\ run[s].pc = "idle"
    BY <1>0 DEF Deliver, HeldInv, At
  <2>2. ready' = [ready EXCEPT ![j] = ready[j] - 1]
    BY DEF Deliver
  <2>3. ready[j] = 1 /\ ready[j] - 1 = 0
    BY <2>1
  <2> QED BY <2>1, <2>2, <2>3
<1>2. /\ run'[s].pc = "load" /\ run'[s].job = j /\ run'[s].held = TRUE
      /\ \A t \in Slots \ {s} : run'[t] = run[t]
  BY <1>0 DEF Deliver, IdleTask
<1>3. \A t \in Slots : run[t].job # j
  BY <1>0, <1>1, StoreConstants DEF HeldInv, OneAttemptAtATime
<1>4. ASSUME NEW t \in Slots, run'[t].pc # "idle"
      PROVE  /\ ready'[run'[t].job] = 0
             /\ \A u \in Slots : run'[u].job = run'[t].job => u = t
  <2>1. CASE t = s
    BY <1>0, <1>1, <1>2, <1>3, <2>1
  <2>2. CASE t # s
    <3>1. run'[t] = run[t] /\ run[t].job \in Jobs /\ run[t].job # j /\ run[t].pc # "idle"
      BY <1>0, <1>2, <1>3, <1>4, <2>2 DEF At
    <3>2. ready[run[t].job] = 0 /\ \A u \in Slots : run[u].job = run[t].job => u = t
      BY <3>1 DEF HeldInv, OneAttemptAtATime, At
    <3> QED BY <1>0, <1>1, <1>2, <3>1, <3>2
  <2> QED BY <2>1, <2>2
<1>5. \A k \in Jobs : ready'[k] <= 1
  BY <1>0, <1>1 DEF HeldInv
<1>6. \A t \in Slots : IF run'[t].pc = "idle" THEN run'[t].job = None ELSE run'[t].held
  <2>1. run'[s].pc # "idle" /\ run'[s].held
    BY <1>2
  <2>2. \A t \in Slots \ {s} : IF run'[t].pc = "idle" THEN run'[t].job = None ELSE run'[t].held
    BY <1>2 DEF HeldInv, At
  <2> QED BY <2>1, <2>2
<1> QED BY <1>4, <1>5, <1>6 DEF HeldInv, OneAttemptAtATime, At

LEMMA HeldStep ==
    ASSUME "connection_loss" \notin Faults, TypeInv, HeldInv, [RunnerNext]_runnerVars
    PROVE  HeldInv'
<1>0. run \in [Slots -> Tasks]
  BY DEF TypeInv, RunnerTypeOK
<1>1. CASE UNCHANGED runnerVars
  BY <1>1 DEF runnerVars, HeldInv, OneAttemptAtATime, At
<1>2. ASSUME NEW s \in Slots, RunStep(s) \/ PollTimeout(s)
      PROVE  HeldInv'
  BY <1>2, RunStepType, RunStepHolds, GoingOn
<1>3. ASSUME NEW s \in Slots, DbError(s) \/ SoftLimit(s)
      PROVE  HeldInv'
  <2>1. /\ ready' = ready /\ run[s].pc # "idle"
        /\ \E code \in ErrorCodes : Fail(s, code) \/ Raise(s)
    BY <1>3 DEF DbError, SoftLimit, Working, InTry, OutOfTry, ErrorCodes
  <2>2. /\ \A t \in Slots \ {s} : run'[t] = run[t]
        /\ run'[s].pc # "idle" /\ run'[s].job = run[s].job /\ run'[s].held = run[s].held
    BY <1>0, <2>1 DEF Fail, Raise, Tasks
  <2> QED BY <2>1, <2>2, GoingOn
<1>4. ASSUME NEW s \in Slots, ChildKilled(s)
      PROVE  HeldInv'
  <2>1. ready' = ready /\ run'[s] = IdleTask /\ \A t \in Slots \ {s} : run'[t] = run[t]
    BY <1>0, <1>4 DEF ChildKilled
  <2> QED BY <2>1, GoingOn
<1>5. ASSUME NEW i \in bda, NEW status \in Outcomes, BdaFinish(i, status)
      PROVE  HeldInv'
  BY <1>5 DEF BdaFinish, HeldInv, OneAttemptAtATime, At
<1>6. \A w \in Workers : ~ ConnectionLoss(w)
  BY DEF ConnectionLoss
<1> QED BY <1>1, <1>2, <1>3, <1>4, <1>5, <1>6, CrashHolds, DeliverHolds DEF RunnerNext

(* task_acks_late with one consumer per message: a job is in the hands of  *)
(* one slot at most, its message gone from the queue, whoever crashes or   *)
(* is killed, as long as no worker loses the broker and lives on.          *)
THEOREM OneAttempt ==
    ASSUME "connection_loss" \notin Faults
    PROVE  RunnerSpec => []OneAttemptAtATime
<1>1. TypeInv /\ HeldInv /\ [RunnerNext]_runnerVars => (TypeInv /\ HeldInv)'
  BY HeldStep, TypeStep
<1>2. RunnerInit => TypeInv /\ HeldInv
  BY TypeInit, HeldInit
<1>3. HeldInv => OneAttemptAtATime
  BY DEF HeldInv
<1> QED BY <1>1, <1>2, <1>3, PTL DEF RunnerSpec

-----------------------------------------------------------------------------
(* Refinement. *)

(* A commit moves the status of its job as JobLifecycle allows where a job *)
(* may be reopened, and no other step moves any.                           *)
LEMMA LifeGoesOn ==
    ASSUME TypeInv, RowInv, [RunnerNext]_runnerVars
    PROVE  Again!Next \/ StatusOf' = StatusOf
<1>1. CASE jobs' = jobs
  BY <1>1 DEF StatusOf, Exists
<1>2. ASSUME NEW s \in Slots, run[s].pc \in SetLabels, jobs' = Committed(s)
      PROVE  Again!Next \/ StatusOf' = StatusOf
  <2> DEFINE k == run[s].job
             old == jobs[k]
             new == Committed(s)[k]
             read == run[s].read
  <2>1. /\ k \in Jobs /\ Exists(k) /\ old \in Rows /\ new \in Rows /\ read \in Rows
        /\ AttemptInv(s) /\ Complete(old)
        /\ jobs \in [Jobs -> Rows \cup {NoRow}]
    BY <1>2, CommitType DEF TypeInv, RunnerTypeOK, StoresTypeOK, TaskInv, SetLabels, At, Exists,
       RowInv, SettledRowsComplete
  <2>2. /\ new = Flush(old, read, Edit(s))
        /\ \A j \in Jobs \ {k} : jobs'[j] = jobs[j]
    BY <1>2, <2>1 DEF Committed
  <2>3. StatusOf' = [StatusOf EXCEPT ![k] = new.status] /\ StatusOf[k] = old.status
    <3>1. jobs'[k] = new /\ new # NoRow
      BY <1>2, <2>1, StoreConstants
    <3>2. \A j \in Jobs : StatusOf'[j] = [StatusOf EXCEPT ![k] = new.status][j]
      BY <2>1, <2>2, <3>1 DEF StatusOf, Exists
    <3>3. StatusOf[k] = old.status
      BY <2>1 DEF StatusOf
    <3> QED BY <3>2, <3>3 DEF StatusOf
  <2>4. CASE new.status = old.status
    BY <2>3, <2>4 DEF StatusOf
  <2>5. CASE new.status # old.status /\ At(s, "begin")
    <3>1. new.status = "processing"
      BY <2>1, <2>2, <2>5 DEF Edit, At, Flush, Rows
    <3>2. old.status \in {"queued", "success", "failed"}
      BY <2>1, <2>5, <3>1 DEF Rows
    <3> QED BY <2>1, <2>3, <3>1, <3>2 DEF Again!Next, Again!Start, Again!Reopen, Again!Become
  <2>6. CASE At(s, "arn.set")
    <3>1. new.status = old.status
      BY <2>1, <2>2, <2>6 DEF Edit, At, Flush, Rows
    <3> QED BY <2>4, <3>1
  <2>7. CASE new.status # old.status /\ (At(s, "save.set") \/ At(s, "fail.set"))
    <3>1. new.status \in {"success", "failed"}
      BY <2>1, <2>2, <2>7 DEF Edit, At, Flush, Rows
    <3>2. old.status \in {"processing", "success", "failed"}
      BY <2>1, <2>7 DEF AttemptInv, InTry, At, Rows
    <3> QED BY <2>1, <2>3, <3>1, <3>2
            DEF Again!Next, Again!Finish, Again!Overrule, Again!Become
  <2> QED BY <1>2, <2>4, <2>5, <2>6, <2>7 DEF SetLabels, At
<1>3. CASE UNCHANGED runnerVars
  BY <1>1, <1>3 DEF runnerVars
<1> QED BY <1>1, <1>2, <1>3, TableStep

(* Under every fault, the statuses of the jobs go as JobLifecycle allows.  *)
THEOREM Refinement == RunnerSpec => RunsAgain
<1>1. RunnerInit => Again!Init
  <2> SUFFICES ASSUME RunnerInit PROVE StatusOf \in [Jobs -> {"absent", "queued"}]
    BY DEF Again!Init
  <2>1. \A j \in Jobs : jobs[j] = QueuedRow
    BY DEF RunnerInit
  <2> QED BY <2>1 DEF StatusOf, QueuedRow, Exists
<1>2. TypeInv /\ RowInv /\ [RunnerNext]_runnerVars => [Again!Next]_StatusOf
  BY LifeGoesOn
<1> QED BY <1>1, <1>2, RowInvHolds, PTL DEF RunnerSpec, RunsAgain, Again!Spec

-----------------------------------------------------------------------------
(* Once only.  Where the only fault is a killed child, whose message is    *)
(* acknowledged, nothing is delivered twice and no commit is cut short: an *)
(* attempt finds the row as nobody has touched it and is alone with it to  *)
(* the end.                                                                *)

Alone(s) ==
    /\ run[s].pc \in {"load", "begin"} => jobs[run[s].job].status = "queued"
    /\ run[s].pc \in InTry \cup {"fail.get", "fail.set"} => jobs[run[s].job].status = "processing"
    /\ run[s].pc \in SetLabels => run[s].read = jobs[run[s].job]

OnceInv ==
    /\ \A j \in Jobs : ready[j] > 0 => jobs[j].status = "queued"
    /\ \A j \in Jobs : Exists(j) /\ jobs[j].result # None => jobs[j].status = "success"
    /\ \A s \in Slots : Alone(s)

LEMMA OnceInit == RunnerInit => OnceInv
BY DEF RunnerInit, RunInit, IdleTask, QueuedRow, OnceInv, Alone, InTry, SetLabels

(* What one slot does with its row leaves every other slot and every other *)
(* row alone.                                                              *)
LEMMA OthersAlone ==
    ASSUME TypeInv, HeldInv, OnceInv, NEW s \in Slots, run[s].pc # "idle", ready' = ready,
           \A t \in Slots \ {s} : run'[t] = run[t],
           \A j \in Jobs \ {run[s].job} : jobs'[j] = jobs[j],
           jobs'[run[s].job].result # None => jobs'[run[s].job].status = "success",
           Alone(s)'
    PROVE  OnceInv'
<1>1. /\ ready[run[s].job] = 0
      /\ \A t \in Slots \ {s} : run[t].job # run[s].job
  BY DEF HeldInv, OneAttemptAtATime, At
<1>2. ASSUME NEW t \in Slots \ {s}
      PROVE  Alone(t)'
  <2>1. run'[t] = run[t] /\ Alone(t)
    BY DEF OnceInv
  <2>2. CASE run[t].pc = "idle"
    BY <2>1, <2>2 DEF Alone, InTry, SetLabels
  <2>3. CASE run[t].pc # "idle"
    <3>1. run[t].job \in Jobs \ {run[s].job}
      BY <1>1, <2>3 DEF TypeInv, TaskInv, At
    <3>2. jobs'[run[t].job] = jobs[run[t].job]
      BY <3>1
    <3> QED BY <2>1, <3>2 DEF Alone
  <2> QED BY <2>2, <2>3
<1>3. ASSUME NEW j \in Jobs, ready'[j] > 0
      PROVE  jobs'[j].status = "queued"
  <2>1. j # run[s].job
    BY <1>1, <1>3
  <2> QED BY <1>3, <2>1 DEF OnceInv
<1>4. ASSUME NEW j \in Jobs, Exists(j)', jobs'[j].result # None
      PROVE  jobs'[j].status = "success"
  <2>1. CASE j # run[s].job
    BY <1>4, <2>1 DEF OnceInv, Exists
  <2>2. CASE j = run[s].job
    BY <1>4, <2>2
  <2> QED BY <2>1, <2>2
<1> QED BY <1>2, <1>3, <1>4 DEF OnceInv

(* An attempt alone with its row commits exactly what it means to. *)
LEMMA CommitAlone ==
    ASSUME TypeInv, OnceInv, NEW s \in Slots, run[s].pc \in SetLabels
    PROVE  LET k == run[s].job IN
           /\ k \in Jobs /\ jobs[k] \in Rows /\ jobs[k] = run[s].read
           /\ Committed(s)[k] = Edit(s)
           /\ \A j \in Jobs \ {k} : Committed(s)[j] = jobs[j]
<1> DEFINE k == run[s].job
<1>1. /\ jobs \in [Jobs -> Rows \cup {NoRow}] /\ run[s] \in Tasks
      /\ k \in Jobs /\ run[s].read \in Rows /\ jobs[k] = run[s].read
  BY DEF TypeInv, RunnerTypeOK, StoresTypeOK, TaskInv, SetLabels, At, OnceInv, Alone
<1>2. Edit(s) \in Rows
  BY <1>1, EditType
<1>3. Flush(jobs[k], run[s].read, Edit(s)) = Edit(s)
  BY <1>1, <1>2 DEF Flush, Rows
<1>4. Committed(s) = [jobs EXCEPT ![k] = Flush(jobs[k], run[s].read, Edit(s))]
  BY DEF Committed
<1> QED BY <1>1, <1>3, <1>4

LEMMA RunStepOnce ==
    ASSUME TypeInv, HeldInv, OnceInv, NEW s \in Slots, RunStep(s) \/ PollTimeout(s)
    PROVE  OnceInv'
<1> DEFINE k == run[s].job
<1>0. /\ run \in [Slots -> Tasks] /\ run[s] \in Tasks /\ jobs \in [Jobs -> Rows \cup {NoRow}]
      /\ Alone(s) /\ TaskInv(s)
      /\ \A j \in Jobs : Exists(j) /\ jobs[j].result # None => jobs[j].status = "success"
  BY DEF TypeInv, RunnerTypeOK, StoresTypeOK, OnceInv
<1>1. /\ ready' = ready
      /\ \A t \in Slots \ {s} : run'[t] = run[t]
  BY RunStepType
<1>2. ASSUME run[s].pc # "idle", jobs' = jobs, Alone(s)'
      PROVE  OnceInv'
  BY <1>0, <1>1, <1>2, OthersAlone DEF TaskInv, At
(* A step on the way, or out of the try block. *)
<1>3. ASSUME run[s].pc \in InTry, jobs' = jobs, run'[s].job = k,
             run'[s].pc \in {"invoke", "arn.get", "poll", "fetch", "save.get", "fail.get"}
      PROVE  OnceInv'
  BY <1>0, <1>2, <1>3 DEF Alone, InTry, SetLabels
<1>4. ASSUME NEW code, Fail(s, code)
      PROVE  run'[s].job = k /\ run'[s].pc = "fail.get"
  BY <1>0, <1>4 DEF Fail, Tasks
<1>5. ASSUME NEW err, NEW retried, NEW code, CallFails(s, err, retried, code)
      PROVE  run'[s].job = k /\ run'[s].pc \in {run[s].pc, "fail.get"}
  <2>1. CASE run' = [run EXCEPT ![s].tries = @ + 1]
    BY <1>0, <2>1 DEF Tasks
  <2> QED BY <1>4, <1>5, <2>1 DEF CallFails
<1>6. ASSUME NEW get, NEW found, NEW missing, ReadRow(s, get, found, missing), get # "idle",
             \/ get = "load" /\ found = "begin"
             \/ get \in InTry \cup {"fail.get"} /\ found \in {"arn.set", "save.set", "fail.set"}
      PROVE  OnceInv'
  <2>1. run[s].pc = get /\ Exists(k)
    BY <1>0, <1>6 DEF ReadRow, TaskInv, At
  <2>2. run'[s].pc = found /\ run'[s].job = k /\ run'[s].read = jobs[k] /\ jobs' = jobs
    BY <1>0, <1>6, <2>1 DEF ReadRow, Tasks
  <2>3. Alone(s)'
    BY <1>0, <1>6, <2>1, <2>2 DEF Alone, InTry, SetLabels
  <2> QED BY <1>2, <1>6, <2>1, <2>2, <2>3
<1>7. ASSUME NEW set \in SetLabels, NEW next \in {"invoke", "poll", "returned"}, CommitRow(s, set, next),
             \/ set = "begin" /\ next = "invoke"
             \/ set = "arn.set" /\ next = "poll"
             \/ set \in {"save.set", "fail.set"} /\ next = "returned"
      PROVE  OnceInv'
  <2>1. run[s].pc = set /\ jobs' = Committed(s)
    BY <1>7 DEF CommitRow, At
  <2>2. run'[s].pc = next /\ run'[s].job = k
    BY <1>0, <1>7 DEF CommitRow, Tasks
  <2>3. /\ k \in Jobs /\ jobs[k] \in Rows /\ jobs[k] = run[s].read /\ jobs'[k] = Edit(s)
        /\ \A j \in Jobs \ {k} : jobs'[j] = jobs[j]
    BY <1>7, <2>1, CommitAlone
  <2>4. jobs[k].result # None => jobs[k].status = "success"
    BY <1>0, <2>3, StoreConstants DEF Exists
  <2>5. Alone(s)' /\ (jobs'[k].result # None => jobs'[k].status = "success")
    <3>1. CASE set = "begin"
      BY <1>0, <1>7, <2>1, <2>2, <2>3, <2>4, <3>1 DEF Alone, Edit, At, InTry, SetLabels, Rows
    <3>2. CASE set = "arn.set"
      BY <1>0, <1>7, <2>1, <2>2, <2>3, <2>4, <3>2 DEF Alone, Edit, At, InTry, SetLabels, Rows
    <3>3. CASE set = "save.set"
      BY <1>0, <1>7, <2>1, <2>2, <2>3, <2>4, <3>3 DEF Alone, Edit, At, InTry, SetLabels, Rows
    <3>4. CASE set = "fail.set"
      <4>1. jobs[k].result = None
        BY <1>0, <2>1, <2>4, <3>4 DEF Alone
      <4>2. jobs'[k].result = None
        BY <2>1, <2>3, <3>4, <4>1 DEF Edit, At, Rows
      <4>3. Alone(s)'
        BY <1>7, <2>2, <3>4 DEF Alone, InTry, SetLabels
      <4> QED BY <4>2, <4>3
    <3> QED BY <3>1, <3>2, <3>3, <3>4 DEF SetLabels
  <2> QED BY <1>1, <1>7, <2>1, <2>3, <2>5, OthersAlone DEF SetLabels
<1>8. CASE LoadRow(s) \/ LoadForArn(s) \/ LoadToSave(s) \/ LoadToFail(s)
  BY <1>6, <1>8 DEF LoadRow, LoadForArn, LoadToSave, LoadToFail, InTry
<1>9. CASE MarkProcessing(s) \/ RecordArn(s) \/ MarkSuccess(s) \/ MarkFailed(s)
  BY <1>7, <1>9 DEF MarkProcessing, RecordArn, MarkSuccess, MarkFailed, SetLabels
<1>10. CASE Invoke(s)
  <2>1. run[s].pc = "invoke" /\ jobs' = jobs /\ run'[s].job = k /\ run'[s].pc = "arn.get"
    BY <1>0, <1>10 DEF Invoke, At, Tasks
  <2> QED BY <1>3, <2>1 DEF InTry
<1>11. ASSUME NEW err \in AwsErrors, InvokeFails(s, err) \/ PollFails(s, err) \/ FetchFails(s, err)
      PROVE  OnceInv'
  <2>1. run[s].pc \in {"invoke", "poll", "fetch"} /\ jobs' = jobs
    BY <1>11 DEF InvokeFails, PollFails, FetchFails, At
  <2>2. run'[s].job = k /\ run'[s].pc \in {run[s].pc, "fail.get"}
    BY <1>5, <1>11 DEF InvokeFails, PollFails, FetchFails
  <2> QED BY <1>3, <2>1, <2>2 DEF InTry
<1>12. CASE PollPending(s) \/ PollDone(s)
  <2>1. run[s].pc = "poll" /\ jobs' = jobs /\ run'[s].job = k /\ run'[s].pc \in {"poll", "fetch"}
    BY <1>0, <1>12 DEF PollPending, PollDone, At, Tasks
  <2> QED BY <1>3, <2>1 DEF InTry
<1>13. CASE PollServiceError(s) \/ PollTimeout(s)
  <2>1. run[s].pc = "poll" /\ jobs' = jobs /\ run'[s].job = k /\ run'[s].pc = "fail.get"
    BY <1>4, <1>13 DEF PollServiceError, PollTimeout, At
  <2> QED BY <1>3, <2>1 DEF InTry
<1>14. CASE Fetch(s)
  <2>1. run[s].pc = "fetch" /\ jobs' = jobs
    BY <1>14 DEF Fetch, At
  <2>2. run'[s].job = k /\ run'[s].pc \in {"save.get", "fail.get"}
    <3>1. CASE Goto(s, "save.get")
      BY <1>0, <3>1 DEF Goto, Tasks
    <3> QED BY <1>4, <1>14, <3>1 DEF Fetch
  <2> QED BY <1>3, <2>1, <2>2 DEF InTry
<1>15. CASE Ack(s)
  <2>1. run[s].pc # "idle" /\ jobs' = jobs /\ run'[s].pc = "idle"
    BY <1>0, <1>15 DEF Ack, IdleTask
  <2>2. Alone(s)'
    BY <2>1 DEF Alone, InTry, SetLabels
  <2> QED BY <1>2, <2>1, <2>2
<1> QED BY <1>8, <1>9, <1>10, <1>11, <1>12, <1>13, <1>14, <1>15 DEF RunStep

LEMMA OnceStep ==
    ASSUME Faults \subseteq {"child_kill"}, TypeInv, HeldInv, OnceInv, [RunnerNext]_runnerVars
    PROVE  OnceInv'
<1>0. /\ run \in [Slots -> Tasks] /\ ready \in [Jobs -> Nat]
      /\ \A t \in Slots : ~ At(t, "idle") => run[t].job \in Jobs /\ Exists(run[t].job)
      /\ \A j \in Jobs : ready[j] > 0 => Exists(j)
  BY DEF TypeInv, RunnerTypeOK, StoresTypeOK, TaskInv
<1>1. CASE UNCHANGED runnerVars
  BY <1>1 DEF runnerVars, OnceInv, Alone, Exists
<1>2. ASSUME NEW s \in Slots, NEW j \in Jobs, Deliver(s, j)
      PROVE  OnceInv'
  <2>1. /\ run'[s].pc = "load" /\ run'[s].job = j /\ jobs' = jobs
        /\ \A t \in Slots \ {s} : run'[t] = run[t]
        /\ ready[j] > 0
    BY <1>0, <1>2 DEF Deliver, IdleTask
  <2>2. \A i \in Jobs : ready'[i] > 0 => ready[i] > 0
    <3>1. ready' = [ready EXCEPT ![j] = ready[j] - 1]
      BY <1>2 DEF Deliver
    <3> QED BY <1>0, <2>1, <3>1
  <2>3. Alone(s)'
    BY <2>1 DEF OnceInv, Alone, InTry, SetLabels
  <2>4. \A t \in Slots \ {s} : Alone(t)'
    BY <2>1 DEF OnceInv, Alone
  <2> QED BY <2>1, <2>2, <2>3, <2>4 DEF OnceInv, Exists
<1>3. ASSUME NEW s \in Slots, ChildKilled(s)
      PROVE  OnceInv'
  <2>1. /\ run[s].pc # "idle" /\ run'[s].pc = "idle" /\ jobs' = jobs /\ ready' = ready
        /\ \A t \in Slots \ {s} : run'[t] = run[t]
    BY <1>0, <1>3 DEF ChildKilled, At, IdleTask
  <2>2. \A t \in Slots : Alone(t)'
    BY <2>1 DEF OnceInv, Alone, InTry, SetLabels
  <2> QED BY <2>1, <2>2 DEF OnceInv, Exists
<1>4. ASSUME NEW i \in bda, NEW status \in Outcomes, BdaFinish(i, status)
      PROVE  OnceInv'
  BY <1>4 DEF BdaFinish, OnceInv, Alone, Exists
<1>5. \A s \in Slots : ~ DbError(s) /\ ~ SoftLimit(s)
  BY DEF DbError, SoftLimit
<1>6. \A w \in Workers : ~ WorkerCrash(w) /\ ~ ConnectionLoss(w)
  BY DEF WorkerCrash, ConnectionLoss
<1> QED BY <1>1, <1>2, <1>3, <1>4, <1>5, <1>6, RunStepOnce DEF RunnerNext

(* The states of a job go their way once. *)
LEMMA LifeOnce ==
    ASSUME TypeInv, HeldInv, OnceInv, [RunnerNext]_runnerVars
    PROVE  [Once!Next]_StatusOf
<1>1. CASE jobs' = jobs
  BY <1>1 DEF StatusOf, Exists
<1>2. ASSUME NEW s \in Slots, run[s].pc \in SetLabels, jobs' = Committed(s)
      PROVE  Once!Next \/ StatusOf' = StatusOf
  <2> DEFINE k == run[s].job
  <2>1. /\ k \in Jobs /\ jobs[k] \in Rows /\ jobs[k] = run[s].read /\ jobs'[k] = Edit(s)
        /\ \A j \in Jobs \ {k} : jobs'[j] = jobs[j]
        /\ Alone(s) /\ run[s] \in Tasks
    BY <1>2, CommitAlone DEF OnceInv, TypeInv, RunnerTypeOK
  <2>2. Edit(s) \in Rows
    BY <1>2, <2>1, EditType
  <2>3. StatusOf' = [StatusOf EXCEPT ![k] = Edit(s).status] /\ StatusOf[k] = jobs[k].status
    <3>1. jobs[k] # NoRow /\ jobs'[k] # NoRow
      BY <2>1, <2>2, StoreConstants
    <3>2. \A j \in Jobs : StatusOf'[j] = [StatusOf EXCEPT ![k] = Edit(s).status][j]
      BY <2>1, <3>1 DEF StatusOf, Exists
    <3> QED BY <2>1, <3>1, <3>2 DEF StatusOf, Exists
  <2>4. CASE At(s, "begin")
    <3>1. jobs[k].status = "queued" /\ Edit(s).status = "processing"
      BY <2>1, <2>4 DEF Alone, Edit, At, Rows
    <3> QED BY <2>1, <2>3, <3>1 DEF Once!Next, Once!Start, Once!Become
  <2>5. CASE At(s, "arn.set")
    <3>1. Edit(s).status = jobs[k].status
      BY <2>1, <2>5 DEF Edit, At, Rows
    <3> QED BY <2>3, <3>1 DEF StatusOf
  <2>6. CASE At(s, "save.set") \/ At(s, "fail.set")
    <3>1. jobs[k].status = "processing" /\ Edit(s).status \in {"success", "failed"}
      BY <2>1, <2>6 DEF Alone, InTry, Edit, At, Rows
    <3> QED BY <2>1, <2>3, <3>1 DEF Once!Next, Once!Finish, Once!Become
  <2> QED BY <1>2, <2>4, <2>5, <2>6 DEF SetLabels, At
<1>3. CASE UNCHANGED runnerVars
  BY <1>1, <1>3 DEF runnerVars
<1> QED BY <1>1, <1>2, <1>3, TableStep

(* A job is processed once: without redelivery a row goes from queued to   *)
(* processing to one final status and no further, whatever AWS answers,    *)
(* however often tenacity retries and whichever children are killed.  A    *)
(* commit that goes through and still raises, as a database fault or the   *)
(* soft time limit may make it, would let _mark_failed overwrite success.  *)
THEOREM OnceOnly ==
    ASSUME Faults \subseteq {"child_kill"}
    PROVE  RunnerSpec => RunsOnce
<1>1. RunnerInit => Once!Init
  <2> SUFFICES ASSUME RunnerInit PROVE StatusOf \in [Jobs -> {"absent", "queued"}]
    BY DEF Once!Init
  <2>1. \A j \in Jobs : jobs[j] = QueuedRow
    BY DEF RunnerInit
  <2> QED BY <2>1 DEF StatusOf, QueuedRow, Exists
<1>2. TypeInv /\ HeldInv /\ OnceInv /\ [RunnerNext]_runnerVars => (TypeInv /\ HeldInv /\ OnceInv)'
  BY TypeStep, HeldStep, OnceStep
<1>3. TypeInv /\ HeldInv /\ OnceInv /\ [RunnerNext]_runnerVars => [Once!Next]_StatusOf
  BY LifeOnce
<1>4. RunnerInit => TypeInv /\ HeldInv /\ OnceInv
  BY TypeInit, HeldInit, OnceInit
<1> QED BY <1>1, <1>2, <1>3, <1>4, PTL DEF RunnerSpec, RunsOnce, Once!Spec

(* Under the same faults nothing turns a success into a failure: run_job   *)
(* alone, which never asks what status it finds, does so only when its     *)
(* message comes again or its last commit is taken for failed.             *)
THEOREM SuccessIsFinal ==
    ASSUME Faults \subseteq {"child_kill"}
    PROVE  RunnerSpec => []SuccessStands
<1>1. TypeInv /\ HeldInv /\ OnceInv /\ [RunnerNext]_runnerVars => (TypeInv /\ HeldInv /\ OnceInv)'
  BY TypeStep, HeldStep, OnceStep
<1>2. RunnerInit => TypeInv /\ HeldInv /\ OnceInv
  BY TypeInit, HeldInit, OnceInit
<1>3. OnceInv => SuccessStands
  BY DEF OnceInv, SuccessStands
<1> QED BY <1>1, <1>2, <1>3, PTL DEF RunnerSpec
=============================================================================
