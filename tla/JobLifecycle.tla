---------------------------- MODULE JobLifecycle ----------------------------
(***************************************************************************)
(* A job from POST /jobs to its outcome: the create and cancel handlers of *)
(* backend/app/api/v1/jobs.py, the ARQ task run_coordinator_job of         *)
(* backend/app/jobs/tasks.py, and ARQ itself (external) between them.      *)
(*                                                                         *)
(* All of them write the same row of `jobs` from sessions of their own,    *)
(* with no version check and no lock: an UPDATE sets the attributes that   *)
(* the session changed and leaves the others.                              *)
(***************************************************************************)
EXTENDS Naturals, FiniteSets

CONSTANTS
  Jobs,
  Cancels,       \* requests POST /jobs/{id}/cancel
  Workers,       \* ARQ worker processes
  ClientQueue,   \* where enqueue_job puts messages: ARQ's default queue
  WorkerQueue,   \* WorkerSettings.queue_name
  MaxTries,      \* ARQ max_tries (5 by default)
  MaxFindings,   \* bound: findings of one coordinator run
  MaxCrashes,    \* bound: worker deaths in a behaviour
  NoJob, NoRow

ASSUME ConstantsAssumption ==
  /\ NoJob \notin Jobs
  /\ MaxTries \in Nat \ {0} /\ MaxFindings \in Nat /\ MaxCrashes \in Nat

(* The values of JobStatus that this code ever writes. *)
Status ==
  {"PENDING", "QUEUED", "RUNNING", "COMPLETED", "FAILED", "CANCELLED"}
Cancellable == {"PENDING", "QUEUED", "RUNNING"}
Outcomes    == {"COMPLETED", "FAILED"}

JobRow == [status : Status, findings : 0..MaxFindings]

ASSUME NoRowAssumption == NoRow \notin JobRow

VARIABLES
  row,        \* per job: its committed row, or NoRow
  evidence,   \* per job: committed Evidence rows that its runs collected
  queue,      \* per queue name: the jobs with a message in it
  tries,      \* per job: how often ARQ has started its message
  creator,    \* per job: where its create request is
  cancel,     \* per cancel request: where it is, its job, the status it read
  worker,     \* per worker: where run_coordinator_job is, its job, what it
              \* loaded, what the coordinator found
  crashes,
  cutOff      \* history: the jobs with a run that ended without an outcome

vars == <<row, evidence, queue, tries, creator, cancel, worker, crashes, cutOff>>

Queues == {ClientQueue, WorkerQueue}

CreatorPC == {"idle", "committed", "enqueued", "done"}
CancelPC  == {"idle", "read", "done", "rejected"}
WorkerPC  == {"idle", "delivered", "loaded", "running", "ran", "raised",
              "returned"}

TypeOK ==
  /\ row \in [Jobs -> JobRow \cup {NoRow}]
  /\ evidence \in [Jobs -> Nat]
  /\ queue \in [Queues -> SUBSET Jobs]
  /\ tries \in [Jobs -> 0..MaxTries]
  /\ creator \in [Jobs -> CreatorPC]
  /\ cancel \in [Cancels -> [pc : CancelPC, job : Jobs \cup {NoJob},
                             seen : Status]]
  /\ worker \in [Workers -> [pc : WorkerPC, job : Jobs \cup {NoJob},
                             loaded : Status, found : 0..MaxFindings]]
  /\ crashes \in 0..MaxCrashes
  /\ cutOff \in SUBSET Jobs

IdleWorker == [pc |-> "idle", job |-> NoJob, loaded |-> "PENDING", found |-> 0]

Init ==
  /\ row = [j \in Jobs |-> NoRow]
  /\ evidence = [j \in Jobs |-> 0]
  /\ queue = [q \in Queues |-> {}]
  /\ tries = [j \in Jobs |-> 0]
  /\ creator = [j \in Jobs |-> "idle"]
  /\ cancel = [k \in Cancels |-> [pc |-> "idle", job |-> NoJob, seen |-> "PENDING"]]
  /\ worker = [w \in Workers |-> IdleWorker]
  /\ crashes = 0
  /\ cutOff = {}

SetStatus(j, s) == row' = [row EXCEPT ![j].status = s]

Live(w) == worker[w].pc # "idle"
Held(j) == \E w \in Workers : Live(w) /\ worker[w].job = j

-----------------------------------------------------------------------------
(* create_job *)

CreateJob_EnqueuedFirst(j) ==
  /\ creator[j] = "idle"
  /\ queue' = [queue EXCEPT ![ClientQueue] = @ \cup {j}]
  /\ creator' = [creator EXCEPT ![j] = "committed"]
  /\ UNCHANGED <<row, evidence, tries, cancel, worker, crashes, cutOff>>

(* The row is committed as PENDING before anything is enqueued. *)
CreateJob(j) ==
  /\ creator[j] = "idle"
  /\ row' = [row EXCEPT ![j] = [status |-> "PENDING", findings |-> 0]]
  /\ creator' = [creator EXCEPT ![j] = "committed"]
  /\ UNCHANGED <<evidence, queue, tries, cancel, worker, crashes, cutOff>>

(* enqueue_job *)
EnqueueJob(j) ==
  /\ creator[j] = "committed"
  /\ queue' = [queue EXCEPT ![ClientQueue] = @ \cup {j}]
  /\ creator' = [creator EXCEPT ![j] = "enqueued"]
  /\ UNCHANGED <<row, evidence, tries, cancel, worker, crashes, cutOff>>

(* job.status = QUEUED and its commit, whatever became of the row since.   *)
MarkQueued(j) ==
  /\ creator[j] = "enqueued"
  /\ SetStatus(j, "QUEUED")
  /\ creator' = [creator EXCEPT ![j] = "done"]
  /\ UNCHANGED <<evidence, queue, tries, cancel, worker, crashes, cutOff>>

(* An error of Redis or of the second commit is swallowed, and the API     *)
(* process may die in between: the row stays as it is.                     *)
CreateCutShort(j) ==
  /\ creator[j] \in {"committed", "enqueued"}
  /\ creator' = [creator EXCEPT ![j] = "done"]
  /\ UNCHANGED <<row, evidence, queue, tries, cancel, worker, crashes, cutOff>>

-----------------------------------------------------------------------------
(* cancel_job: _get_or_404 loads the row, the check, then the commit.      *)

CancelRead_Unchecked(k, j) ==
  /\ cancel[k].pc = "idle"
  /\ row[j] # NoRow
  /\ cancel' = [cancel EXCEPT ![k] =
                  [pc |-> "read", job |-> j, seen |-> row[j].status]]
  /\ UNCHANGED <<row, evidence, queue, tries, creator, worker, crashes, cutOff>>

CancelRead(k, j) ==
  /\ cancel[k].pc = "idle"
  /\ row[j] # NoRow
  /\ cancel' = [cancel EXCEPT ![k] =
                  [pc   |-> IF row[j].status \in Cancellable THEN "read"
                            ELSE "rejected",
                   job  |-> j,
                   seen |-> row[j].status]]
  /\ UNCHANGED <<row, evidence, queue, tries, creator, worker, crashes, cutOff>>

CancelWrite(k) ==
  /\ cancel[k].pc = "read"
  /\ SetStatus(cancel[k].job, "CANCELLED")
  /\ cancel' = [cancel EXCEPT ![k].pc = "done"]
  /\ UNCHANGED <<evidence, queue, tries, creator, worker, crashes, cutOff>>

-----------------------------------------------------------------------------
(* ARQ (external): a message stays in its queue until its run has returned *)
(* and is started by one worker at a time, at most MaxTries times.         *)

Deliver_NotExclusive(w, j) ==
  /\ ~Live(w)
  /\ j \in queue[WorkerQueue]
  /\ tries[j] < MaxTries
  /\ tries' = [tries EXCEPT ![j] = @ + 1]
  /\ worker' = [worker EXCEPT ![w] =
                  [IdleWorker EXCEPT !.pc = "delivered", !.job = j]]
  /\ UNCHANGED <<row, evidence, queue, creator, cancel, crashes, cutOff>>

Deliver_NoMaxTries(w, j) ==
  /\ ~Live(w)
  /\ j \in queue[WorkerQueue]
  /\ ~Held(j)
  /\ tries' = [tries EXCEPT ![j] = @ + 1]
  /\ worker' = [worker EXCEPT ![w] =
                  [IdleWorker EXCEPT !.pc = "delivered", !.job = j]]
  /\ UNCHANGED <<row, evidence, queue, creator, cancel, crashes, cutOff>>

Deliver(w, j) ==
  /\ ~Live(w)
  /\ j \in queue[WorkerQueue]
  /\ ~Held(j)
  /\ tries[j] < MaxTries
  /\ tries' = [tries EXCEPT ![j] = @ + 1]
  /\ worker' = [worker EXCEPT ![w] =
                  [IdleWorker EXCEPT !.pc = "delivered", !.job = j]]
  /\ UNCHANGED <<row, evidence, queue, creator, cancel, crashes, cutOff>>

GiveUp_OneTryMore(j) ==
  /\ j \in queue[WorkerQueue]
  /\ ~Held(j)
  /\ tries[j] > MaxTries
  /\ queue' = [queue EXCEPT ![WorkerQueue] = @ \ {j}]
  /\ cutOff' = cutOff \cup {j}
  /\ UNCHANGED <<row, evidence, tries, creator, cancel, worker, crashes>>

GiveUp(j) ==
  /\ j \in queue[WorkerQueue]
  /\ ~Held(j)
  /\ tries[j] = MaxTries
  /\ queue' = [queue EXCEPT ![WorkerQueue] = @ \ {j}]
  /\ cutOff' = cutOff \cup {j}
  /\ UNCHANGED <<row, evidence, tries, creator, cancel, worker, crashes>>

Acknowledge(w) ==
  /\ worker[w].pc = "returned"
  /\ queue' = [queue EXCEPT ![WorkerQueue] = @ \ {worker[w].job}]
  /\ worker' = [worker EXCEPT ![w] = IdleWorker]
  /\ UNCHANGED <<row, evidence, tries, creator, cancel, crashes, cutOff>>

(* A worker is killed or shut down: the open transaction is rolled back,   *)
(* and the message will be started again.                                  *)
WorkerDies(w) ==
  /\ Live(w)
  /\ crashes < MaxCrashes
  /\ crashes' = crashes + 1
  /\ worker' = [worker EXCEPT ![w] = IdleWorker]
  /\ UNCHANGED <<row, evidence, queue, tries, creator, cancel, cutOff>>

-----------------------------------------------------------------------------
(* run_coordinator_job *)

WorkerStep(w, from, to) ==
  /\ worker[w].pc = from
  /\ worker' = [worker EXCEPT ![w].pc = to]

LoadJob(w) ==
  LET j == worker[w].job
  IN  /\ worker[w].pc = "delivered"
      /\ worker' = IF row[j] = NoRow
                   THEN [worker EXCEPT ![w].pc = "returned"]
                   ELSE [worker EXCEPT ![w].pc = "loaded",
                                       ![w].loaded = row[j].status]
      /\ UNCHANGED <<row, evidence, queue, tries, creator, cancel, crashes, cutOff>>

(* job.status = RUNNING and its commit; nobody asks what the status was.   *)
(* A redelivered job was loaded as RUNNING, and then the attribute is not  *)
(* changed and the UPDATE leaves the column alone.                         *)
MarkRunning(w) ==
  /\ WorkerStep(w, "loaded", "running")
  /\ IF worker[w].loaded = "RUNNING" THEN UNCHANGED row
     ELSE SetStatus(worker[w].job, "RUNNING")
  /\ UNCHANGED <<evidence, queue, tries, creator, cancel, crashes, cutOff>>

(* coordinator.run returned; a plan that could not be made or parsed is    *)
(* success=False with no findings, and the caller does not look at it.     *)
RunCoordinator(w) ==
  /\ worker[w].pc = "running"
  /\ \E n \in 0..MaxFindings :
       worker' = [worker EXCEPT ![w].pc = "ran", ![w].found = n]
  /\ UNCHANGED <<row, evidence, queue, tries, creator, cancel, crashes, cutOff>>

RunRaises(w) ==
  /\ WorkerStep(w, "running", "raised")
  /\ UNCHANGED <<row, evidence, queue, tries, creator, cancel, crashes, cutOff>>

CommitOutcome_StatusFirst(w) ==
  LET j == worker[w].job
      n == worker[w].found
  IN  /\ worker[w].pc = "ran"
      /\ row' = [row EXCEPT ![j] = [status |-> "COMPLETED", findings |-> n]]
      /\ IF row[j].status = "COMPLETED"
         THEN /\ evidence' = [evidence EXCEPT ![j] = @ + n]
              /\ WorkerStep(w, "ran", "returned")
         ELSE UNCHANGED <<evidence, worker>>
      /\ UNCHANGED <<queue, tries, creator, cancel, crashes, cutOff>>

(* The findings, the count and COMPLETED are one transaction. *)
CommitOutcome(w) ==
  LET j == worker[w].job
      n == worker[w].found
  IN  /\ WorkerStep(w, "ran", "returned")
      /\ row' = [row EXCEPT ![j] = [status |-> "COMPLETED", findings |-> n]]
      /\ evidence' = [evidence EXCEPT ![j] = @ + n]
      /\ UNCHANGED <<queue, tries, creator, cancel, crashes, cutOff>>

CommitFailure_NoStatus(w) ==
  /\ WorkerStep(w, "raised", "returned")
  /\ UNCHANGED <<row, evidence, queue, tries, creator, cancel, crashes, cutOff>>

CommitFailure(w) ==
  /\ WorkerStep(w, "raised", "returned")
  /\ SetStatus(worker[w].job, "FAILED")
  /\ UNCHANGED <<evidence, queue, tries, creator, cancel, crashes, cutOff>>

(* The run ends with an exception that ARQ does not retry: job_timeout     *)
(* cancels it (CancelledError is not an Exception), or a flush fails and   *)
(* the commit of the except branch meets a session that was not rolled     *)
(* back.  Nothing of the open transaction is kept.                         *)
RunCutOff(w) ==
  /\ worker[w].pc \in {"delivered", "loaded", "running", "ran", "raised"}
  /\ worker' = [worker EXCEPT ![w].pc = "returned"]
  /\ cutOff' = cutOff \cup {worker[w].job}
  /\ UNCHANGED <<row, evidence, queue, tries, creator, cancel, crashes>>

-----------------------------------------------------------------------------
Create(j) == CreateJob(j) \/ EnqueueJob(j) \/ MarkQueued(j) \/ CreateCutShort(j)

RunStep(w) ==
  \/ LoadJob(w)
  \/ MarkRunning(w)
  \/ RunCoordinator(w)
  \/ RunRaises(w)
  \/ CommitOutcome(w)
  \/ CommitFailure(w)
  \/ Acknowledge(w)

Next ==
  \/ \E j \in Jobs : Create(j) \/ GiveUp(j)
  \/ \E k \in Cancels : CancelWrite(k) \/ \E j \in Jobs : CancelRead(k, j)
  \/ \E w \in Workers :
       \/ RunStep(w) \/ RunCutOff(w) \/ WorkerDies(w)
       \/ \E j \in Jobs : Deliver(w, j)

Spec == Init /\ [][Next]_vars

(* The ARQ workers poll their queue and run what they have started (every  *)
(* run ends within job_timeout); nobody has to create or cancel a job.     *)
FairSpec ==
  /\ Spec
  /\ \A j \in Jobs :
       /\ WF_vars(GiveUp(j))
       /\ WF_vars(\E w \in Workers : Deliver(w, j))
       /\ WF_vars(EnqueueJob(j)) /\ WF_vars(MarkQueued(j))
  /\ \A w \in Workers : WF_vars(RunStep(w))

-----------------------------------------------------------------------------
Exists(j) == row[j] # NoRow

(* create_job commits before it enqueues: no message or run is ever about  *)
(* a job without a row, and run_coordinator_job never has to answer "Job   *)
(* not found".                                                             *)
MessagesHaveRows ==
  \A j \in Jobs : (\E q \in Queues : j \in queue[q]) \/ Held(j) => Exists(j)

(* findings_count never promises more than the evidence that was saved,    *)
(* wherever a run is interrupted.                                          *)
CountBacked ==
  \A j \in Jobs : Exists(j) => row[j].findings <= evidence[j]

(* Only the death of a worker makes a job collect its evidence twice: ARQ  *)
(* delivers the message again and the task does not notice.                *)
CountExactUnlessWorkerDied ==
  crashes = 0 =>
    \A j \in Jobs : Exists(j) => row[j].findings = evidence[j]

(* A job that says RUNNING while no worker has it and no message is left   *)
(* for one is a job whose run was cut off, or whose tries ran out: those,  *)
(* and no other interleaving, leave a job RUNNING for ever.                *)
StrandedOnlyByCutOff ==
  \A j \in Jobs :
    /\ Exists(j) /\ row[j].status = "RUNNING"
    /\ ~Held(j) /\ j \notin queue[WorkerQueue]
    => j \in cutOff

(* A job that has COMPLETED or FAILED loses that outcome only to a writer  *)
(* with a stale view of it: the create handler that has still to write     *)
(* QUEUED, a cancel that loaded the row before the outcome, or the run of  *)
(* a message that was delivered before.                                    *)
OutcomeLostOnlyToStaleWriter ==
  [][\A j \in Jobs :
       Exists(j) /\ row[j].status \in Outcomes /\ row'[j] # row[j] =>
         \/ creator[j] = "enqueued"
         \/ tries[j] > 1
         \/ \E k \in Cancels : /\ cancel[k].pc = "read" /\ cancel[k].job = j
                               /\ cancel[k].seen \in Cancellable]_vars

(* Every message in the queue of the workers is settled: its run returns,  *)
(* or ARQ gives it up.                                                     *)
MessagesSettle ==
  \A j \in Jobs : j \in queue[WorkerQueue] ~> j \notin queue[WorkerQueue]

(* What the client says of a cancel that was accepted, "Job cancelled": the *)
(* job is not run or completed any more.                                   *)
CancelledStaysCancelled ==
  [][\A j \in Jobs :
       Exists(j) /\ row[j].status = "CANCELLED"
         => row'[j].status = "CANCELLED"]_vars

(* "Enqueue a job to ARQ", whose task will "run coordinator agent for a    *)
(* job": an enqueued job is started by a worker some day.                  *)
EnqueuedJobsStart ==
  \A j \in Jobs : creator[j] = "enqueued" ~> tries[j] > 0
=============================================================================
