------------------------- MODULE JobLifecycleProofs -------------------------
(***************************************************************************)
(* Proofs about JobLifecycle for every number of jobs, cancels, workers,   *)
(* tries and worker deaths, and for any two queue names.                   *)
(***************************************************************************)
EXTENDS JobLifecycle, TLAPS

(* Whoever is about to write a job's row knows that the row is there.      *)
RowsBehind ==
  /\ \A j \in Jobs : Exists(j) <=> creator[j] # "idle"
  /\ \A k \in Cancels :
       cancel[k].pc = "read" => cancel[k].job \in Jobs /\ Exists(cancel[k].job)
  /\ \A w \in Workers :
       Live(w) => worker[w].job \in Jobs /\ Exists(worker[w].job)
  /\ \A q \in Queues : \A j \in queue[q] : Exists(j)

TypeInv == TypeOK /\ RowsBehind

(* A run in progress is the only one of its job, and its message waits in  *)
(* the queue until the run is acknowledged.                                *)
Exclusive ==
  /\ \A w \in Workers : Live(w) => worker[w].job \in queue[WorkerQueue]
  /\ \A v, w \in Workers :
       Live(v) /\ Live(w) /\ worker[v].job = worker[w].job => v = w

(* A run that has returned left an outcome in the row, or was cut off.     *)
ReturnedSettled ==
  \A w \in Workers :
    worker[w].pc = "returned" =>
      row[worker[w].job].status # "RUNNING" \/ worker[w].job \in cutOff

Settled ==
  \A j \in Jobs :
    Exists(j) /\ row[j].status = "RUNNING" =>
      j \in queue[WorkerQueue] \/ j \in cutOff

RunInv == TypeInv /\ Exclusive /\ ReturnedSettled /\ Settled

-----------------------------------------------------------------------------
(* Changing the status of an existing row yields a row. *)
LEMMA StatusRow ==
  ASSUME NEW r \in JobRow, NEW s \in Status
  PROVE  [r EXCEPT !.status = s] \in JobRow
BY DEF JobRow

LEMMA InitRunInv == Init => RunInv
BY ConstantsAssumption, NoRowAssumption
   DEF Init, RunInv, TypeInv, TypeOK, RowsBehind, Exclusive, ReturnedSettled,
       Settled, Exists, Live, IdleWorker, Status, CreatorPC, CancelPC, WorkerPC,
       Queues

(* A new status for the row of an existing job keeps the rows well typed,  *)
(* and keeps every row that exists.                                        *)
LEMMA SetStatusRows ==
  ASSUME TypeInv, NEW j \in Jobs, Exists(j), NEW s \in Status, SetStatus(j, s)
  PROVE  /\ row' \in [Jobs -> JobRow \cup {NoRow}]
         /\ \A i \in Jobs : Exists(i)' <=> Exists(i)
         /\ row'[j].status = s
         /\ \A i \in Jobs \ {j} : row'[i] = row[i]
<1>1. row[j] \in JobRow
  BY DEF TypeInv, TypeOK, Exists
<1>2. [row[j] EXCEPT !.status = s] \in JobRow
  BY <1>1, StatusRow
<1>3. row' = [row EXCEPT ![j] = [row[j] EXCEPT !.status = s]]
  BY DEF SetStatus
<1>4. row'[j] = [row[j] EXCEPT !.status = s]
  BY <1>3 DEF TypeInv, TypeOK
<1>5. \A i \in Jobs \ {j} : row'[i] = row[i]
  BY <1>3 DEF TypeInv, TypeOK
<1>6. row' \in [Jobs -> JobRow \cup {NoRow}]
  BY <1>2, <1>3 DEF TypeInv, TypeOK
<1>7. row'[j] # NoRow
  BY <1>2, <1>4, NoRowAssumption
<1>8. row'[j].status = s
  BY <1>1, <1>4 DEF JobRow
<1> QED
  BY <1>5, <1>6, <1>7, <1>8 DEF Exists

-----------------------------------------------------------------------------
(* Types, and the rows behind them. *)
LEMMA NextTypeInv == TypeInv /\ [Next]_vars => TypeInv'
<1> SUFFICES ASSUME TypeInv, [Next]_vars PROVE TypeInv'
  OBVIOUS
<1> USE ConstantsAssumption, NoRowAssumption
<1>1. ASSUME NEW j \in Jobs, CreateJob(j) PROVE TypeInv'
  <2>1. [status |-> "PENDING", findings |-> 0] \in JobRow
    BY DEF JobRow, Status
  <2>2. row' \in [Jobs -> JobRow \cup {NoRow}]
    BY <1>1, <2>1 DEF TypeInv, TypeOK, CreateJob
  <2>3. \A i \in Jobs : Exists(i)' <=> Exists(i) \/ i = j
    BY <1>1, <2>1 DEF TypeInv, TypeOK, CreateJob, Exists
  <2>4. TypeOK'
    BY <1>1, <2>2 DEF TypeInv, TypeOK, CreateJob, CreatorPC
  <2>5. RowsBehind'
    BY <1>1, <2>3 DEF TypeInv, TypeOK, RowsBehind, CreateJob, Live, Queues
  <2> QED
    BY <2>4, <2>5 DEF TypeInv
<1>2. ASSUME NEW j \in Jobs, EnqueueJob(j) PROVE TypeInv'
  <2>1. TypeOK'
    BY <1>2 DEF TypeInv, TypeOK, EnqueueJob, CreatorPC, Queues
  <2>2. RowsBehind'
    BY <1>2 DEF TypeInv, TypeOK, RowsBehind, EnqueueJob, Exists, Live, Queues
  <2> QED
    BY <2>1, <2>2 DEF TypeInv
<1>3. ASSUME NEW j \in Jobs, MarkQueued(j) PROVE TypeInv'
  <2>1. Exists(j) /\ SetStatus(j, "QUEUED") /\ "QUEUED" \in Status
    BY <1>3 DEF MarkQueued, TypeInv, RowsBehind, Status
  <2>2. /\ row' \in [Jobs -> JobRow \cup {NoRow}]
        /\ \A i \in Jobs : Exists(i)' <=> Exists(i)
    BY <2>1, SetStatusRows
  <2>3. TypeOK'
    BY <1>3, <2>2 DEF TypeInv, TypeOK, MarkQueued, CreatorPC
  <2>4. RowsBehind'
    BY <1>3, <2>2 DEF TypeInv, TypeOK, RowsBehind, MarkQueued, Live, Queues
  <2> QED
    BY <2>3, <2>4 DEF TypeInv
<1>4. ASSUME NEW j \in Jobs, CreateCutShort(j) PROVE TypeInv'
  <2>1. TypeOK'
    BY <1>4 DEF TypeInv, TypeOK, CreateCutShort, CreatorPC
  <2>2. RowsBehind'
    BY <1>4 DEF TypeInv, TypeOK, RowsBehind, CreateCutShort, Exists, Live, Queues
  <2> QED
    BY <2>1, <2>2 DEF TypeInv
<1>5. ASSUME NEW j \in Jobs, GiveUp(j) PROVE TypeInv'
  <2>1. TypeOK'
    BY <1>5 DEF TypeInv, TypeOK, GiveUp, Queues
  <2>2. RowsBehind'
    BY <1>5 DEF TypeInv, TypeOK, RowsBehind, GiveUp, Exists, Live, Queues
  <2> QED
    BY <2>1, <2>2 DEF TypeInv
<1>6. ASSUME NEW k \in Cancels, NEW j \in Jobs, CancelRead(k, j)
      PROVE  TypeInv'
  <2>1. row[j].status \in Status
    BY <1>6 DEF TypeInv, TypeOK, CancelRead, JobRow
  <2>2. TypeOK'
    BY <1>6, <2>1 DEF TypeInv, TypeOK, CancelRead, CancelPC
  <2>3. RowsBehind'
    BY <1>6 DEF TypeInv, TypeOK, RowsBehind, CancelRead, Exists, Live, Queues
  <2> QED
    BY <2>2, <2>3 DEF TypeInv
<1>7. ASSUME NEW k \in Cancels, CancelWrite(k) PROVE TypeInv'
  <2> DEFINE j == cancel[k].job
  <2>1. j \in Jobs /\ Exists(j) /\ SetStatus(j, "CANCELLED")
    BY <1>7 DEF CancelWrite, TypeInv, RowsBehind
  <2>2. "CANCELLED" \in Status
    BY DEF Status
  <2> HIDE DEF j
  <2>3. /\ row' \in [Jobs -> JobRow \cup {NoRow}]
        /\ \A i \in Jobs : Exists(i)' <=> Exists(i)
    BY <2>1, <2>2, SetStatusRows
  <2>4. TypeOK'
    BY <1>7, <2>3 DEF TypeInv, TypeOK, CancelWrite, CancelPC
  <2>5. RowsBehind'
    BY <1>7, <2>3 DEF TypeInv, TypeOK, RowsBehind, CancelWrite, Live, Queues
  <2> QED
    BY <2>4, <2>5 DEF TypeInv
<1>8. ASSUME NEW w \in Workers, NEW j \in Jobs, Deliver(w, j) PROVE TypeInv'
  <2>1. Exists(j)
    BY <1>8 DEF Deliver, TypeInv, RowsBehind, Queues
  <2>2. TypeOK'
    <3>a. tries[j] \in 0..MaxTries /\ tries[j] < MaxTries
      BY <1>8 DEF Deliver, TypeInv, TypeOK
    <3>b. tries[j] + 1 \in 0..MaxTries
      BY <3>a
    <3>1. tries' \in [Jobs -> 0..MaxTries]
      BY <1>8, <3>b DEF Deliver, TypeInv, TypeOK
    <3>2. IdleWorker \in [pc : WorkerPC, job : Jobs \cup {NoJob},
                         loaded : Status, found : 0..MaxFindings]
      BY DEF IdleWorker, WorkerPC, Status
    <3>3. [IdleWorker EXCEPT !.pc = "delivered", !.job = j]
            \in [pc : WorkerPC, job : Jobs \cup {NoJob}, loaded : Status,
                found : 0..MaxFindings]
      BY <3>2 DEF WorkerPC
    <3>4. worker' \in [Workers -> [pc : WorkerPC, job : Jobs \cup {NoJob},
                                  loaded : Status, found : 0..MaxFindings]]
      BY <1>8, <3>3 DEF Deliver, TypeInv, TypeOK
    <3> QED
      BY <1>8, <3>1, <3>4 DEF Deliver, TypeInv, TypeOK
  <2>3. RowsBehind'
    BY <1>8, <2>1 DEF TypeInv, TypeOK, RowsBehind, Deliver, IdleWorker, Exists,
                      Live, Queues
  <2> QED
    BY <2>2, <2>3 DEF TypeInv
<1>9. ASSUME NEW w \in Workers, LoadJob(w) PROVE TypeInv'
  <2> DEFINE j == worker[w].job
  <2>1. j \in Jobs /\ Exists(j)
    BY <1>9 DEF LoadJob, TypeInv, RowsBehind, Live
  <2>2. row[j].status \in Status
    BY <2>1 DEF TypeInv, TypeOK, Exists, JobRow
  <2>3. worker' = [worker EXCEPT ![w].pc = "loaded",
                                 ![w].loaded = row[j].status]
    BY <1>9, <2>1 DEF LoadJob, Exists
  <2>4. TypeOK'
    <3>1. [worker[w] EXCEPT !.pc = "loaded", !.loaded = row[j].status]
            \in [pc : WorkerPC, job : Jobs \cup {NoJob}, loaded : Status,
                found : 0..MaxFindings]
      BY <2>2 DEF TypeInv, TypeOK, WorkerPC
    <3>2. worker' = [worker EXCEPT ![w] =
                       [worker[w] EXCEPT !.pc = "loaded",
                                         !.loaded = row[j].status]]
      BY <2>3 DEF TypeInv, TypeOK
    <3>3. worker' \in [Workers -> [pc : WorkerPC, job : Jobs \cup {NoJob},
                                  loaded : Status, found : 0..MaxFindings]]
      BY <3>1, <3>2 DEF TypeInv, TypeOK
    <3> QED
      BY <1>9, <3>3 DEF LoadJob, TypeInv, TypeOK
  <2>5. RowsBehind'
    BY <1>9, <2>1, <2>3 DEF TypeInv, TypeOK, RowsBehind, LoadJob, Exists, Live,
                            Queues
  <2> QED
    BY <2>4, <2>5 DEF TypeInv
<1>10. ASSUME NEW w \in Workers, MarkRunning(w) PROVE TypeInv'
  <2> DEFINE j == worker[w].job
  <2>1. j \in Jobs /\ Exists(j)
    BY <1>10 DEF MarkRunning, WorkerStep, TypeInv, RowsBehind, Live
  <2>2. "RUNNING" \in Status
    BY DEF Status
  <2>3. UNCHANGED row \/ SetStatus(j, "RUNNING")
    BY <1>10 DEF MarkRunning
  <2> HIDE DEF j
  <2>4. /\ row' \in [Jobs -> JobRow \cup {NoRow}]
        /\ \A i \in Jobs : Exists(i)' <=> Exists(i)
    BY <2>1, <2>2, <2>3, SetStatusRows DEF TypeInv, TypeOK, Exists
  <2>5. TypeOK'
    BY <1>10, <2>4 DEF TypeInv, TypeOK, MarkRunning, WorkerStep, WorkerPC
  <2>6. RowsBehind'
    BY <1>10, <2>4 DEF TypeInv, TypeOK, RowsBehind, MarkRunning, WorkerStep,
                       Live, Queues
  <2> QED
    BY <2>5, <2>6 DEF TypeInv
<1>11. ASSUME NEW w \in Workers, RunCoordinator(w) \/ RunRaises(w) PROVE TypeInv'
  <2>1. CASE RunRaises(w)
    <3>1. TypeOK'
      BY <2>1 DEF TypeInv, TypeOK, RunRaises, WorkerStep, WorkerPC
    <3>2. RowsBehind'
      BY <2>1 DEF TypeInv, TypeOK, RowsBehind, RunRaises, WorkerStep, Exists,
                  Live, Queues
    <3> QED
      BY <3>1, <3>2 DEF TypeInv
  <2>2. CASE RunCoordinator(w)
    <3>1. PICK n \in 0..MaxFindings :
            worker' = [worker EXCEPT ![w].pc = "ran", ![w].found = n]
      BY <2>2 DEF RunCoordinator
    <3>2. worker' = [worker EXCEPT ![w] =
                       [worker[w] EXCEPT !.pc = "ran", !.found = n]]
      BY <3>1 DEF TypeInv, TypeOK
    <3>3. [worker[w] EXCEPT !.pc = "ran", !.found = n]
            \in [pc : WorkerPC, job : Jobs \cup {NoJob}, loaded : Status,
                found : 0..MaxFindings]
      BY DEF TypeInv, TypeOK, WorkerPC
    <3>4. worker' \in [Workers -> [pc : WorkerPC, job : Jobs \cup {NoJob},
                                  loaded : Status, found : 0..MaxFindings]]
      BY <3>2, <3>3 DEF TypeInv, TypeOK
    <3>5. TypeOK'
      BY <2>2, <3>4 DEF RunCoordinator, TypeInv, TypeOK
    <3>6. \A v \in Workers : worker'[v].job = worker[v].job /\ (Live(v)' <=> Live(v))
      BY <2>2, <3>2 DEF RunCoordinator, TypeInv, TypeOK, Live
    <3>7. RowsBehind'
      BY <2>2, <3>6 DEF TypeInv, TypeOK, RowsBehind, RunCoordinator, Exists, Queues
    <3> QED
      BY <3>5, <3>7 DEF TypeInv
  <2> QED
    BY <1>11, <2>1, <2>2
<1>12. ASSUME NEW w \in Workers, CommitOutcome(w) PROVE TypeInv'
  <2> DEFINE j == worker[w].job
             n == worker[w].found
             r == [status |-> "COMPLETED", findings |-> n]
  <2>1. j \in Jobs /\ Exists(j)
    BY <1>12 DEF CommitOutcome, WorkerStep, TypeInv, RowsBehind, Live
  <2>2. n \in 0..MaxFindings
    BY DEF TypeInv, TypeOK
  <2>3. r \in JobRow
    BY <2>2 DEF JobRow, Status
  <2>4. row' = [row EXCEPT ![j] = r] /\ evidence' = [evidence EXCEPT ![j] = @ + n]
    BY <1>12 DEF CommitOutcome
  <2> HIDE DEF j, n, r
  <2>5. row' \in [Jobs -> JobRow \cup {NoRow}] /\ evidence' \in [Jobs -> Nat]
    BY <2>1, <2>2, <2>3, <2>4 DEF TypeInv, TypeOK
  <2>6. \A i \in Jobs : Exists(i)' <=> Exists(i)
    BY <2>1, <2>3, <2>4 DEF TypeInv, TypeOK, Exists
  <2>7. TypeOK'
    BY <1>12, <2>5 DEF TypeInv, TypeOK, CommitOutcome, WorkerStep, WorkerPC
  <2>8. RowsBehind'
    BY <1>12, <2>6 DEF TypeInv, TypeOK, RowsBehind, CommitOutcome, WorkerStep,
                       Live, Queues
  <2> QED
    BY <2>7, <2>8 DEF TypeInv
<1>13. ASSUME NEW w \in Workers, CommitFailure(w) PROVE TypeInv'
  <2> DEFINE j == worker[w].job
  <2>1. j \in Jobs /\ Exists(j) /\ SetStatus(j, "FAILED")
    BY <1>13 DEF CommitFailure, WorkerStep, TypeInv, RowsBehind, Live
  <2>2. "FAILED" \in Status
    BY DEF Status
  <2> HIDE DEF j
  <2>3. /\ row' \in [Jobs -> JobRow \cup {NoRow}]
        /\ \A i \in Jobs : Exists(i)' <=> Exists(i)
    BY <2>1, <2>2, SetStatusRows
  <2>4. TypeOK'
    BY <1>13, <2>3 DEF TypeInv, TypeOK, CommitFailure, WorkerStep, WorkerPC
  <2>5. RowsBehind'
    BY <1>13, <2>3 DEF TypeInv, TypeOK, RowsBehind, CommitFailure, WorkerStep,
                       Live, Queues
  <2> QED
    BY <2>4, <2>5 DEF TypeInv
<1>14. ASSUME NEW w \in Workers, Acknowledge(w) PROVE TypeInv'
  <2>1. TypeOK'
    BY <1>14 DEF TypeInv, TypeOK, Acknowledge, IdleWorker, WorkerPC, Status, Queues
  <2>2. RowsBehind'
    BY <1>14 DEF TypeInv, TypeOK, RowsBehind, Acknowledge, IdleWorker, Exists,
                 Live, Queues
  <2> QED
    BY <2>1, <2>2 DEF TypeInv
<1>15. ASSUME NEW w \in Workers, RunCutOff(w) PROVE TypeInv'
  <2>1. worker[w].job \in Jobs
    BY <1>15 DEF RunCutOff, TypeInv, RowsBehind, Live
  <2>2. TypeOK'
    BY <1>15, <2>1 DEF TypeInv, TypeOK, RunCutOff, WorkerPC
  <2>3. RowsBehind'
    BY <1>15 DEF TypeInv, TypeOK, RowsBehind, RunCutOff, Exists, Live, Queues
  <2> QED
    BY <2>2, <2>3 DEF TypeInv
<1>16. ASSUME NEW w \in Workers, WorkerDies(w) PROVE TypeInv'
  <2>1. TypeOK'
    BY <1>16 DEF TypeInv, TypeOK, WorkerDies, IdleWorker, WorkerPC, Status
  <2>2. RowsBehind'
    BY <1>16 DEF TypeInv, TypeOK, RowsBehind, WorkerDies, IdleWorker, Exists,
                 Live, Queues
  <2> QED
    BY <2>1, <2>2 DEF TypeInv
<1>17. CASE UNCHANGED vars
  BY <1>17 DEF vars, TypeInv, TypeOK, RowsBehind, Exists, Live
<1> QED
  BY <1>1, <1>2, <1>3, <1>4, <1>5, <1>6, <1>7, <1>8, <1>9, <1>10, <1>11, <1>12,
     <1>13, <1>14, <1>15, <1>16, <1>17 DEF Next, Create, RunStep

-----------------------------------------------------------------------------
(* Only delivery, acknowledgement and death change who works on what. *)
LEMMA WorkersKeep ==
  ASSUME TypeInv,
         \/ \E j \in Jobs : Create(j) \/ GiveUp(j)
         \/ \E k \in Cancels : CancelWrite(k) \/ \E j \in Jobs : CancelRead(k, j)
         \/ \E w \in Workers :
              \/ LoadJob(w) \/ MarkRunning(w) \/ RunCoordinator(w)
              \/ RunRaises(w) \/ CommitOutcome(w) \/ CommitFailure(w)
              \/ RunCutOff(w)
         \/ UNCHANGED vars
  PROVE  \A v \in Workers :
           worker'[v].job = worker[v].job /\ (Live(v)' <=> Live(v))
<1> USE DEF TypeInv, TypeOK, Live
<1>1. ASSUME NEW j \in Jobs, Create(j) \/ GiveUp(j) PROVE worker' = worker
  BY <1>1 DEF Create, CreateJob, EnqueueJob, MarkQueued, CreateCutShort, GiveUp
<1>2. ASSUME NEW k \in Cancels,
             CancelWrite(k) \/ \E j \in Jobs : CancelRead(k, j)
      PROVE  worker' = worker
  BY <1>2 DEF CancelWrite, CancelRead
<1>3. ASSUME NEW w \in Workers, LoadJob(w)
      PROVE  \A v \in Workers :
               worker'[v].job = worker[v].job /\ (Live(v)' <=> Live(v))
  BY <1>3 DEF LoadJob
<1>4. ASSUME NEW w \in Workers, RunCoordinator(w)
      PROVE  \A v \in Workers :
               worker'[v].job = worker[v].job /\ (Live(v)' <=> Live(v))
  BY <1>4 DEF RunCoordinator
<1>5. ASSUME NEW w \in Workers, MarkRunning(w) \/ RunRaises(w)
      PROVE  \A v \in Workers :
               worker'[v].job = worker[v].job /\ (Live(v)' <=> Live(v))
  BY <1>5 DEF MarkRunning, RunRaises, WorkerStep
<1>6. ASSUME NEW w \in Workers, CommitOutcome(w) \/ CommitFailure(w)
      PROVE  \A v \in Workers :
               worker'[v].job = worker[v].job /\ (Live(v)' <=> Live(v))
  BY <1>6 DEF CommitOutcome, CommitFailure, WorkerStep
<1>7. ASSUME NEW w \in Workers, RunCutOff(w)
      PROVE  \A v \in Workers :
               worker'[v].job = worker[v].job /\ (Live(v)' <=> Live(v))
  BY <1>7 DEF RunCutOff
<1>8. CASE UNCHANGED vars
  BY <1>8 DEF vars
<1> QED
  BY <1>1, <1>2, <1>3, <1>4, <1>5, <1>6, <1>7, <1>8

(* Only acknowledgement and giving up take a message from its queue. *)
LEMMA QueueKeeps ==
  ASSUME TypeInv, [Next]_vars,
         ~ \E w \in Workers : Acknowledge(w),
         ~ \E j \in Jobs : GiveUp(j)
  PROVE  queue[WorkerQueue] \subseteq queue'[WorkerQueue]
<1> USE DEF TypeInv, TypeOK, Queues
<1>1. ASSUME NEW j \in Jobs, EnqueueJob(j)
      PROVE  queue[WorkerQueue] \subseteq queue'[WorkerQueue]
  BY <1>1 DEF EnqueueJob
<1>2. (\E j \in Jobs : EnqueueJob(j)) \/ queue' = queue
  BY DEF Next, Create, RunStep, vars, CreateJob, MarkQueued, CreateCutShort,
         CancelRead, CancelWrite, Deliver, WorkerDies, LoadJob, MarkRunning,
         RunCoordinator, RunRaises, CommitOutcome, CommitFailure, RunCutOff
<1> QED
  BY <1>1, <1>2

LEMMA NextExclusive == TypeInv /\ Exclusive /\ [Next]_vars => Exclusive'
<1> SUFFICES ASSUME TypeInv, Exclusive, [Next]_vars PROVE Exclusive'
  OBVIOUS
<1>1. ASSUME NEW w \in Workers, NEW j \in Jobs, Deliver(w, j) PROVE Exclusive'
  <2>1. /\ \A v \in Workers \ {w} : worker'[v] = worker[v]
        /\ worker'[w].job = j
        /\ queue' = queue /\ j \in queue[WorkerQueue]
        /\ \A v \in Workers : Live(v) => worker[v].job # j
    BY <1>1 DEF Deliver, TypeInv, TypeOK, IdleWorker, Held
  <2> QED
    BY <2>1 DEF Exclusive, Live
<1>2. ASSUME NEW w \in Workers, Acknowledge(w) PROVE Exclusive'
  <2>1. /\ \A v \in Workers \ {w} : worker'[v] = worker[v]
        /\ worker'[w].pc = "idle" /\ Live(w)
    BY <1>2 DEF Acknowledge, TypeInv, TypeOK, IdleWorker, Live
  <2>2. queue'[WorkerQueue] = queue[WorkerQueue] \ {worker[w].job}
    BY <1>2 DEF Acknowledge, TypeInv, TypeOK, Queues
  <2> QED
    BY <2>1, <2>2 DEF Exclusive, Live
<1>3. ASSUME NEW w \in Workers, WorkerDies(w) PROVE Exclusive'
  <2>1. /\ \A v \in Workers \ {w} : worker'[v] = worker[v]
        /\ worker'[w].pc = "idle" /\ queue' = queue
    BY <1>3 DEF WorkerDies, TypeInv, TypeOK, IdleWorker
  <2> QED
    BY <2>1 DEF Exclusive, Live
<1>4. ASSUME NEW j \in Jobs, GiveUp(j) PROVE Exclusive'
  <2>1. /\ worker' = worker
        /\ queue'[WorkerQueue] = queue[WorkerQueue] \ {j}
        /\ \A v \in Workers : Live(v) => worker[v].job # j
    BY <1>4 DEF GiveUp, TypeInv, TypeOK, Queues, Held
  <2> QED
    BY <2>1 DEF Exclusive, Live
<1>5. CASE /\ ~ \E w \in Workers : Acknowledge(w)
           /\ ~ \E j \in Jobs : GiveUp(j)
           /\ \A v \in Workers :
                worker'[v].job = worker[v].job /\ (Live(v)' <=> Live(v))
  BY <1>5, QueueKeeps DEF Exclusive
<1> QED
  BY <1>1, <1>2, <1>3, <1>4, <1>5, WorkersKeep DEF Next, RunStep

-----------------------------------------------------------------------------
(* A job that says RUNNING said so before, or a worker that holds it has   *)
(* just written it.                                                        *)
LEMMA RunningFrom ==
  ASSUME TypeInv, [Next]_vars, NEW j \in Jobs,
         Exists(j)', row'[j].status = "RUNNING"
  PROVE  \/ Exists(j) /\ row[j].status = "RUNNING"
         \/ \E w \in Workers : MarkRunning(w) /\ worker[w].job = j
<1>1. ASSUME NEW i \in Jobs, Exists(i), NEW s \in Status \ {"RUNNING"},
             SetStatus(i, s)
      PROVE  Exists(j) /\ row[j].status = "RUNNING"
  <2>1. /\ Exists(j)' <=> Exists(j)
        /\ row'[i].status = s
        /\ \A k \in Jobs \ {i} : row'[k] = row[k]
    BY <1>1, SetStatusRows
  <2> QED
    BY <1>1, <2>1
<1>2. ASSUME NEW i \in Jobs, CreateJob(i)
      PROVE  Exists(j) /\ row[j].status = "RUNNING"
  BY <1>2, NoRowAssumption DEF CreateJob, TypeInv, TypeOK, Exists
<1>3. ASSUME NEW i \in Jobs, MarkQueued(i)
      PROVE  Exists(j) /\ row[j].status = "RUNNING"
  BY <1>1, <1>3 DEF MarkQueued, TypeInv, RowsBehind, Status
<1>4. ASSUME NEW k \in Cancels, CancelWrite(k)
      PROVE  Exists(j) /\ row[j].status = "RUNNING"
  <2>1. cancel[k].job \in Jobs /\ Exists(cancel[k].job)
    BY <1>4 DEF CancelWrite, TypeInv, RowsBehind
  <2> QED
    BY <1>1, <1>4, <2>1 DEF CancelWrite, Status
<1>5. ASSUME NEW w \in Workers, CommitFailure(w)
      PROVE  Exists(j) /\ row[j].status = "RUNNING"
  <2>1. worker[w].job \in Jobs /\ Exists(worker[w].job)
    BY <1>5 DEF CommitFailure, WorkerStep, TypeInv, RowsBehind, Live
  <2> QED
    BY <1>1, <1>5, <2>1 DEF CommitFailure, Status
<1>6. ASSUME NEW w \in Workers, CommitOutcome(w)
      PROVE  Exists(j) /\ row[j].status = "RUNNING"
  <2> DEFINE i == worker[w].job
             r == [status |-> "COMPLETED", findings |-> worker[w].found]
  <2>1. i \in Jobs
    BY <1>6 DEF CommitOutcome, WorkerStep, TypeInv, RowsBehind, Live
  <2>2. row' = [row EXCEPT ![i] = r]
    BY <1>6 DEF CommitOutcome
  <2>3. i # j
    BY <2>1, <2>2 DEF TypeInv, TypeOK
  <2> QED
    BY <2>1, <2>2, <2>3 DEF TypeInv, TypeOK, Exists
<1>7. ASSUME NEW w \in Workers, MarkRunning(w)
      PROVE  \/ Exists(j) /\ row[j].status = "RUNNING"
             \/ MarkRunning(w) /\ worker[w].job = j
  <2> DEFINE i == worker[w].job
  <2>1. i \in Jobs /\ Exists(i)
    BY <1>7 DEF MarkRunning, WorkerStep, TypeInv, RowsBehind, Live
  <2>2. UNCHANGED row \/ SetStatus(i, "RUNNING")
    BY <1>7 DEF MarkRunning
  <2>3. CASE UNCHANGED row
    BY <2>3 DEF Exists
  <2>4. CASE SetStatus(i, "RUNNING") /\ i # j
    <3>1. /\ Exists(j)' <=> Exists(j)
          /\ \A k \in Jobs \ {i} : row'[k] = row[k]
      BY <2>1, <2>4, SetStatusRows DEF Status
    <3> QED
      BY <2>4, <3>1
  <2> QED
    BY <1>7, <2>2, <2>3, <2>4
<1>8. CASE UNCHANGED row
  BY <1>8 DEF Exists
<1>9. \/ UNCHANGED row
      \/ \E i \in Jobs : CreateJob(i) \/ MarkQueued(i)
      \/ \E k \in Cancels : CancelWrite(k)
      \/ \E w \in Workers : MarkRunning(w) \/ CommitOutcome(w) \/ CommitFailure(w)
  BY DEF Next, Create, RunStep, vars, EnqueueJob, CreateCutShort, GiveUp,
         CancelRead, Deliver, Acknowledge, WorkerDies, LoadJob, RunCoordinator,
         RunRaises, RunCutOff
<1> QED
  BY <1>2, <1>3, <1>4, <1>5, <1>6, <1>7, <1>8, <1>9

LEMMA CutOffGrows == TypeInv /\ [Next]_vars => cutOff \subseteq cutOff'
BY DEF Next, Create, RunStep, vars, CreateJob, EnqueueJob, MarkQueued,
       CreateCutShort, GiveUp, CancelRead, CancelWrite, Deliver, Acknowledge,
       WorkerDies, LoadJob, MarkRunning, RunCoordinator, RunRaises,
       CommitOutcome, CommitFailure, RunCutOff

(* A worker whose run has returned had returned before, or has just        *)
(* committed an outcome, or was cut off.                                   *)
LEMMA ReturnedFrom ==
  ASSUME TypeInv, [Next]_vars, NEW w \in Workers, worker'[w].pc = "returned"
  PROVE  /\ worker'[w].job = worker[w].job
         /\ \/ worker[w].pc = "returned"
            \/ CommitOutcome(w) \/ CommitFailure(w) \/ RunCutOff(w)
<1> USE DEF TypeInv, TypeOK
<1>1. ASSUME NEW v \in Workers, LoadJob(v)
      PROVE  worker'[w].job = worker[w].job /\ worker[w].pc = "returned"
  <2>1. row[worker[v].job] # NoRow
    BY <1>1 DEF LoadJob, RowsBehind, Live, Exists
  <2> QED
    BY <1>1, <2>1 DEF LoadJob
<1>2. ASSUME NEW v \in Workers, NEW j \in Jobs, Deliver(v, j)
      PROVE  worker'[w].job = worker[w].job /\ worker[w].pc = "returned"
  BY <1>2 DEF Deliver, IdleWorker
<1>3. ASSUME NEW v \in Workers, Acknowledge(v) \/ WorkerDies(v)
      PROVE  worker'[w].job = worker[w].job /\ worker[w].pc = "returned"
  BY <1>3 DEF Acknowledge, WorkerDies, IdleWorker
<1>4. ASSUME NEW v \in Workers, RunCoordinator(v)
      PROVE  worker'[w].job = worker[w].job /\ worker[w].pc = "returned"
  BY <1>4 DEF RunCoordinator
<1>5. ASSUME NEW v \in Workers, MarkRunning(v) \/ RunRaises(v)
      PROVE  worker'[w].job = worker[w].job /\ worker[w].pc = "returned"
  BY <1>5 DEF MarkRunning, RunRaises, WorkerStep
<1>6. ASSUME NEW v \in Workers,
             CommitOutcome(v) \/ CommitFailure(v) \/ RunCutOff(v)
      PROVE  /\ worker'[w].job = worker[w].job
             /\ worker[w].pc = "returned" \/ v = w
  BY <1>6 DEF CommitOutcome, CommitFailure, RunCutOff, WorkerStep
<1>7. CASE UNCHANGED worker
  BY <1>7
<1>8. \/ UNCHANGED worker
      \/ \E v \in Workers :
           \/ LoadJob(v) \/ Acknowledge(v) \/ WorkerDies(v) \/ RunCoordinator(v)
           \/ MarkRunning(v) \/ RunRaises(v)
           \/ CommitOutcome(v) \/ CommitFailure(v) \/ RunCutOff(v)
           \/ \E j \in Jobs : Deliver(v, j)
  BY DEF Next, Create, RunStep, vars, CreateJob, EnqueueJob, MarkQueued,
         CreateCutShort, GiveUp, CancelRead, CancelWrite
<1> QED
  BY <1>1, <1>2, <1>3, <1>4, <1>5, <1>6, <1>7, <1>8

(* The commit of an outcome leaves no RUNNING behind. *)
LEMMA OutcomeWritten ==
  ASSUME TypeInv, NEW w \in Workers, CommitOutcome(w) \/ CommitFailure(w)
  PROVE  row'[worker[w].job].status # "RUNNING"
<1> DEFINE j == worker[w].job
<1>1. j \in Jobs /\ Exists(j)
  BY DEF CommitOutcome, CommitFailure, WorkerStep, TypeInv, RowsBehind, Live
<1>2. CASE CommitOutcome(w)
  BY <1>1, <1>2 DEF CommitOutcome, TypeInv, TypeOK
<1>3. CASE CommitFailure(w)
  BY <1>1, <1>3, SetStatusRows DEF CommitFailure, Status
<1> QED
  BY <1>2, <1>3

LEMMA NextReturned ==
  TypeInv /\ Exclusive /\ ReturnedSettled /\ [Next]_vars => ReturnedSettled'
<1> SUFFICES ASSUME TypeInv, Exclusive, ReturnedSettled, [Next]_vars,
                    NEW w \in Workers, worker'[w].pc = "returned"
             PROVE  \/ row'[worker'[w].job].status # "RUNNING"
                    \/ worker'[w].job \in cutOff'
  BY DEF ReturnedSettled
<1>1. worker'[w].job \in Jobs /\ worker'[w].job = worker[w].job
  BY NextTypeInv, ReturnedFrom DEF TypeInv, RowsBehind, Live
<1>2. PICK j \in Jobs : j = worker[w].job /\ j = worker'[w].job
  BY <1>1
<1>3. Exists(j)'
  <2>1. RowsBehind'
    BY NextTypeInv DEF TypeInv
  <2>2. Live(w)'
    BY DEF Live
  <2> QED
    BY <1>2, <2>1, <2>2 DEF RowsBehind, Exists
<1>4. cutOff \subseteq cutOff'
  BY CutOffGrows
<1>5. CASE worker[w].pc = "returned"
  <2>1. row[j].status # "RUNNING" \/ j \in cutOff
    BY <1>2, <1>5 DEF ReturnedSettled
  <2>2. ASSUME NEW v \in Workers, MarkRunning(v), worker[v].job = j PROVE FALSE
    <3>1. Live(v) /\ Live(w) /\ worker[v].pc # worker[w].pc
      BY <1>5, <2>2 DEF MarkRunning, WorkerStep, Live
    <3> QED
      BY <1>2, <2>2, <3>1 DEF Exclusive
  <2> QED
    BY <1>2, <1>4, <1>3, <2>1, <2>2, RunningFrom
<1>6. CASE CommitOutcome(w) \/ CommitFailure(w)
  BY <1>2, <1>6, OutcomeWritten
<1>7. CASE RunCutOff(w)
  BY <1>2, <1>7 DEF RunCutOff
<1> QED
  BY <1>5, <1>6, <1>7, ReturnedFrom

LEMMA NextSettled == RunInv /\ [Next]_vars => Settled'
<1> SUFFICES ASSUME RunInv, [Next]_vars,
                    NEW j \in Jobs, Exists(j)', row'[j].status = "RUNNING"
             PROVE  j \in queue'[WorkerQueue] \/ j \in cutOff'
  BY DEF Settled
<1> USE DEF RunInv
<1>1. cutOff \subseteq cutOff'
  BY CutOffGrows
<1>2. ASSUME NEW w \in Workers, MarkRunning(w), worker[w].job = j
      PROVE  j \in queue'[WorkerQueue]
  BY <1>2 DEF MarkRunning, WorkerStep, Exclusive, Live
<1>3. ASSUME Exists(j), row[j].status = "RUNNING"
      PROVE  j \in queue'[WorkerQueue] \/ j \in cutOff'
  <2>1. j \in queue[WorkerQueue] \/ j \in cutOff
    BY <1>3 DEF Settled
  <2>2. ASSUME NEW w \in Workers, Acknowledge(w)
        PROVE  j \in queue'[WorkerQueue] \/ j \in cutOff'
    <3>1. queue'[WorkerQueue] = queue[WorkerQueue] \ {worker[w].job}
      BY <2>2 DEF Acknowledge, TypeInv, TypeOK, Queues
    <3>2. worker[w].job = j => j \in cutOff
      BY <1>3, <2>2 DEF Acknowledge, ReturnedSettled
    <3> QED
      BY <1>1, <2>1, <3>1, <3>2
  <2>3. ASSUME NEW i \in Jobs, GiveUp(i)
        PROVE  j \in queue'[WorkerQueue] \/ j \in cutOff'
    <3>1. /\ queue'[WorkerQueue] = queue[WorkerQueue] \ {i}
          /\ cutOff' = cutOff \cup {i}
      BY <2>3 DEF GiveUp, TypeInv, TypeOK, Queues
    <3> QED
      BY <2>1, <3>1
  <2> QED
    BY <1>1, <2>1, <2>2, <2>3, QueueKeeps
<1> QED
  BY <1>2, <1>3, RunningFrom

THEOREM RunInvHolds == Spec => []RunInv
<1>1. RunInv /\ [Next]_vars => RunInv'
  BY NextTypeInv, NextExclusive, NextReturned, NextSettled DEF RunInv
<1> QED
  BY <1>1, InitRunInv, PTL DEF Spec

(* Every variable keeps its type. *)
THEOREM TypeCorrect == Spec => []TypeOK
<1>1. RunInv => TypeOK
  BY DEF RunInv, TypeInv
<1> QED
  BY <1>1, RunInvHolds, PTL

(* No message, and no run of one, is about a job without a row. *)
THEOREM RowsBehindMessages == Spec => []MessagesHaveRows
<1>1. RunInv => MessagesHaveRows
  BY DEF RunInv, TypeInv, RowsBehind, MessagesHaveRows, Held
<1> QED
  BY <1>1, RunInvHolds, PTL

(* A job is left RUNNING for ever only by a run that was cut off, or by    *)
(* tries that ran out.                                                     *)
THEOREM StrandedOnlyAfterCutOff == Spec => []StrandedOnlyByCutOff
<1>1. RunInv => StrandedOnlyByCutOff
  BY DEF RunInv, Settled, StrandedOnlyByCutOff
<1> QED
  BY <1>1, RunInvHolds, PTL

-----------------------------------------------------------------------------
(* A new status leaves every count as it was. *)
LEMMA SetStatusCounts ==
  ASSUME TypeInv, NEW j \in Jobs, Exists(j), NEW s \in Status, SetStatus(j, s)
  PROVE  \A i \in Jobs : Exists(i)' => Exists(i) /\ row'[i].findings = row[i].findings
<1>1. row[j] \in JobRow
  BY DEF TypeInv, TypeOK, Exists
<1>2. row'[j] = [row[j] EXCEPT !.status = s]
  BY DEF SetStatus, TypeInv, TypeOK
<1>3. row'[j].findings = row[j].findings
  BY <1>1, <1>2 DEF JobRow
<1> QED
  BY <1>3, SetStatusRows DEF Exists

(* A count is new, is kept with its evidence, or is set by an outcome      *)
(* commit.                                                                 *)
LEMMA CountFrom ==
  ASSUME TypeInv, [Next]_vars, NEW j \in Jobs, Exists(j)'
  PROVE  \/ /\ Exists(j)
            /\ row'[j].findings = row[j].findings
            /\ evidence'[j] = evidence[j]
         \/ CreateJob(j) /\ row'[j].findings = 0 /\ evidence'[j] = evidence[j]
         \/ \E w \in Workers :
              /\ CommitOutcome(w) /\ worker[w].job = j
              /\ row'[j].findings = worker[w].found
              /\ evidence'[j] = evidence[j] + worker[w].found
<1> DEFINE Kept == /\ Exists(j)
                   /\ row'[j].findings = row[j].findings
                   /\ evidence'[j] = evidence[j]
<1>1. ASSUME NEW i \in Jobs, CreateJob(i)
      PROVE  \/ Kept
             \/ CreateJob(j) /\ row'[j].findings = 0 /\ evidence'[j] = evidence[j]
  BY <1>1 DEF CreateJob, TypeInv, TypeOK, Exists
<1>2. ASSUME NEW i \in Jobs, MarkQueued(i) PROVE Kept
  BY <1>2, SetStatusCounts DEF MarkQueued, TypeInv, RowsBehind, Status
<1>3. ASSUME NEW k \in Cancels, CancelWrite(k) PROVE Kept
  <2>1. cancel[k].job \in Jobs /\ Exists(cancel[k].job) /\ "CANCELLED" \in Status
    BY <1>3 DEF CancelWrite, TypeInv, RowsBehind, Status
  <2> QED
    BY <1>3, <2>1, SetStatusCounts DEF CancelWrite
<1>4. ASSUME NEW w \in Workers, CommitFailure(w) \/ MarkRunning(w) PROVE Kept
  <2>1. /\ worker[w].job \in Jobs /\ Exists(worker[w].job)
        /\ "FAILED" \in Status /\ "RUNNING" \in Status
    BY <1>4 DEF CommitFailure, MarkRunning, WorkerStep, TypeInv, RowsBehind, Live, Status
  <2>2. CASE CommitFailure(w)
    BY <2>1, <2>2, SetStatusCounts DEF CommitFailure
  <2>3. CASE MarkRunning(w) /\ SetStatus(worker[w].job, "RUNNING")
    BY <2>1, <2>3, SetStatusCounts DEF MarkRunning
  <2>4. CASE MarkRunning(w) /\ UNCHANGED row
    BY <2>4 DEF MarkRunning, Exists
  <2> QED
    BY <1>4, <2>2, <2>3, <2>4 DEF MarkRunning
<1>5. ASSUME NEW w \in Workers, CommitOutcome(w)
      PROVE  \/ Kept
             \/ /\ worker[w].job = j
                /\ row'[j].findings = worker[w].found
                /\ evidence'[j] = evidence[j] + worker[w].found
  <2>1. worker[w].job \in Jobs
    BY <1>5 DEF CommitOutcome, WorkerStep, TypeInv, RowsBehind, Live
  <2> QED
    BY <1>5, <2>1 DEF CommitOutcome, TypeInv, TypeOK, Exists
<1>6. CASE UNCHANGED <<row, evidence>>
  BY <1>6 DEF Exists
<1>7. \/ UNCHANGED <<row, evidence>>
      \/ \E i \in Jobs : CreateJob(i) \/ MarkQueued(i)
      \/ \E k \in Cancels : CancelWrite(k)
      \/ \E w \in Workers : MarkRunning(w) \/ CommitOutcome(w) \/ CommitFailure(w)
  BY DEF Next, Create, RunStep, vars, EnqueueJob, CreateCutShort, GiveUp,
         CancelRead, Deliver, Acknowledge, WorkerDies, LoadJob, RunCoordinator,
         RunRaises, RunCutOff
<1> QED
  BY <1>1, <1>2, <1>3, <1>4, <1>5, <1>6, <1>7

(* findings_count never promises more than the evidence that was saved. *)
THEOREM CountsAreBacked == Spec => []CountBacked
<1>1. Init => CountBacked
  BY DEF Init, CountBacked, Exists
<1>2. RunInv /\ CountBacked /\ [Next]_vars => CountBacked'
  <2> SUFFICES ASSUME TypeInv, CountBacked, [Next]_vars, NEW j \in Jobs, Exists(j)'
               PROVE  row'[j].findings <= evidence'[j]
    BY DEF CountBacked, RunInv
  <2>1. evidence[j] \in Nat /\ \A w \in Workers : worker[w].found \in Nat
    BY ConstantsAssumption DEF TypeInv, TypeOK
  <2> QED
    BY <2>1, CountFrom DEF CountBacked
<1> QED
  BY <1>1, <1>2, RunInvHolds, PTL DEF Spec

-----------------------------------------------------------------------------
(* While no worker has died, every run is the first of its job.            *)
EnqueuedOnce ==
  \A j \in Jobs :
    creator[j] \in {"idle", "committed"} =>
      tries[j] = 0 /\ \A q \in Queues : j \notin queue[q]

StartedOnce ==
  /\ \A w \in Workers : Live(w) => tries[worker[w].job] > 0
  /\ \A j \in Jobs : tries[j] = 0 => evidence[j] = 0

FirstRuns ==
  /\ \A w \in Workers :
       Live(w) /\ worker[w].pc # "returned" => evidence[worker[w].job] = 0
  /\ \A j \in queue[WorkerQueue] : Held(j) \/ tries[j] = 0

CountExact == \A j \in Jobs : Exists(j) => row[j].findings = evidence[j]

ExactInv ==
  /\ EnqueuedOnce
  /\ StartedOnce
  /\ crashes = 0 => FirstRuns /\ CountExact

LEMMA InitExactInv == Init => ExactInv
BY DEF Init, ExactInv, EnqueuedOnce, StartedOnce, FirstRuns, CountExact, Queues,
       Live, IdleWorker, Exists

LEMMA NextEnqueuedOnce == RunInv /\ EnqueuedOnce /\ [Next]_vars => EnqueuedOnce'
<1> SUFFICES ASSUME RunInv, EnqueuedOnce, [Next]_vars, NEW j \in Jobs,
                    creator'[j] \in {"idle", "committed"}
             PROVE  tries'[j] = 0 /\ \A q \in Queues : j \notin queue'[q]
  BY DEF EnqueuedOnce, Queues
<1> USE DEF RunInv, TypeInv, TypeOK, Queues
<1>1. ASSUME NEW i \in Jobs, CreateJob(i) \/ MarkQueued(i) \/ CreateCutShort(i)
      PROVE  /\ creator[j] \in {"idle", "committed"}
             /\ tries' = tries /\ queue' = queue
  BY <1>1 DEF CreateJob, MarkQueued, CreateCutShort
<1>2. ASSUME NEW i \in Jobs, EnqueueJob(i)
      PROVE  /\ creator[j] \in {"idle", "committed"}
             /\ tries' = tries /\ \A q \in Queues : queue'[q] \ {i} \subseteq queue[q]
             /\ i # j
  BY <1>2 DEF EnqueueJob
<1>3. ASSUME NEW w \in Workers, NEW i \in Jobs, Deliver(w, i)
      PROVE  /\ creator' = creator /\ queue' = queue /\ i \in queue[WorkerQueue]
             /\ \A k \in Jobs \ {i} : tries'[k] = tries[k]
  BY <1>3 DEF Deliver
<1>4. ASSUME NEW i \in Jobs, GiveUp(i)
      PROVE  /\ creator' = creator /\ tries' = tries
             /\ \A q \in Queues : queue'[q] \subseteq queue[q]
  BY <1>4 DEF GiveUp
<1>5. ASSUME NEW w \in Workers, Acknowledge(w)
      PROVE  /\ creator' = creator /\ tries' = tries
             /\ \A q \in Queues : queue'[q] \subseteq queue[q]
  BY <1>5 DEF Acknowledge
<1>6. \/ UNCHANGED <<creator, tries, queue>>
      \/ \E i \in Jobs : Create(i) \/ GiveUp(i)
      \/ \E w \in Workers : Acknowledge(w) \/ \E i \in Jobs : Deliver(w, i)
  BY DEF Next, RunStep, vars, CancelRead, CancelWrite, WorkerDies, LoadJob,
         MarkRunning, RunCoordinator, RunRaises, CommitOutcome, CommitFailure,
         RunCutOff
<1> QED
  BY <1>1, <1>2, <1>3, <1>4, <1>5, <1>6 DEF Create, EnqueuedOnce

(* What a step does to the evidence, and to the count of tries. *)
LEMMA EvidenceFrom ==
  ASSUME TypeInv, [Next]_vars
  PROVE  \/ evidence' = evidence
         \/ \E w \in Workers :
              /\ CommitOutcome(w) /\ worker[w].job \in Jobs
              /\ \A j \in Jobs \ {worker[w].job} : evidence'[j] = evidence[j]
<1>1. ASSUME NEW w \in Workers, CommitOutcome(w)
      PROVE  /\ worker[w].job \in Jobs
             /\ \A j \in Jobs \ {worker[w].job} : evidence'[j] = evidence[j]
  BY <1>1 DEF CommitOutcome, WorkerStep, TypeInv, TypeOK, RowsBehind, Live
<1> QED
  BY <1>1 DEF Next, Create, RunStep, vars, CreateJob, EnqueueJob, MarkQueued,
     CreateCutShort, GiveUp, CancelRead, CancelWrite, Deliver, Acknowledge,
     WorkerDies, LoadJob, MarkRunning, RunCoordinator, RunRaises, CommitFailure,
     RunCutOff

LEMMA TriesFrom ==
  ASSUME TypeInv, [Next]_vars
  PROVE  \/ tries' = tries
         \/ \E w \in Workers, i \in Jobs :
              /\ Deliver(w, i) /\ tries'[i] > 0
              /\ \A j \in Jobs \ {i} : tries'[j] = tries[j]
<1>1. ASSUME NEW w \in Workers, NEW i \in Jobs, Deliver(w, i)
      PROVE  /\ tries'[i] > 0
             /\ \A j \in Jobs \ {i} : tries'[j] = tries[j]
  BY <1>1, ConstantsAssumption DEF Deliver, TypeInv, TypeOK
<1> QED
  BY <1>1 DEF Next, Create, RunStep, vars, CreateJob, EnqueueJob, MarkQueued,
     CreateCutShort, GiveUp, CancelRead, CancelWrite, Acknowledge, WorkerDies,
     LoadJob, MarkRunning, RunCoordinator, RunRaises, CommitOutcome,
     CommitFailure, RunCutOff

(* A worker that is at work was at work on the same job, or has just been  *)
(* given it.                                                               *)
LEMMA LiveFrom ==
  ASSUME TypeInv, [Next]_vars, NEW w \in Workers, Live(w)'
  PROVE  \/ /\ Live(w) /\ worker'[w].job = worker[w].job
            /\ worker'[w].pc # "returned" => worker[w].pc # "returned"
         \/ /\ worker'[w].job \in Jobs /\ Deliver(w, worker'[w].job)
<1> USE DEF TypeInv, TypeOK, Live
<1>1. ASSUME NEW v \in Workers, NEW j \in Jobs, Deliver(v, j)
      PROVE  worker'[w] = worker[w] \/ (v = w /\ worker'[w].job = j)
  BY <1>1 DEF Deliver, IdleWorker
<1>2. ASSUME NEW v \in Workers, Acknowledge(v) \/ WorkerDies(v)
      PROVE  worker'[w] = worker[w]
  BY <1>2 DEF Acknowledge, WorkerDies, IdleWorker
<1>3. ASSUME NEW v \in Workers, LoadJob(v)
      PROVE  /\ Live(w) /\ worker'[w].job = worker[w].job
             /\ worker'[w].pc # "returned" => worker[w].pc # "returned"
  BY <1>3 DEF LoadJob
<1>4. ASSUME NEW v \in Workers, RunCoordinator(v)
      PROVE  /\ Live(w) /\ worker'[w].job = worker[w].job
             /\ worker'[w].pc # "returned" => worker[w].pc # "returned"
  BY <1>4 DEF RunCoordinator
<1>5. ASSUME NEW v \in Workers,
             MarkRunning(v) \/ RunRaises(v) \/ CommitOutcome(v) \/ CommitFailure(v)
      PROVE  /\ Live(w) /\ worker'[w].job = worker[w].job
             /\ worker'[w].pc # "returned" => worker[w].pc # "returned"
  BY <1>5 DEF MarkRunning, RunRaises, CommitOutcome, CommitFailure, WorkerStep
<1>6. ASSUME NEW v \in Workers, RunCutOff(v)
      PROVE  /\ Live(w) /\ worker'[w].job = worker[w].job
             /\ worker'[w].pc # "returned" => worker[w].pc # "returned"
  BY <1>6 DEF RunCutOff
<1>7. \/ UNCHANGED worker
      \/ \E v \in Workers :
           \/ LoadJob(v) \/ Acknowledge(v) \/ WorkerDies(v) \/ RunCoordinator(v)
           \/ MarkRunning(v) \/ RunRaises(v)
           \/ CommitOutcome(v) \/ CommitFailure(v) \/ RunCutOff(v)
           \/ \E j \in Jobs : Deliver(v, j)
  BY DEF Next, Create, RunStep, vars, CreateJob, EnqueueJob, MarkQueued,
         CreateCutShort, GiveUp, CancelRead, CancelWrite
<1> QED
  BY <1>1, <1>2, <1>3, <1>4, <1>5, <1>6, <1>7

LEMMA NextStartedOnce == RunInv /\ StartedOnce /\ [Next]_vars => StartedOnce'
<1> SUFFICES ASSUME RunInv, StartedOnce, [Next]_vars PROVE StartedOnce'
  OBVIOUS
<1> USE DEF RunInv
<1>1. \A j \in Jobs : tries[j] > 0 => tries'[j] > 0
  BY TriesFrom
<1>2. ASSUME NEW w \in Workers, Live(w)' PROVE tries'[worker'[w].job] > 0
  <2>1. CASE Live(w) /\ worker'[w].job = worker[w].job
    BY <1>1, <2>1 DEF StartedOnce, TypeInv, RowsBehind
  <2>2. ASSUME NEW j \in Jobs, Deliver(w, j), j = worker'[w].job
        PROVE  tries'[j] > 0
    BY <2>2, ConstantsAssumption DEF Deliver, TypeInv, TypeOK
  <2> QED
    BY <1>2, <2>1, <2>2, LiveFrom
<1>3. ASSUME NEW j \in Jobs, tries'[j] = 0 PROVE evidence'[j] = 0
  <2>1. tries[j] = 0 /\ evidence[j] = 0
    BY <1>1, <1>3 DEF StartedOnce, TypeInv, TypeOK
  <2>2. ASSUME NEW w \in Workers, CommitOutcome(w) PROVE worker[w].job # j
    BY <2>1, <2>2 DEF CommitOutcome, WorkerStep, StartedOnce, Live
  <2> QED
    BY <2>1, <2>2, EvidenceFrom
<1> QED
  BY <1>2, <1>3 DEF StartedOnce, Live

LEMMA NobodyDied ==
  ASSUME TypeInv, [Next]_vars, crashes' = 0
  PROVE  /\ ~ \E w \in Workers : WorkerDies(w)
         /\ crashes = 0
<1>1. ASSUME NEW w \in Workers, WorkerDies(w) PROVE FALSE
  BY <1>1, ConstantsAssumption DEF WorkerDies, TypeInv, TypeOK
<1> QED
  BY <1>1 DEF Next, Create, RunStep, vars, CreateJob, EnqueueJob, MarkQueued,
     CreateCutShort, GiveUp, CancelRead, CancelWrite, Deliver, Acknowledge,
     LoadJob, MarkRunning, RunCoordinator, RunRaises, CommitOutcome,
     CommitFailure, RunCutOff

LEMMA NextFirstRuns ==
  RunInv /\ ExactInv /\ [Next]_vars /\ crashes' = 0 => FirstRuns'
<1> SUFFICES ASSUME RunInv, ExactInv, [Next]_vars, crashes' = 0 PROVE FirstRuns'
  OBVIOUS
<1> USE DEF RunInv, ExactInv
<1>1. /\ ~ \E w \in Workers : WorkerDies(w)
      /\ crashes = 0
  BY NobodyDied
<1>2. FirstRuns
  BY <1>1
<1>3. ASSUME NEW w \in Workers, Live(w)', worker'[w].pc # "returned"
      PROVE  evidence'[worker'[w].job] = 0
  <2>1. CASE /\ Live(w) /\ worker'[w].job = worker[w].job
             /\ worker[w].pc # "returned"
    <3>1. worker[w].job \in Jobs /\ evidence[worker[w].job] = 0
      BY <1>2, <2>1 DEF FirstRuns, TypeInv, RowsBehind
    <3>2. ASSUME NEW v \in Workers, CommitOutcome(v), worker[v].job = worker[w].job
          PROVE  FALSE
      <4>1. v = w
        BY <2>1, <3>2 DEF CommitOutcome, WorkerStep, Exclusive, Live
      <4> QED
        BY <1>3, <4>1, <3>2 DEF CommitOutcome, WorkerStep, TypeInv, TypeOK
    <3> QED
      BY <2>1, <3>1, <3>2, EvidenceFrom
  <2>2. ASSUME NEW j \in Jobs, Deliver(w, j), j = worker'[w].job
        PROVE  evidence'[j] = 0
    BY <1>2, <2>2 DEF Deliver, FirstRuns, StartedOnce
  <2> QED
    BY <1>3, <2>1, <2>2, LiveFrom
<1>4. ASSUME NEW j \in queue'[WorkerQueue] PROVE Held(j)' \/ tries'[j] = 0
  <2>1. ASSUME NEW w \in Workers, NEW i \in Jobs, Deliver(w, i)
        PROVE  Held(j)' \/ tries'[j] = 0
    <3>1. /\ worker'[w].pc = "delivered" /\ worker'[w].job = i
          /\ \A v \in Workers \ {w} : worker'[v] = worker[v]
          /\ ~Live(w) /\ queue' = queue
          /\ tries' = [tries EXCEPT ![i] = @ + 1]
      BY <2>1 DEF Deliver, IdleWorker, TypeInv, TypeOK
    <3>2. CASE j = i
      BY <3>1, <3>2 DEF Held, Live
    <3>3. CASE j # i /\ tries[j] = 0
      BY <3>1, <3>3 DEF TypeInv, TypeOK
    <3>4. CASE Held(j)
      BY <3>1, <3>4 DEF Held, Live
    <3> QED
      BY <1>2, <1>4, <3>1, <3>2, <3>3, <3>4 DEF FirstRuns
  <2>2. ASSUME NEW w \in Workers, Acknowledge(w)
        PROVE  Held(j)' \/ tries'[j] = 0
    <3>1. /\ queue'[WorkerQueue] = queue[WorkerQueue] \ {worker[w].job}
          /\ \A v \in Workers \ {w} : worker'[v] = worker[v]
          /\ tries' = tries
      BY <2>2 DEF Acknowledge, TypeInv, TypeOK, Queues
    <3> QED
      BY <1>2, <1>4, <3>1 DEF FirstRuns, Held, Live
  <2>3. ASSUME NEW i \in Jobs, GiveUp(i)
        PROVE  Held(j)' \/ tries'[j] = 0
    <3>1. /\ queue'[WorkerQueue] \subseteq queue[WorkerQueue]
          /\ worker' = worker /\ tries' = tries
      BY <2>3 DEF GiveUp, TypeInv, TypeOK, Queues
    <3> QED
      BY <1>2, <1>4, <3>1 DEF FirstRuns, Held, Live
  <2>4. ASSUME NEW i \in Jobs, EnqueueJob(i)
        PROVE  Held(j)' \/ tries'[j] = 0
    <3>1. /\ queue'[WorkerQueue] \subseteq queue[WorkerQueue] \cup {i}
          /\ worker' = worker /\ tries' = tries /\ tries[i] = 0
      BY <2>4 DEF EnqueueJob, EnqueuedOnce, TypeInv, TypeOK, Queues
    <3> QED
      BY <1>2, <1>4, <3>1 DEF FirstRuns, Held, Live
  <2>5. CASE /\ queue' = queue /\ tries' = tries
             /\ \A v \in Workers :
                  worker'[v].job = worker[v].job /\ (Live(v)' <=> Live(v))
    BY <1>2, <1>4, <2>5 DEF FirstRuns, Held
  <2>6. \/ \E w \in Workers : Acknowledge(w) \/ \E i \in Jobs : Deliver(w, i)
        \/ \E i \in Jobs : GiveUp(i) \/ EnqueueJob(i)
        \/ queue' = queue /\ tries' = tries
    BY <1>1 DEF Next, Create, RunStep, vars, CreateJob, MarkQueued,
       CreateCutShort, CancelRead, CancelWrite, LoadJob, MarkRunning,
       RunCoordinator, RunRaises, CommitOutcome, CommitFailure, RunCutOff
  <2> QED
    BY <1>1, <2>1, <2>2, <2>3, <2>4, <2>5, <2>6, WorkersKeep DEF Next, RunStep
<1> QED
  BY <1>3, <1>4 DEF FirstRuns, Live

LEMMA NextCountExact ==
  RunInv /\ ExactInv /\ [Next]_vars /\ crashes = 0 => CountExact'
<1> SUFFICES ASSUME RunInv, ExactInv, [Next]_vars, crashes = 0,
                    NEW j \in Jobs, Exists(j)'
             PROVE  row'[j].findings = evidence'[j]
  BY DEF CountExact
<1> USE DEF RunInv, ExactInv
<1>1. ASSUME CreateJob(j) PROVE evidence[j] = 0
  BY <1>1 DEF CreateJob, EnqueuedOnce, StartedOnce
<1>2. ASSUME NEW w \in Workers, CommitOutcome(w), worker[w].job = j
      PROVE  evidence[j] = 0
  BY <1>2 DEF CommitOutcome, WorkerStep, FirstRuns, Live
<1>3. evidence[j] \in Nat /\ \A w \in Workers : worker[w].found \in Nat
  BY ConstantsAssumption DEF TypeInv, TypeOK
<1> QED
  BY <1>1, <1>2, <1>3, CountFrom DEF CountExact

(* As long as no worker has died, the count of a job is the evidence that  *)
(* was saved for it: nothing but a redelivery collects twice.              *)
THEOREM CountsAreExact == Spec => []CountExactUnlessWorkerDied
<1>1. RunInv /\ ExactInv /\ [Next]_vars => ExactInv'
  BY NextEnqueuedOnce, NextStartedOnce, NextFirstRuns, NextCountExact,
     NobodyDied DEF ExactInv, RunInv
<1>2. ExactInv => CountExactUnlessWorkerDied
  BY DEF ExactInv, CountExact, CountExactUnlessWorkerDied
<1> QED
  BY <1>1, <1>2, InitExactInv, RunInvHolds, PTL DEF Spec

-----------------------------------------------------------------------------
(* The first run of a job finds no outcome in its row, and a cancel that   *)
(* is about to write found the job cancellable.                            *)
FirstOutcome ==
  /\ \A j \in Jobs : Exists(j) /\ tries[j] = 0 => row[j].status \notin Outcomes
  /\ \A w \in Workers :
       Live(w) /\ worker[w].pc # "returned" /\ tries[worker[w].job] = 1 =>
         row[worker[w].job].status \notin Outcomes

SeenCancellable ==
  \A k \in Cancels : cancel[k].pc = "read" => cancel[k].seen \in Cancellable

OutcomeInv == StartedOnce /\ FirstOutcome /\ SeenCancellable

LEMMA InitOutcomeInv == Init => OutcomeInv
BY InitExactInv
   DEF Init, OutcomeInv, ExactInv, FirstOutcome, SeenCancellable, Live,
       IdleWorker, Exists

(* An outcome was in the row before, or a run of the job has just          *)
(* committed it.                                                           *)
LEMMA OutcomeFrom ==
  ASSUME TypeInv, [Next]_vars, NEW j \in Jobs,
         Exists(j)', row'[j].status \in Outcomes
  PROVE  \/ Exists(j) /\ row[j].status \in Outcomes
         \/ \E w \in Workers :
              (CommitOutcome(w) \/ CommitFailure(w)) /\ worker[w].job = j
<1> DEFINE Before == Exists(j) /\ row[j].status \in Outcomes
<1>1. ASSUME NEW i \in Jobs, Exists(i), NEW s \in Status \ Outcomes, SetStatus(i, s)
      PROVE  Before
  <2>1. /\ Exists(j)' <=> Exists(j)
        /\ row'[i].status = s
        /\ \A k \in Jobs \ {i} : row'[k] = row[k]
    BY <1>1, SetStatusRows
  <2> QED
    BY <1>1, <2>1
<1>2. ASSUME NEW i \in Jobs, CreateJob(i) PROVE Before
  BY <1>2, NoRowAssumption DEF CreateJob, TypeInv, TypeOK, Exists, Outcomes
<1>3. ASSUME NEW i \in Jobs, MarkQueued(i) PROVE Before
  BY <1>1, <1>3 DEF MarkQueued, TypeInv, RowsBehind, Status, Outcomes
<1>4. ASSUME NEW k \in Cancels, CancelWrite(k) PROVE Before
  <2>1. cancel[k].job \in Jobs /\ Exists(cancel[k].job)
    BY <1>4 DEF CancelWrite, TypeInv, RowsBehind
  <2> QED
    BY <1>1, <1>4, <2>1 DEF CancelWrite, Status, Outcomes
<1>5. ASSUME NEW w \in Workers, MarkRunning(w) PROVE Before
  <2>1. worker[w].job \in Jobs /\ Exists(worker[w].job)
    BY <1>5 DEF MarkRunning, WorkerStep, TypeInv, RowsBehind, Live
  <2>2. CASE UNCHANGED row
    BY <2>2 DEF Exists
  <2>3. CASE SetStatus(worker[w].job, "RUNNING")
    BY <1>1, <2>1, <2>3 DEF Status, Outcomes
  <2> QED
    BY <1>5, <2>2, <2>3 DEF MarkRunning
<1>6. ASSUME NEW w \in Workers, CommitOutcome(w) \/ CommitFailure(w),
             worker[w].job # j
      PROVE  Before
  <2>1. worker[w].job \in Jobs /\ Exists(worker[w].job)
    BY <1>6 DEF CommitOutcome, CommitFailure, WorkerStep, TypeInv, RowsBehind, Live
  <2>2. row'[j] = row[j]
    BY <1>6, <2>1, SetStatusRows
       DEF CommitOutcome, CommitFailure, SetStatus, TypeInv, TypeOK
  <2> QED
    BY <2>2 DEF Exists
<1>7. CASE UNCHANGED row
  BY <1>7 DEF Exists
<1>8. \/ UNCHANGED row
      \/ \E i \in Jobs : CreateJob(i) \/ MarkQueued(i)
      \/ \E k \in Cancels : CancelWrite(k)
      \/ \E w \in Workers : MarkRunning(w) \/ CommitOutcome(w) \/ CommitFailure(w)
  BY DEF Next, Create, RunStep, vars, EnqueueJob, CreateCutShort, GiveUp,
         CancelRead, Deliver, Acknowledge, WorkerDies, LoadJob, RunCoordinator,
         RunRaises, RunCutOff
<1> QED
  BY <1>2, <1>3, <1>4, <1>5, <1>6, <1>7, <1>8

LEMMA NextFirstOutcome ==
  RunInv /\ OutcomeInv /\ [Next]_vars => FirstOutcome'
<1> SUFFICES ASSUME RunInv, OutcomeInv, [Next]_vars PROVE FirstOutcome'
  OBVIOUS
<1> USE DEF RunInv, OutcomeInv
<1>1. \A j \in Jobs : tries[j] > 0 => tries'[j] > 0
  BY TriesFrom
<1>2. ASSUME NEW j \in Jobs, Exists(j)', tries'[j] = 0, row'[j].status \in Outcomes
      PROVE  FALSE
  <2>1. tries[j] = 0
    BY <1>1, <1>2 DEF TypeInv, TypeOK
  <2>2. ASSUME NEW w \in Workers, CommitOutcome(w) \/ CommitFailure(w)
        PROVE  worker[w].job # j
    BY <2>1, <2>2 DEF CommitOutcome, CommitFailure, WorkerStep, StartedOnce, Live
  <2> QED
    BY <1>2, <2>1, <2>2, OutcomeFrom DEF FirstOutcome
<1>3. ASSUME NEW w \in Workers, NEW j \in Jobs, j = worker'[w].job,
             Live(w)', worker'[w].pc # "returned", tries'[j] = 1,
             Exists(j)', row'[j].status \in Outcomes
      PROVE  FALSE
  <2>1. CASE /\ Live(w) /\ j = worker[w].job
             /\ worker[w].pc # "returned"
    <3>1. tries[j] = 1
      <4>1. ASSUME NEW v \in Workers, NEW i \in Jobs, Deliver(v, i) PROVE i # j
        BY <2>1, <4>1 DEF Deliver, Held
      <4> QED
        BY <1>3, <4>1, TriesFrom
    <3>2. ASSUME NEW v \in Workers, CommitOutcome(v) \/ CommitFailure(v),
                 worker[v].job = j
          PROVE  FALSE
      <4>1. v = w
        BY <2>1, <3>2 DEF CommitOutcome, CommitFailure, WorkerStep, Exclusive, Live
      <4> QED
        BY <1>3, <4>1, <3>2
           DEF CommitOutcome, CommitFailure, WorkerStep, TypeInv, TypeOK
    <3> QED
      BY <1>3, <2>1, <3>1, <3>2, OutcomeFrom DEF FirstOutcome
  <2>2. CASE Deliver(w, j)
    <3>1. tries[j] = 0 /\ row' = row
      BY <1>3, <2>2 DEF Deliver, TypeInv, TypeOK
    <3> QED
      BY <1>3, <3>1 DEF FirstOutcome, Exists
  <2> QED
    BY <1>3, <2>1, <2>2, LiveFrom
<1>4. ASSUME NEW w \in Workers, Live(w)'
      PROVE  \E j \in Jobs : j = worker'[w].job /\ Exists(j)'
  <2>1. RowsBehind'
    BY NextTypeInv DEF TypeInv
  <2> QED
    BY <1>4, <2>1 DEF RowsBehind, Exists
<1>5. ASSUME NEW w \in Workers, Live(w)', worker'[w].pc # "returned",
             tries'[worker'[w].job] = 1
      PROVE  row'[worker'[w].job].status \notin Outcomes
  <2>1. PICK j \in Jobs : j = worker'[w].job /\ Exists(j)'
    BY <1>4, <1>5
  <2> QED
    BY <1>3, <1>5, <2>1
<1> QED
  BY <1>2, <1>5 DEF FirstOutcome, Live, Exists

LEMMA NextSeenCancellable ==
  RunInv /\ SeenCancellable /\ [Next]_vars => SeenCancellable'
<1> SUFFICES ASSUME TypeInv, SeenCancellable, [Next]_vars PROVE SeenCancellable'
  BY DEF RunInv
<1>1. ASSUME NEW k \in Cancels, NEW j \in Jobs, CancelRead(k, j)
      PROVE  SeenCancellable'
  BY <1>1 DEF CancelRead, SeenCancellable, TypeInv, TypeOK
<1>2. ASSUME NEW k \in Cancels, CancelWrite(k) PROVE SeenCancellable'
  BY <1>2 DEF CancelWrite, SeenCancellable, TypeInv, TypeOK
<1>3. CASE UNCHANGED cancel
  BY <1>3 DEF SeenCancellable
<1> QED
  BY <1>1, <1>2, <1>3 DEF Next, Create, RunStep, vars, CreateJob, EnqueueJob,
     MarkQueued, CreateCutShort, GiveUp, Deliver, Acknowledge, WorkerDies,
     LoadJob, MarkRunning, RunCoordinator, RunRaises, CommitOutcome,
     CommitFailure, RunCutOff

(* An outcome is overwritten only by the late QUEUED, by a cancel that     *)
(* loaded the row before it, or by the run of a redelivered message.       *)
THEOREM OutcomesLostOnlyToStaleWriters == Spec => OutcomeLostOnlyToStaleWriter
<1> DEFINE Stale(j) ==
      \/ creator[j] = "enqueued"
      \/ tries[j] > 1
      \/ \E k \in Cancels : /\ cancel[k].pc = "read" /\ cancel[k].job = j
                            /\ cancel[k].seen \in Cancellable
    Lost == \A j \in Jobs :
      Exists(j) /\ row[j].status \in Outcomes /\ row'[j] # row[j] => Stale(j)
<1>1. RunInv /\ OutcomeInv /\ [Next]_vars => OutcomeInv'
  BY NextStartedOnce, NextFirstOutcome, NextSeenCancellable DEF OutcomeInv
<1>2. RunInv /\ OutcomeInv /\ [Next]_vars => Lost
  <2> SUFFICES ASSUME RunInv, OutcomeInv, [Next]_vars, NEW j \in Jobs, Exists(j),
                      row[j].status \in Outcomes, row'[j] # row[j]
               PROVE  Stale(j)
    OBVIOUS
  <2> USE DEF RunInv, OutcomeInv, TypeInv, TypeOK
  <2>1. ASSUME NEW i \in Jobs, CreateJob(i) PROVE FALSE
    BY <2>1 DEF CreateJob, RowsBehind, Exists
  <2>2. ASSUME NEW i \in Jobs, MarkQueued(i) PROVE Stale(j)
    <3>1. i = j
      BY <2>2 DEF MarkQueued, SetStatus
    <3> QED
      BY <2>2, <3>1 DEF MarkQueued
  <2>3. ASSUME NEW k \in Cancels, CancelWrite(k) PROVE Stale(j)
    <3>1. cancel[k].job = j
      BY <2>3 DEF CancelWrite, SetStatus
    <3> QED
      BY <2>3, <3>1 DEF CancelWrite, SeenCancellable
  <2>4. ASSUME NEW w \in Workers,
               MarkRunning(w) \/ CommitOutcome(w) \/ CommitFailure(w)
        PROVE  Stale(j)
    <3>1. worker[w].job = j
      BY <2>4 DEF MarkRunning, CommitOutcome, CommitFailure, SetStatus
    <3>2. Live(w) /\ worker[w].pc # "returned"
      BY <2>4 DEF MarkRunning, CommitOutcome, CommitFailure, WorkerStep, Live
    <3>3. tries[j] \in Nat /\ tries[j] > 0 /\ tries[j] # 1
      BY <3>1, <3>2 DEF StartedOnce, FirstOutcome
    <3> QED
      BY <3>3
  <2>5. \/ row' = row
        \/ \E i \in Jobs : CreateJob(i) \/ MarkQueued(i)
        \/ \E k \in Cancels : CancelWrite(k)
        \/ \E w \in Workers : MarkRunning(w) \/ CommitOutcome(w) \/ CommitFailure(w)
    BY DEF Next, Create, RunStep, vars, EnqueueJob, CreateCutShort, GiveUp,
         CancelRead, Deliver, Acknowledge, WorkerDies, LoadJob, RunCoordinator,
         RunRaises, RunCutOff
  <2> QED
    BY <2>1, <2>2, <2>3, <2>4, <2>5
<1>3. RunInv /\ OutcomeInv /\ [Next]_vars => [Lost]_vars
  BY <1>2
<1> QED
  BY <1>1, <1>3, InitOutcomeInv, RunInvHolds, PTL
     DEF Spec, OutcomeLostOnlyToStaleWriter
=============================================================================
