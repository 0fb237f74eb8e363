# Atalaya, specified

TLA+ modules, TLC configurations and TLAPS proofs about the backend of the
Atalaya OSINT platform (`src/backend/app`): the part of the repository where
several processes, requests, workers and stores act on the same state.

Every module is a translation of source code; `PROJECT.json` ("map") gives the
lines behind each definition. Where this text and a module differ, the module
counts.

## 1. The system

A FastAPI application runs in several uvicorn processes. They share a
PostgreSQL database (SQLAlchemy async sessions, READ COMMITTED, one session per
request, `autoflush=False`), a Redis server, and a directory of evidence files.
ARQ worker processes take jobs from Redis and run a *coordinator*: it has an
LLM write a plan of tasks, and runs each task with an agent that uses OSINT
tools. A Next.js frontend and a messaging bot are clients.

| Component | Code | State it keeps | Operations |
|---|---|---|---|
| Audit trail | `core/audit.py`, `api/v1/audit.py`, `models/audit_log.py`, `models/intel_records.py` | tables `audit_logs` and `audit_chain`; `_chain_lock`, one per process | `log_audit`, `verify_audit_chain`, listing |
| Job lifecycle | `api/v1/jobs.py`, `jobs/tasks.py`, `jobs/worker.py`, `models/job.py` | row of `jobs`, rows of `evidence`, messages in Redis | create, enqueue, run, complete, fail, cancel |
| Sessions | `api/v1/auth.py`, `core/token_blacklist.py`, `core/security.py`, `core/mfa.py`, `api/deps.py` | JWTs held by clients, blacklisted tokens and users (a dict per process and Redis), `users.mfa_*` | login, MFA, refresh, logout, revoke all, change password, authenticate |
| Login protection | `core/bruteforce.py`, middleware of `main.py` | failures and locks per user and per IP, per process | record failure or success, lock, clean up |
| User provisioning | `db/init_db.py`, `auth.py` bootstrap, register, create | rows of `users` | seed at start, bootstrap, register |
| Evidence store | `api/v1/evidence.py`, `core/chain_of_custody.py` | rows of `evidence`, files | upload, custody, delete |
| Cases and entities | `api/v1/cases.py`, `api/v1/entities.py` | rows, membership, merges | create, update, delete, merge |
| Reports | `api/v1/reports.py` | rows, files | generate, delete |
| Coordinator | `agents/coordinator.py`, `agents/*`, `llm/adapter.py` | plan, completed tasks, collected findings | plan, run in order, fall back between LLM providers |
| Tools | `tools/*` | recent calls per tool, in the registry of one job | throttle, call |
| Rate limiter | `core/rate_limiter.py` | window of requests, in Redis or in the process | check |
| WebSocket and events | `core/websocket.py`, `core/events_bus.py` | open connections; subscriptions | connect, disconnect, broadcast, publish |
| Secret rotation | `core/secret_rotation.py` | versions of secrets, per process | register, rotate, verify, clean up |
| Fusion and graph | `intelligence/fusion.py`, `intelligence/graph_intel.py` | past fusions, and one graph in memory that all of them share | fuse, paths, neighbourhoods, influence |
| Access policy | `api/deps.py` | none: role and clearance of a user, case membership | allow or refuse |

How they interact: every handler that changes something calls `log_audit` with
its own database session, which commits what the handler had pending as well as
the audit rows; `create_job` reaches the worker through Redis only, and both
then write the same row of `jobs`; sessions and login protection sit before
every handler; the coordinator's findings become evidence when the worker
commits.

### Behaviours that are hard here

* **Interleaving at `await`.** A handler reads a row, awaits, and writes what it
  read (the audit chain's last row, the status of a job, the blacklist in
  `refresh`, "no users yet" in `bootstrap_admin`, a case that an update or a merge
  relies on).
* **Locks that are local.** `_chain_lock`, the brute-force counters and the
  in-memory blacklist belong to one process, and there are several.
* **Swallowed errors.** `log_audit`, `create_job` and the blacklist go on after
  an error, so half of an operation may have happened.
* **Crashes and redelivery.** ARQ delivers the message of a dead worker again;
  the task does not know that it ran before.
* **Partial failure across stores.** Files and rows, Redis and rows, are
  written one after the other.

### What makes each component correct

* *Audit trail*: what is recorded stays, in order, and verification says so
  exactly; the log and the chain agree; recording an event never blocks a
  request for good.
* *Job lifecycle*: an enqueued job runs and ends in one outcome that stays;
  an accepted cancel holds; the findings a job claims exist.
* *Sessions*: a token revoked in any of the ways the API offers is refused
  everywhere; a refresh token buys one new pair; a login needs the second
  factor when the user has one.
* *Login protection*: a bounded number of guesses before a lock, and a lock that lasts and ends.
* *Provisioning*: whoever provisions others was there first, or made by one who
  was; names and addresses are unique.
* *Evidence*: a row has its file, and a file its row.
* *Cases and entities*: a request works on a case that is there and that its user
  may see, and leaves it as asked; an entity that was merged can be found.
* *Coordinator*: a task runs after the tasks it depends on, at most once, and
  never without the approval it needs.
* *Rate limiter, tools*: no window holds more than its limit of requests.
* *Agents*: what an agent returns is all it collected, or nothing.
* *WebSocket*: a message reaches every connection that is open throughout.
* *Secret rotation*: exactly one active version, which verifies.
* *Fusion and graph*: what a fusion reports is in the graph, under the right name;
  the searches agree with each other.

The hazards behind these, line by line, are the "hazards" of `PROJECT.json`.

## 2. What is modelled now

### Audit trail

| Module | Models |
|---|---|
| `AuditChain` | `log_audit` and `_append_to_chain` under interleaving, failures and crashes |
| `AuditVerify` | `verify_audit_chain` as a function of a table, extends `AuditChain` |
| `AuditTamper` | `AuditVerify` next to an outside hand that edits and removes rows |
| `AuditLedger` | abstract: a sequence of records that only grows at its end |
| `MCAuditChain` | symmetry for TLC |
| `AuditChainProofs` | theorems |

A call of `log_audit` is `idle -> called -> inserted -> locked -> selected ->
ready -> done`, one action per stretch between two awaits: `InsertLog` (needs a
connection from the pool of its process), `AcquireLock`, `SelectLast`,
`AddEntry` (building the row and leaving the `async with` block: no await lies
between), `Commit`. `Fail` is the `except` branch, or the cancellation of the
request: it gives up the lock and the transaction, and the caller goes on.
`Crash` kills a process with all its calls. `AddEntry` comes before `Commit`
and after it the lock is free: that is the code's order, and what the
`audit_fork` run is about.

Data is abstracted to what the properties tell apart. A call is also the record
it logs. A hash is the sequence of (index, record) pairs digested since
genesis, which is what collision-free SHA-256 commits to. When a query has
several right answers, as `ORDER BY index DESC LIMIT 1` has among rows of one
index, any of them may come back.

### Job lifecycle

| Module | Models |
|---|---|
| `JobLifecycle` | create, cancel, ARQ's delivery (external), `run_coordinator_job` |
| `JobLifecycleProofs` | theorems |

`creator[j]`, `cancel[k]` and `worker[w]` are the program counters of the three
kinds of writers, with the values each has read. `CreateJob`, `EnqueueJob`,
`MarkQueued` are the two commits of `create_job` and the enqueue between them;
`CreateCutShort` is its swallowed exception. `CancelRead`, `CancelWrite` are the
check and the commit of `cancel_job`. `Deliver`, `GiveUp`, `Acknowledge`,
`WorkerDies` are ARQ as the code configures it: a message stays in its queue
until its run returned, is started by one worker at a time, and at most
`max_tries` times. `LoadJob`, `MarkRunning`, `RunCoordinator` or `RunRaises`,
`CommitOutcome` or `CommitFailure` are the task; `RunCutOff` is the end of a run
that no `except` branch records (`job_timeout`, or a failed flush that makes the
commit of the `except` branch fail as well). A worker here is one slot for a
run; which process owns the slot makes no difference to a single job. An UPDATE
writes only the attributes that the session changed: `MarkRunning` writes nothing
when the row was loaded as RUNNING already.

What the coordinator does inside a run is one step that yields a number of
findings, or raises; it touches none of the modelled state. `Coordinator` opens
that step.

### Sessions

| Module | Models |
|---|---|
| `Sessions` | the token pairs of one user: login, `get_current_user`, refresh, logout, `revoke_all_tokens` over Redis and the local caches |
| `MCSessions` | symmetry for TLC |
| `SessionsProofs` | theorems |

One user is enough: tokens are looked up by jti and the marker by user id, so
users share nothing. `pairs` is what has been minted, `held` what the client has
received; `local[p]` is `_local_cache` of a process, `redis` the keys of tokens
with their expiries, `marker` the key of the user. A request in flight is a
record of `req`, and its `pc` the await at which it is: `askingToken` and
`askingUser` for the two questions to Redis, `loading` for the database in
`refresh`, `revoking` and `remembering` for the two halves of
`TokenBlacklist.add`, `marking` for `revoke_all_user_tokens`, `answering` for
whatever else the handler does. `Begin` is everything up to the first await that
can suspend. A Redis command may fail: a read then answers "not revoked"
(`blind`), a write is swallowed (`lost`), having reached Redis or not. A request
may be cancelled or fail at any await (`Abort`), and a process may restart.

Time is discrete, with `Second` ticks to a second, because three clocks of
different resolution meet here: `time.time()` in the local cache, whole seconds
rounded down in jose's comparison with `exp`, and a TTL rounded down in Redis.

Redis is external. It drops a key when it expires (`Tick`), and sometimes before
(`Evict`): `docker-compose.yml` (lines 34-35) starts it with `--maxmemory 256mb
--maxmemory-policy allkeys-lru`, so that a revocation nobody has asked about for a
while, or the marker, can go without any command failing.

`revoked` and `known` are history: which revocations have returned, with or
without their write to Redis, and which process handled them; so is `evicted`, the
keys that were dropped since they were last written. `was`, `wasKnown`, `wasMarked`
and `wasSpent` keep what was revoked, and what had bought a pair, when a request
began, since a request that began before may rightly finish after it. `blind`
says that a request asked Redis in vain: the read failed, or the key was evicted.

### Login protection

| Module | Models |
|---|---|
| `LoginGuard` | login, the second factor, and the `BruteForceProtector` of one process, over time |
| `MCLoginGuard` | powers of two, and symmetry for TLC |
| `LoginGuardProofs` | theorems |

`attempts` and `ipAttempts` are the two dicts of `BruteForceProtector`. A request
passes the middleware (`Admit`), which refuses a blocked address and resets an
expired block; `login` asks for the lock of the account (`CheckLock`), awaits
the database, and records a failure (`WrongPassword`) or goes on
(`RightPassword`). `mfa_verify` is `PresentTicket`, then `WithoutMFA`, `WrongCode`
or `RightCode`. `Issue` is `_issue_tokens_for` once its commit is through. Between
any two of them others may run, the clock may tick, and MFA may change (`SetMFA`).

The state is that of one process, which is all that a `BruteForceProtector` can
see. A username without a user behaves like one whose password is never right.
`PROGRESSIVE_MULTIPLIER ** n` is a function `Multiplier` of which only positivity
is assumed. It has `MaxStrikes + 1` values, as there is a last power of 2.0 that is a
float: past it, `2.0 ** n` raises `OverflowError` (`bruteforce.py:64`) when the
account has been counted and nothing else has. `RecordFailure` is therefore either
`CountFailure` or `OverflowFailure`, and the request then ends with a 500.
`MaxFailures` bounds the count of an account, and lies beyond the overflow.

`fails` and `ipFails` are history: the times of all failures since the last
success, which neither the expiry of a lock nor a reset of the counter touches.
`ipFails` has those that reached `_record_ip_failure`; `raised` are the accounts of the others.
`age`, `coded` and `steady` of a request remember how it came to get tokens.

### Coordinator

| Module | Models |
|---|---|
| `Coordinator` | `CoordinatorAgent.run` and `_parse_plan` over `LLMAdapter.complete`: the planning call and the walk over the plan |
| `MCCoordinator` | the providers, and symmetry for TLC |
| `CoordinatorProofs` | theorems |

A run is sequential; what makes it hard is that its input, the plan, is whatever
a language model wrote. `Plans` therefore has all of them: tasks that share an
id or have none, that depend on later tasks, on themselves or on nothing, that
name unknown agents, and members of the list that are no tasks. Ids and names of
agents are taken to be strings, as the prompt asks. `failed` is how far the
adapter's fallback has come: the default provider first, then the others in the
order of their dictionary. `next` is the place of the `for` loop; `pc` is
`delegated` while an agent runs. `settled`, `ran` and `found` are history: the
tasks whose ids went into `completed_tasks`, that were handed to an agent, and
whose agent returned findings. Each finding is represented by the task it comes
from; a task yields one batch or none.

`Supportable` is the reference the loop is compared with. It says without a loop
which tasks may count as completed: the members of any set of tasks in which
each dependency of a task is the id of an earlier member.

### Cases, entities, evidence, reports

| Module | Models |
|---|---|
| `Access` | the dependencies of `api/deps.py`: scopes, administrators, clearances, ownership |
| `Casework` | the handlers that change rows in `cases.py`, `entities.py`, `evidence.py`, and `generate_report` |
| `MCCasework` | users, sets of operations, and symmetry for TLC |
| `CaseworkProofs` | theorems |

A request in flight is a record of `req`, its `pc` the await at which it is:
`load` (the row in the path), `check` (`assert_resource_access` on its case),
`target` (the case of a merge's target), `work`, `stored` and `removed` (the file is
written or unlinked, the row not yet committed), `refresh` (`db.refresh`),
`answered`. `CheckCase`, `StoreFile`, `RemoveFile`, the commit of each operation and
`Refresh` are the stretches between them. `Fail` may end a request at any: its
session is rolled back, which no file is. `Decay` is a disk that changes a file.

A session writes only the columns whose value the handler changed, so an update
can leave a column as another request wrote it: `Written` is that rule, and `seen`
is the row as loaded. `overtaken` is history: the columns which requests that
committed after this one loaded the case were asked to set, before its answer or
after it; a commit that only writes others is not in it. `cut` and `blind` are history too: evidence whose upload
or removal ended between file and commit, and entities merged into themselves or
into one already merged. Columns that nothing else looks at (titles, tags,
descriptions) are left out.

### User provisioning

| Module | Models |
|---|---|
| `Provisioning` | `seed_admin_user` in every starting process, `bootstrap_admin`, `register_user` |

`process[p]` and `caller[q]` are where each process is in `app_lifespan` and each
request in its handler; looking at the table and inserting into it are separate
actions, and what an INSERT meets is the unique columns (`Free`). `CreateTables` and
`StartWithoutSeed` are a start whose tables or seeding fail, which the code logs
and goes on after. `first` and `early` are history: who made the first user, and
who had looked in vain by then.

### Rate limiter and tools

| Module | Models |
|---|---|
| `SlidingWindow` | the pruning that both limits share |
| `RateWindow` | `SlidingWindowRateLimiter` for one key, over Redis and over memory, as the middleware uses it |
| `Agents` | what each agent does in its `run`, call by call, and `ToolBase._rate_limit_check` |

`RateWindow`: a process that reached Redis at its start (`mode`) stamps a request
(`AskRedis`) and sends a transaction, which Redis runs later and in any order
(`CheckRedis`) or not at all (`LoseRedis`, answered by letting the request through).
The sorted set is a set of members with their stamps; a member is made of the
stamp and `id(key)`, so two requests can share one. `ExpireSet` is Redis dropping
the key. Other processes keep a list (`CheckLocal`) and lose it in a restart.
`granted` is history: the stamps of what each store let through, without what its
window cannot answer for, namely a request overtaken by a later stamp, one that
shares its member, and one whose answer got lost.

`Agents`: one agent of a job is at work at a time. `CallTool` is
`_rate_limit_check` up to its sleep and `WakeUp` what follows the sleep; that a
sleep lasts at least as long as asked is assumed. `GetAnswer` is an outcome that
`execute` of that tool can have, an exception among them for those that have no
`except` around everything; `BlockFetch` is `_is_safe_url` saying no before the limit
is looked at. `Calls` is the order of calls for each kind of input. `starts` is
history. A job has a registry, and with it its limits, to itself. It shares the
directory of its case with other jobs, though, and the name of a report tells the
second and the type: `reports` is a table of both, `OpenFile` makes the file anew, and
`ReportElsewhere` is the reporter of another job of the case doing so. `Report` may
raise before the file is open, or while it is being written.

### Fusion

| Module | Models |
|---|---|
| `Fusion` | `MultiINTFusionEngine.fuse` and the graph and searches of `GraphIntelligence` |
| `MCPlatform` | `Provisioning`, `RateWindow`, `Agents` and `Fusion` side by side, with their inputs |
| `PlatformProofs` | theorems about these four, and about the composition |

Each item of intelligence is its discipline, a name, the node id that the engine
makes of the name, and the marks that the engine tests (a risk score over its
limit, a sanctions match and the like). `AddEntity` keeps the label that a node was
first given, although the ids of different items can collide (an indicator's id
is made of twelve characters of it). Both ends of an edge in a social graph are node ids
(`FusionAssumption`). The searches are recursive functions that
follow the queue or the stack of the code level by level. Only tests use the engine
and the graph so far.

`MCPlatform` composes four components that share no state: `part` chooses the one
that moves, so the state space is the sum of theirs and not the product.

`NaturalLemmas` has what several of the proofs need of numbers: least elements,
induction, and functions defined by recursion.

## 3. What the runs check

| Run | Question | Result |
|---|---|---|
| `audit_concurrent` | Overlapping calls in two processes, failures, a crash: `TypeOK`, `ChainLinked`, `LogsMatchChain`, `NoFalseTamperReason` | hold |
| `audit_one_process` | A contended lock and pool: `ForkWidthBounded`, `CallsReturn` (liveness) | hold |
| `audit_serial` | Calls that never overlap, failures, a crash, two changed rows: `VerifyTellsTampering`, and `LedgerSpec` (the chain implements `AuditLedger`) | hold |
| `audit_fork` | Does an untampered chain verify (`UntamperedVerifies`)? | **violated** |
| `job_lifecycle` | `TypeOK`, `MessagesHaveRows`, `CountBacked`, `CountExactUnlessWorkerDied`, `StrandedOnlyByCutOff`, `OutcomeLostOnlyToStaleWriter` (action property), `MessagesSettle` (liveness) | hold |
| `job_cancel` | Does an accepted cancel hold (`CancelledStaysCancelled`)? | **violated** |
| `job_queue_name` | With the queue names in the code, does an enqueued job start (`EnqueuedJobsStart`)? | **violated** |
| `sessions` | Two requests in two processes, Redis failures and evictions, restarts: `TypeOK`, `RevokedIsRefused`, `RevokerRemembers`, `RevokeAllIsFinal`, `SpentBuysNothing` | hold |
| `login_guard` | Overlapping requests, locks and tickets that expire, a lock that overflows, MFA that changes: `TypeOK`, `GuessesBounded`, `IPGuessesBounded`, `TokensNeedBothLegs` | hold |
| `coordinator` | Every plan of up to three tasks, failing providers and agents: `TypeOK`, `LLMFailsOnlyWhenAllFail`, `SettledAreSupportable`, `RunsExactlyTheRunnable`, `NoFindingLost` | hold |
| `casework` | Overlapping requests of an owner and an administrator, failures between any two awaits: `TypeOK`, `FilesMatchRows`, `MergesEndInTheList`, `WishesStand` | hold |
| `platform` | Provisioning, rate limiter, agents and fusion: `PlatformTypeOK`, `SuperusersFoundNobody`, `WindowRespected`, `ToolRateKept`, `ResultsAreWhole`, `SearchesAgree`, `FusionsAreSound` | hold |

What they show:

* The lock of `audit.py` does not do what it is for. It is released before the
  commit and is private to a process, so overlapping calls read the same last
  row and the table becomes a tree. `GET /audit/verify` then answers
  `index_gap` for good, although nobody touched the table (`audit_fork`). What
  survives any interleaving is weaker: the tree is rooted at genesis and every
  row hangs from a committed one (`ChainLinked`), no event is lost from or
  doubled in it (`LogsMatchChain`), a fork is no wider than the pools
  (`ForkWidthBounded`), and `previous_hash` and `hash_mismatch` still mean
  tampering (`NoFalseTamperReason`).
* When calls do not overlap the design is right: a refinement of an
  append-only ledger, and a verification that is exact for edited rows and for
  rows removed from below others. Removing the *last* rows is the exception:
  nothing in the table shows it, so `AuditTamper` leaves it out of what must be
  detected.
* A job's row has three kinds of writers with stale views. Its outcome can be
  lost to each, and to nothing else (`OutcomeLostOnlyToStaleWriter`); a cancel
  is lost to the late QUEUED and to the run itself (`job_cancel`).
* A job can be left RUNNING for ever, but only by a cut-off run or exhausted
  tries; evidence can be saved twice, but only after the death of a worker.
* `enqueue_job` uses ARQ's default queue `arq:queue`, and the workers poll
  `atalaya:jobs`: no enqueued job starts (`job_queue_name`).
* A revoked token is refused everywhere while Redis answers and keeps its key
  (`RevokedIsRefused`). The shipped Redis need not keep it: it evicts what was not
  asked for lately once it holds 256 MB, revocations like anything else, and then
  only the process that handled the revocation knows of it. Nor is the token refused
  up to its end: its key can be gone up to a second before its `exp`, and jose accepts the
  token to the end of the second of its `exp`. The property is stated with
  that margin, and a TTL one second shorter violates it. The process that
  revoked the token closes most of the gap from its own memory
  (`RevokerRemembers`), and that is also all that is left when its write failed.
* A refresh token that has bought a pair buys no second one in a request that
  begins when the client has the first (`SpentBuysNothing`), because `refresh`
  blacklists the old token before it sends the new pair: unless the write or the
  later read failed, the key was evicted, or the token's last second had begun.
  It does not make the token single-use: between the check and the blacklisting
  lie two awaits, and the model has behaviours in which overlapping requests mint
  a pair each from one token. No property excludes them, because nothing in the
  repository promises it.
* `revoke_all_tokens` stores a marker that names the user and outlives every
  token. While Redis keeps it, it is final (`RevokeAllIsFinal`): a later login gets
  tokens that are refused too. `refresh` does not look at the marker and goes on
  minting. If Redis evicts the marker, the access tokens of the user that have
  not expired are accepted again; no process remembers it.
* `change_password` revokes nothing: it blacklists the user id as if it were a
  jti, already expired. In the model it is a request that answers.
* A lock does not stop guesses at the configured number, but near it: requests
  that asked before the lock was there still get theirs, and so within
  `LOCKOUT_SECONDS` a process checks up to `MAX_ATTEMPTS - 1` wrong passwords plus
  one per request in flight (`GuessesBounded`; `IPGuessesBounded` for addresses).
  The bound is for one process; several of them multiply it. It holds although
  an expired lock resets the counter while older requests are still on their way,
  and although `mfa_verify` counts failures without asking for the lock.
* That last path has an end: after about a thousand failures under locks that do not expire,
  the power that makes the next lock overflows, `record_failure`
  raises, and the guess is answered with a 500 and not counted for its address.
  The account is then under its last lock, which is infinite, so that `login` takes no
  new guess for it; wrong codes of tickets and requests from before it can go on
  (`IPGuessesBounded`, its second part). How many of them an address may have is
  bounded by no counter, only by the lifetime of those tickets.
* The same reset makes the next lock as short as the first one. Locks grow only
  with failures that come in under the lock: overlapping ones, and wrong codes.
  Blocks of an address have one length. The repository's README calls both
  progressive.
* Tokens never go out without a password and, when the user read had one, the
  second factor (`TokensNeedBothLegs`). The exception stated in it is real: MFA
  enabled after the row was read does not stop a login that is past it.

* The coordinator counts as completed exactly the supportable tasks
  (`SettledAreSupportable`) and gives an agent those of them that need no
  approval and whose agent exists (`RunsExactlyTheRunnable`). That is weaker than
  "respecting depends_on" may suggest: a task whose dependency stands later in
  the plan is passed over for good, and a task that failed, has an unknown
  agent, or waits for an approval that nothing in the program can give, counts
  as completed for those that depend on it.
* A failing agent costs nobody else's findings (`NoFindingLost`); a member of the
  plan that is no task does cost them all. A planning call fails only when every
  provider was asked and failed, or when the default one is not configured, and
  then none is asked (`LLMFailsOnlyWhenAllFail`). The worker does not look at
  `success`, so a job whose planning failed ends COMPLETED.
* A file without a row is an upload, and a row without its file a removal, that is
  under way or ended between the two (`FilesMatchRows`); nothing cleans up after
  either. A custody report calls evidence without its file verified: it compares
  hashes only if there is content.
* Nothing keeps a merge from pointing at the entity itself or at one that is
  merged already, whereupon both can vanish from the list of entities. These are
  the only ways to lose one (`MergesEndInTheList`), even for merges that overlap.
* What a request asks of a case stands, column by column, in the table and in the
  answer, unless a request that committed since its look asked to set that very
  column (`WishesStand`); that others load the whole row and save it later undoes
  nothing, because they write only what they changed. A deletion stands for good.
  What does happen: `db.refresh` answers with what another wrote to the same
  column, and evidence can go into a case that was deleted since the check. A
  change of classification by somebody who is no administrator is dropped without
  a word; the property leaves it out.
* `generate_report` answers that a job is queued, and no queue gets it; no code
  inserts a row of `reports`.
* As soon as there is a user there is a superuser, and superusers come from those
  who found the table empty before the first user was there
  (`SuperusersFoundNobody`). That can be several: two overlapping calls of
  `bootstrap_admin`, or one and the seeding of a process, may both succeed with
  different names, although `bootstrap_admin` calls itself one-shot.
* However requests overtake each other between stamp and transaction, a store
  does not let through more in a window than its limit (`WindowRespected`), apart
  from the three exceptions above; without Redis each process has a limit of its
  own. Refused requests count in Redis and not in memory.
* A tool does not look again after its sleep, and need not: the first call of its
  list is then a minute old, and agents of a job take turns (`ToolRateKept`).
* A call that raises costs an agent all that it collected before, and one that
  fails costs nothing (`CollectedWholeOrNotAtAll`, the first half of
  `ResultsAreWhole`). The file of a report that was announced as saved holds it
  unless a later run of a reporter opened the very name, that is, for the same case
  and type within the same second, in this job or in another
  (`ReportsKept`, the other half). Such a run need not succeed: one that raises
  while it writes leaves what it wrote of its own. An email address that
  has no "@" is searched for like any text, and the SOCMINT agent looks for profiles
  one level too high in the tool's answer, so that it never extracts a handle
  from a platform.
* The two path searches find the same, and what `find_connected_nodes` shows is
  what paths of at most three nodes reach, in graphs with loops, parallel edges
  and edges to nodes that nobody added (`SearchesAgree`); any depth over one is two.
* Each relationship that a fusion reports is an edge of its graph to a node of
  that name, except where an earlier item took the node's id; graphs only grow;
  compliance is alerted exactly for a reported sanctions match
  (`FusionsAreSound`). The graph of a fusion has the nodes of every target before it.

`ClientQueue` and `WorkerQueue` are constants for this reason. `job_lifecycle`
and `job_cancel` give both the same name: they are about a deployment in which
the two are reconciled, since otherwise nothing after `EnqueueJob` ever happens.
`job_queue_name` gives them the names that the code has. Of the passing results,
`MessagesHaveRows`, `CountBacked` and the other invariants are proved for *any*
two names; `MessagesSettle` is checked with equal ones.

### Bounds

* `audit_concurrent`: five calls, two processes, two connections each. All four
  connections can be in use and a fifth call has to wait, so forks of every
  width up to the maximum, forks on top of forks, and rows appended to one
  branch of an earlier fork all occur. One crash per behaviour; any number of
  failures. Calls and processes are interchangeable, and no liveness is checked
  there, so symmetry is sound.
* `audit_one_process`: four calls for two connections: one call holds the lock,
  one waits for it, two wait for a connection. No symmetry, because of the
  temporal property.
* `audit_serial`: one process and one connection, which is how calls are kept
  from overlapping (the connection is held from `InsertLog` to the end). Four
  calls and two changed rows: enough for rows below, at and above a change, for
  a change undone by another, and for appends after it.
* `audit_fork`, `job_cancel`, `job_queue_name`: as few actors as the
  counterexample needs.
* `job_lifecycle`: one job, because jobs share nothing but the workers, and a
  worker busy with another job only delays this one. Two cancels and two
  workers, so that a cancel can race another and a worker can pick up what
  another dropped; two tries and two deaths reach redelivery and exhaustion;
  findings are zero or one.

* `sessions`: two pairs, so that a refresh token has one to buy; two requests, so
  that one can be anywhere in another's course; two processes, one that revoked
  and one that only has Redis; two faults, so that a write and a later read, or a
  write and a restart, both fail, or a key is evicted and something else fails as well. Two ticks to a second give every read a time on
  and off the second; an access token lives one second and a refresh token two,
  and time ends after both have expired by every clock. Pairs, processes and
  requests are interchangeable and only invariants are checked. The theorems
  below cover any number of requests and faults.
* `login_guard`: two requests are one that brings a lock about and one that is past
  it, or two that race for the last allowed failure; the longest run of failures
  has a lock, its expiry, and failures from both sides of it. Two failures lock
  the account and two block the address; the second power beyond is the last, its
  lock outlasts the run as an infinite one would, and the fifth failure
  overflows. A ticket and a block live one tick and a lock two, in a time of five. Accounts meet
  only in addresses and addresses only in accounts: one of each here, any number
  in the theorems.
* `coordinator`: three tasks are a chain of two dependencies in every order,
  forwards, backwards and circular, and two ids and `NoId` let two tasks share an
  id while a third is missing one. Two providers are a default and one to fall
  back to; a third name stands for a default that is not configured. The ids are
  interchangeable. The theorems cover plans of any length.
* `casework`: one case, two entities, one piece of evidence, two requests: one that
  is somewhere in its course and one that overtakes it. Operations that can
  disturb each other are explored together, in four sets (`MCWorkloads`), each with
  the deletion of the case; their product would be out of reach and add only pairs
  that touch different rows. Two entities have no chain of two merges in a row that
  ends elsewhere; three are out of reach, and the theorem covers any number. One user owns cases without every clearance, one is
  an administrator; two levels, one above their clearance. Ids and requests are
  interchangeable and only invariants are checked.
* `platform`: two processes that start and two callers, over two names and two
  addresses, one of each the seed's. Two requests on their way to Redis, two member
  ids, a limit of two in a window of two seconds, four seconds: enough for a
  window to fill, to move on, and for a set to be dropped. One process, since
  windows in memory share nothing and Redis does not tell processes apart. Two
  agents of a job over three ticks with a minute of two; the limit of
  `dns_lookup` is the number of lookups of one domain, so that the second agent has
  to wait. Two runs of the reporter can have one second and one type, or differ in
  either; reporters of other jobs open only files that this job has opened, since
  no property looks at others. The kinds of tasks leave out those that go the way of another: an email
  address (a web search and then the calls for a domain), a handle without a
  query, and empty or unreadable tasks beyond one of each.
  Two fusions of up to two items, with ids that collide, edges that close a
  triangle, and edges to nodes that nobody added.

Deadlock is not checked: a system whose calls have all returned, or whose job
has ended, or whose bounds are used up, rightly stops.

### Fairness

* `AuditChain!FairSpec`: weak fairness of each call's own steps. `asyncio.Lock`
  and the connection pool serve waiters in order, so a call whose turn has come
  goes on. Weak fairness per call is enough because every holder of the lock or
  of a connection is itself a call with a fair step. Nobody has to call, fail or
  crash.
* `JobLifecycle!FairSpec`: ARQ workers poll (`Deliver`, `GiveUp`), and a started
  run ends within `job_timeout` (`RunStep` of each worker). The create handler
  goes on unless cut short. Nobody has to create, cancel, or be killed.

## 4. What is proved

`tlapm` proves these for every value of the constants that satisfies
the assumption of the module that declares them: any number of calls, processes,
jobs, cancels, workers, tries and crashes, any queue names, any number of token
pairs, requests and faults, any lifetimes, any number of accounts and addresses
and any limits and lengths of locks, plans of any length over any ids, lists of
providers of any length, any finite number of entities, any number of cases,
pieces of evidence and requests with any users, any number of starting processes,
any limits of requests and calls, agents with any answers of their tools, and
graphs of any size.

| Module | Theorem | Statement |
|---|---|---|
| `AuditChainProofs` | `TypeCorrect` | `Spec => []TypeOK` |
| | `AlwaysLinked` | `Spec => []ChainLinked` |
| | `LogsAlwaysMatch` | `Spec => []LogsMatchChain` |
| | `NeverFalselyTampered` | `Spec => []NoFalseTamperReason` |
| | `ForksStayNarrow` | `Spec => []ForkWidthBounded` |
| | `VerifyIsRight` | `Serial /\ TSpec => []VerifyTellsTampering` |
| | `TrailIsLedger` | `Serial /\ TSpec => LedgerSpec` (refinement) |
| `JobLifecycleProofs` | `TypeCorrect` | `Spec => []TypeOK` |
| | `RowsBehindMessages` | `Spec => []MessagesHaveRows` |
| | `StrandedOnlyAfterCutOff` | `Spec => []StrandedOnlyByCutOff` |
| | `CountsAreBacked` | `Spec => []CountBacked` |
| | `CountsAreExact` | `Spec => []CountExactUnlessWorkerDied` |
| | `OutcomesLostOnlyToStaleWriters` | `Spec => OutcomeLostOnlyToStaleWriter` |
| `SessionsProofs` | `TypeCorrect` | `Spec => []TypeOK` |
| | `RevokedAlwaysRefused` | `Spec => []RevokedIsRefused` |
| | `RevokerAlwaysRemembers` | `Spec => []RevokerRemembers` |
| | `RevokeAllAlwaysFinal` | `Spec => []RevokeAllIsFinal` |
| | `AlwaysSpentBeforeReplaced` | `Spec => []SpentBeforeReplaced`, where the latter is defined in `SessionsProofs` |
| | `SpentAlwaysBuysNothing` | `Spec => []SpentBuysNothing` |
| `LoginGuardProofs` | `TypeCorrect` | `Spec => []TypeOK` |
| | `GuessesAlwaysBounded` | `Spec => []GuessesBounded` |
| | `IPGuessesAlwaysBounded` | `Spec => []IPGuessesBounded` |
| | `TokensAfterBothLegs` | `Spec => []TokensNeedBothLegs` |
| `CoordinatorProofs` | `TypeCorrect` | `Spec => []TypeOK` |
| | `SettlesSupportable` | `Spec => []SettledAreSupportable` |
| | `RunsTheRunnable` | `Spec => []RunsExactlyTheRunnable` |
| | `FindingsKept` | `Spec => []NoFindingLost` |
| | `FallbackIsComplete` | `Spec => []LLMFailsOnlyWhenAllFail` |
| `CaseworkProofs` | `TypeCorrect` | `Spec => []TypeOK` |
| | `FilesAlwaysMatchRows` | `Spec => []FilesMatchRows` |
| | `WishesAlwaysStand` | `Spec => []WishesStand` |
| | `MergesAlwaysEndInTheList` | `Spec => []MergesEndInTheList` |
| `PlatformProofs` | `UserTypeCorrect` | `UserSpec => []UserTypeOK` |
| | `OnlyEarlySuperusers` | `UserSpec => []SuperusersFoundNobody` |
| | `ToolRateAlwaysKept` | `AgentSpec => []ToolRateKept` |
| | `WindowAlwaysRespected` | `RateSpec => []WindowRespected` |
| | `AgentsReturnWhole` | `AgentSpec => []ResultsAreWhole` |
| | `FusionsAlwaysSound` | `FusionSpec => []FusionsAreSound` |
| | `SearchesAlwaysAgree` | `FusionSpec => []SearchesAgree` |
| | `PlatformTypeCorrect` | `PlatformSpec => []PlatformTypeOK` |
| | `PlatformIsItsParts` | `PlatformSpec => UserSpec /\ RateSpec /\ AgentSpec /\ FusionSpec` |
| | `PlatformKeepsItsPromises` | the six invariants above, of `PlatformSpec` |

`Serial` says that all pools together have one connection, as in `audit_serial`. It is
a hypothesis and not an assumption on the constants, because the code does not
promise it: without it both statements are false, as `audit_fork` shows of the
first.

*Recursion.* The theorems of the library that do induction take an operator as a
parameter, which these provers cannot instantiate. `NaturalLemmas` goes around
that with sets: `LeastNatural` comes from the well-foundedness of `<`, `SetInduction`
and `BoundedInduction` say of a set of numbers with 0 and all successors that it is
all of them, and `RecursiveOnNat` and `RecursiveUpTo` that there is a function which
satisfies an equation where a value depends on the one before. A claim about all
`n` is then a set `{n \in Nat : ...}`.

*Audit.* `ChainLinked` is not inductive: it says nothing of the row a call has
selected or is about to commit. The invariant adds that `lastRow[c]` is NoRow or
a row that is committed (rows are never removed), and that `pending[c]` carries
the hash of its content and hangs from a committed row. `LogsMatchChain` needs
that a row in `chain` belongs to a call that is done and that the pending row of
a call records that call. `NoFalseTamperReason` then needs no more than that the
table is linked and finite: in whatever order its rows come back, the first that
is not where a chain has it has the wrong index, and any row before is hashed as
its own content says.

*Forks.* Rows of one index are counted together with the calls that are about to
commit one more (`Coming`): those that have looked, and found the row below it to
be the last. Once there is a row of the index, nobody joins them, because a later
look finds that row; a commit moves a call from the one set to the other. Before
there is one, all of them hold connections, of which each process has no more than
its pool (`PoolKept`).

*Calls that do not overlap.* `Straight` relates the table to `written`, what `log_audit`
wrote: that is one linked chain; every row of the table is a row of it but for what
it records; no index occurs twice, and the last row is there. Tampering keeps it,
since it neither touches hashes nor drops the last row. Only the call with the one
connection is between its look and its commit, so that its row belongs behind the
head (`ReadyOnTop`). If verification accepts, the hashes from genesis on are those of
the records, each hash determines the row below it and what it records, and the
last one is as written; going down from it, every row is. For the refinement,
the head's hash commits to the records of all calls so far, which are done
(`HashesLogged`); so a commit appends one event that is new.

*Jobs.* `TypeOK` is not inductive either: `[row EXCEPT ![j].status = s]` keeps
the type only when `j` has a row, so types and rows go together. `RowsBehind`
says that whoever is about to write a row (a creator past its first commit, a
cancel that has read, a worker past `LoadJob`) and every message has one.
`Settled` adds where a RUNNING job can be: exactly one worker has it
(`Exclusive`), or its message is still queued, or it is in `cutOff`; a run that
`returned` has left a terminal status or a cut-off (`ReturnedSettled`). For the
exact count, while no worker has died, a message is enqueued and started at most
once (`EnqueuedOnce`, `StartedOnce`), so there is no evidence before the outcome
(`FirstRuns`). For the action property, `FirstOutcome` says that before the first
redelivery a job with an outcome has no run that could still write, and
`SeenCancellable` that a cancel about to write has seen a status it may cancel.

*Sessions.* One inductive invariant (`Inv`, theorem `AlwaysInv`) carries all
them all. Its core is `SharedCovered`: the key of a token whose revocation reached
Redis is there until the last second before its exp, or in `evicted`; it rests on
`TTLCovers`, the arithmetic of the rounded-down TTL, and a request that finds no
such key is `blind` if it is for the second reason. `KnownCached` is its counterpart for the local
cache. `Shape` ties the place of a request to what it holds: a token to be
blacklisted has been minted, a request between the two halves of `add` has its
key in Redis or has lost it, and a minted pair waits with its bought-for token
blacklisted. `Past` says how much of what was revoked before a request began
still has to be found by it at each place. `Grows` collects what no step takes
back (time, minted pairs, coverage, revocations, the marker); a request that a
step does not touch keeps its `Shape` and `Past` by `Grows` alone, so that each
action is only argued for the one request it moves.

*Login protection.* `GuessesBounded` looks back over failures that the counter has
forgotten, so the invariant (`Guarded`, the same formula for accounts and
addresses) says what the counter still tells of them. The failures fall into two
parts (`Split`): those before some point `b` are over by a lock's length, seen from
now and from every later failure; those after it are all in the counter. Once the
counter has reached its limit, the failures after `b` and the requests that may
still add one are together no more than `max - 1 + N`. A request enters flight
only through a look that found no lock (`Looked`): either the limit was not
reached, or the lock has expired, and then every failure is older than it and `b`
moves to the end. Each failure trades a request in flight for an entry (`Failed`),
which is where cardinalities of sets of requests come in. The arithmetic is in
lemmas about sequences and records alone; each action is then a choice among
kept, asked, counted, failed and forgotten for every account and address.
A failure that raises adds no entry for its address; `Capped` says that the account
then has a count past the last power, and with it a lock beyond all time, which no
look can find expired. `TokensNeedBothLegs` needs that the dates of tickets are right (`TicketsDated`) and
what each request has shown so far (`Leg`).

*Coordinator.* `SettledAreSupportable` equates `settled` with a union over sets, so
the invariant has its two halves apart. `SettledSupported`: the settled tasks are
themselves such a set, because the ids in `completed_tasks` are exactly those of
settled, hence earlier, tasks (`CompletedIds`). `NoneMissed`: of any such set,
what the loop has passed is settled; when it passes a task over, a dependency is
not in `completed_tasks`, and a set with that task would have an earlier member
with that id, settled by the same invariant. `RanSettled` and `FindingsInOrder`
carry the other two; `DelegatedReady` remembers, while an agent runs, what
`Delegate` checked. `FallbackIsComplete` needs that the fallback is not stuck while a
provider is left: the first of the list that has not failed has its turn
(`SomebodysTurn`).

*Casework.* `Inv` ties each request to the tables by `Valid`: past its check a
request has a case, a merge its two rows, a removal its row, and between its two
steps nobody else touches the file of an upload or of a removal. `Rooted` gives
every row a case, and `Distinct` keeps two uploads from the same id.
`FilesMatchRows` needs what `IntegrityVerified` hides, so `FilesAgree` says it of the
file itself: one that is missing is named by `cut` or by a request at `removed`.
`WishesStand` follows from `Faithful`, which goes column by column: where a request
was not overtaken, what it has seen is what the table says until it answers, and
after an update so is its wish. The step that matters is a commit by somebody else:
it leaves each column of the case as it was but for those it was asked to set
(`KeepsOthers`), because `Written` takes from the table what the handler did not
change; and `Leave` adds just these to `overtaken` of every other request on the case.
Each lemma about a commit is stated over tables as values, so that it holds
of any two of them.

*Merges.* `MergesEndInTheList` is about a walk along merges, which must neither leave
the case nor go in circles. `AllMatched` and `OneCase` keep it in the case: a merge
does not commit to a target of another one. `Ranks` says that the entities can be
numbered so that of two merges in a row, the first not a blind one, the number
rises. A merge that is not blind is into an entity that is not merged, so that the
entity it starts from can be given a new highest number, with whatever is merged
into it below. A walk of as many steps as there are entities that met no blind merge
and did not end would have passed one entity more than there are, no two of them
equal; so it has ended (`WaysEnd`), and where it ends is in the list.

*Provisioning.* `Lookers` is the invariant behind `SuperusersFoundNobody`: the table
is empty exactly until somebody was first; who is about to insert a superuser
into a table with users is that one or in `early`; and nobody registers users in
an empty table.

*Limits.* Both windows come down to lists of times. `Windowed(t, s, now, span, max)`
says that the window `t` is an end of the list `s` of everything let through, that
what it has forgotten is over by `span`, and that `s` keeps the limit. Pruning keeps
it (`Pruned`, which needs that a rising list loses a beginning, `WithinIsAnEnd`), time
keeps it (`Later`), and so does one more entry if the window is not full or its
first entry is over (`Added`): the two ways past the limit of a tool, since
`Throttled` says that a sleeper wakes when its first call is a minute old.
In Redis the window is a set. `Shared` has a function from what was let through to
members of the set: injective on those that are still in the window, which is
what leaving shared members out of `granted` is for. If the set has room, an
injection from the last `MaxRequests` of them into what is kept would be too large
(`RoomMeansOld`), so that the first of them is out of the window.

*Agents.* `ResultsAreWhole` looks at results only, so `Working` says the same of the
agent that is at work: what it collected is what succeeded of what it asked, in that
order. Counting makes "in that order" a statement without recursion: the k-th call
that succeeded is the k-th finding (`InOrder`). Appending an answer extends both sides
by one, or neither. For reports (`KeptAreExcused`), each file has the number of the
last result that opened it, or says that another job did; a result that opens a
file is of its second and type, and not one whose LLM failed.

*Fusion.* A fusion draws item by item, so there is one lemma about a single item
(`DrawsOne`) and an induction over how many were drawn (`DrawnUpTo`): every label was
there before or comes from an item (`LabelFrom`), whatever is linked has its edge and
its node, and nothing that was there is lost (`Grows`). `FusionInv` then ties the graph
in memory to the fusions of the past: it has grown from each of them.

*Searches.* Both searches go in rounds. The n-th round of either holds paths of
n nodes (`Search`), all of them without a repetition (`Simple`); the two differ in which
of these they extend: all that are short enough, or those that are and do not end
at the goal. A path whose end is the goal is in the one exactly if it is in the other, for
a path that reaches the goal at its end has not been there before.
The nodes of paths of up to three nodes are the neighbours, and theirs, which
is what the search for connected nodes collects.

*The composition.* One component moves and the others stay as they are (`OneMoves`),
so `PlatformSpec` implies the specification of each.

### Model-checked only

`CallsReturn` and `MessagesSettle`, because they are liveness properties and need
fairness and ENABLED; and the three violations. Every invariant and action
property of a passing run is a theorem above, and so is the refinement.

## 5. Not modelled

Left out for good: the wording of requests, responses, logs and prompts; what
outside services answer, beyond how a call may end; listing endpoints, which
change nothing; report rendering; the encryption, hashing and signing
primitives; the frontend and the messaging bot; STIX export and the scoring in
`cybint.py`, `finint.py`, `imint.py` and `darkweb.py`, which are tables and string
work without state; Alembic migrations and deployment files. `PROJECT.json` lists
them under "components" with the reason.

Code that nothing in the application uses has no behaviour to state a property
of: `core/secret_rotation.py`, the in-memory chain of `core/chain_of_custody.py`, the
connections of `core/websocket.py` (no route accepts one), the bus of
`core/events_bus.py` (nobody subscribes), `cleanup_expired` of the blacklist and of the
brute-force protector, `get_usage`, `reset` and `cleanup` of the rate limiter. Fusion
is used by tests only as well; it is modelled for its algorithms, without influence
scores, confidence, the export and import of graphs, and `export_report`.

Of jobs, the schedule is left out. Of sessions and login protection, the
arithmetic of TOTP is left out because a code is right or wrong, and the check of
`is_active` because no endpoint deactivates a user. Of the case handlers,
`update_entity` and the reads are left out; of `reports.py` everything but
`generate_report`, since no row is ever there. Of agents and tools, the data are
reduced to the names that certificates show.

Known behaviour that no property is about: the worker ignores `success` of a
result; `change_password` blacklists an id that is no token; the reset of an expired
lock; overlapping calls of `refresh` that each buy a pair with one token; guesses
whose failure overflows and is not counted for the address; a failure of another kind
than the database's between the first finding and the commit of a run, whose `except`
branch would commit what is there (no line in between is seen to raise one).

Of Redis, eviction under `allkeys-lru` is modelled for sessions only. `JobLifecycle`
takes ARQ's messages, and `RateWindow` the set of a key, to stay until they are
removed or expire: both are written or polled all the time, which makes them the
last that Redis would evict, but nothing pins them. A message that is evicted
leaves its job as it was, and a set that is evicted begins a new window.

## 6. Plan

1. `Coordinator` under `JobLifecycle`: its runs as a refinement of
   `RunCoordinator`, what becomes of a result without success, and agents that
   time out with the job.
2. Several brute-force protectors side by side, and a restart of each: how far the
   bounds on guesses grow with the number of processes.
3. Proofs: that without `Serial` the chain still implements a weaker abstraction, a
   tree of events that only grows; the step lemmas of liveness that need no
   fairness, such as who a waiting call waits for.
4. If code begins to use them: connections of the WebSocket manager that leave
   while a broadcast walks the list, and secret rotation with its overlap.
