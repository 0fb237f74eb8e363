----------------------------- MODULE AuditChain -----------------------------
(***************************************************************************)
(* The hash-chained audit trail of backend/app/core/audit.py.              *)
(*                                                                         *)
(* Several uvicorn processes serve requests; a request that must be        *)
(* audited calls log_audit.  The call inserts an AuditLog row, takes the   *)
(* chain lock of ITS process, reads the last row of audit_chain, adds the  *)
(* next row to its session, releases the lock, and only then commits both  *)
(* rows.  Nothing of a call is visible to another session before that      *)
(* commit (PostgreSQL, READ COMMITTED; the sessions are autoflush=False).  *)
(*                                                                         *)
(* A hash is modelled by what it commits to.  SHA-256 of (previous hash,   *)
(* index, record) is collision free, so a hash is the sequence of all the  *)
(* (index, record) pairs digested since "genesis", the empty sequence.     *)
(***************************************************************************)
EXTENDS Naturals, Sequences, FiniteSets

CONSTANTS
  Calls,            \* calls of log_audit; a call is also the record it logs
  Procs,            \* uvicorn worker processes
  PoolSize,         \* DB connections one process may hold at a time
  AuditHashChain,   \* settings.AUDIT_HASH_CHAIN
  MaxCrashes,       \* bound: process crashes in a behaviour
  NoCall, NoProc, NoRow

(* Rows of audit_chain, and the hashes they carry. *)
Block   == [index : Nat, rec : Calls]
Hashes  == Seq(Block)
Genesis == << >>
Rows    == [index : Nat, rec : Calls, previous : Hashes, hash : Hashes]

ASSUME ConstantsAssumption ==
  /\ IsFiniteSet(Calls) /\ NoCall \notin Calls
  /\ IsFiniteSet(Procs) /\ NoProc \notin Procs
  /\ NoRow \notin Rows
  /\ PoolSize \in Nat \ {0}
  /\ AuditHashChain \in BOOLEAN
  /\ MaxCrashes \in Nat

VARIABLES
  chain,     \* committed rows of audit_chain
  logs,      \* committed rows of audit_logs, each named by its call
  lock,      \* per process: the call that holds _chain_lock
  pc,        \* per call: where log_audit is
  proc,      \* per call: the process that runs it
  lastRow,   \* per call: what the SELECT of _append_to_chain returned
  pending,   \* per call: the chain row added to its session, not committed
  crashes

vars == <<chain, logs, lock, pc, proc, lastRow, pending, crashes>>

-----------------------------------------------------------------------------
(* Rows and hashes.                                                        *)

(* Definitions named X_Y are X with a plausible mistake Y.  They belong to  *)
(* no specification: a property that X_Y does not break says little.       *)
ComputeChainHash_NoRecord(prev, index, rec) ==
  Append(prev, [index |-> index, rec |-> NoCall])

(* _compute_chain_hash *)
ComputeChainHash(prev, index, rec) ==
  Append(prev, [index |-> index, rec |-> rec])

NextIndex_Decremented(last) == IF last = NoRow THEN 0 ELSE last.index - 1
NextIndex(last) == IF last = NoRow THEN 0 ELSE last.index + 1

PrevHash_OfPreviousColumn(last) ==
  IF last = NoRow THEN Genesis ELSE last.previous
PrevHash(last) == IF last = NoRow THEN Genesis ELSE last.hash

(* The row _append_to_chain builds for call c on top of `last`. *)
NextRow(c, last) ==
  [index |-> NextIndex(last), rec |-> c, previous |-> PrevHash(last),
   hash |-> ComputeChainHash(PrevHash(last), NextIndex(last), c)]

LastRows_Oldest(rows) ==
  IF rows = {} THEN {NoRow}
  ELSE {r \in rows : \A q \in rows : r.index <= q.index}

(* SELECT ... ORDER BY index DESC LIMIT 1: any row of maximal index. *)
LastRows(rows) ==
  IF rows = {} THEN {NoRow}
  ELSE {r \in rows : \A q \in rows : q.index <= r.index}

-----------------------------------------------------------------------------
(* Where a call is.                                                        *)

Connected == {"inserted", "locked", "selected", "ready"}  \* holds a connection
Returned  == {"done", "failed", "crashed"}
PCs       == {"idle", "called"} \cup Connected \cup Returned

HasLock(c) == pc[c] \in {"locked", "selected"}

Connections(p) == {c \in Calls : proc[c] = p /\ pc[c] \in Connected}

Goto(c, label) == pc' = [pc EXCEPT ![c] = label]

TypeOK ==
  /\ chain \in SUBSET Rows
  /\ logs \in SUBSET Calls
  /\ lock \in [Procs -> Calls \cup {NoCall}]
  /\ pc \in [Calls -> PCs]
  /\ proc \in [Calls -> Procs \cup {NoProc}]
  /\ lastRow \in [Calls -> Rows \cup {NoRow}]
  /\ pending \in [Calls -> Rows \cup {NoRow}]
  /\ crashes \in 0..MaxCrashes

Init ==
  /\ chain = {} /\ logs = {}
  /\ lock = [p \in Procs |-> NoCall]
  /\ pc = [c \in Calls |-> "idle"]
  /\ proc = [c \in Calls |-> NoProc]
  /\ lastRow = [c \in Calls |-> NoRow]
  /\ pending = [c \in Calls |-> NoRow]
  /\ crashes = 0

-----------------------------------------------------------------------------
(* A request served by process p calls log_audit. *)
Begin(c, p) ==
  /\ pc[c] = "idle"
  /\ Goto(c, "called")
  /\ proc' = [proc EXCEPT ![c] = p]
  /\ UNCHANGED <<chain, logs, lock, lastRow, pending, crashes>>

InsertLog_Autocommit(c) ==
  /\ pc[c] = "called"
  /\ Cardinality(Connections(proc[c])) < PoolSize
  /\ logs' = logs \cup {c}
  /\ Goto(c, IF AuditHashChain THEN "inserted" ELSE "ready")
  /\ UNCHANGED <<chain, lock, proc, lastRow, pending, crashes>>

(* INSERT INTO audit_logs, on a connection from the pool of the process:   *)
(* the session takes one here, unless its request has it already.          *)
InsertLog(c) ==
  /\ pc[c] = "called"
  /\ Cardinality(Connections(proc[c])) < PoolSize
  /\ Goto(c, IF AuditHashChain THEN "inserted" ELSE "ready")
  /\ UNCHANGED <<chain, logs, lock, proc, lastRow, pending, crashes>>

(* async with _chain_lock *)
AcquireLock(c) ==
  /\ pc[c] = "inserted"
  /\ lock[proc[c]] = NoCall
  /\ lock' = [lock EXCEPT ![proc[c]] = c]
  /\ Goto(c, "locked")
  /\ UNCHANGED <<chain, logs, proc, lastRow, pending, crashes>>

SelectLast(c) ==
  /\ pc[c] = "locked"
  /\ \E r \in LastRows(chain) : lastRow' = [lastRow EXCEPT ![c] = r]
  /\ Goto(c, "selected")
  /\ UNCHANGED <<chain, logs, lock, proc, pending, crashes>>

(* db.add(AuditChainEntry(...)), then the end of the `async with` block:   *)
(* no await lies between them.                                             *)
AddEntry(c) ==
  /\ pc[c] = "selected"
  /\ pending' = [pending EXCEPT ![c] = NextRow(c, lastRow[c])]
  /\ lock' = [lock EXCEPT ![proc[c]] = NoCall]
  /\ Goto(c, "ready")
  /\ UNCHANGED <<chain, logs, proc, lastRow, crashes>>

(* db.commit(): the flush of the pending row and the COMMIT.               *)
Commit(c) ==
  /\ pc[c] = "ready"
  /\ chain' = chain \cup ({pending[c]} \ {NoRow})
  /\ logs' = logs \cup {c}
  /\ Goto(c, "done")
  /\ UNCHANGED <<lock, proc, lastRow, pending, crashes>>

Fail_KeepsLock(c) ==
  /\ pc[c] \in {"called", "inserted", "locked", "ready"}
  /\ pending' = [pending EXCEPT ![c] = NoRow]
  /\ Goto(c, "failed")
  /\ UNCHANGED <<chain, logs, lock, proc, lastRow, crashes>>

(* Any database error (also: no free connection within DB_POOL_TIMEOUT)    *)
(* leaves the lock, rolls the session back, and is swallowed: the caller   *)
(* goes on as if the event had been recorded.  The cancellation of the     *)
(* request, at any of the awaits, leaves the same state behind.            *)
Fail(c) ==
  /\ pc[c] \in {"called", "inserted", "locked", "ready"}
  /\ lock' = IF HasLock(c) THEN [lock EXCEPT ![proc[c]] = NoCall] ELSE lock
  /\ pending' = [pending EXCEPT ![c] = NoRow]
  /\ Goto(c, "failed")
  /\ UNCHANGED <<chain, logs, proc, lastRow, crashes>>

(* A process dies: its calls vanish, PostgreSQL rolls their transactions   *)
(* back, and the restarted process has a fresh lock.                       *)
Crash(p) ==
  /\ crashes < MaxCrashes
  /\ crashes' = crashes + 1
  /\ \E c \in Calls : proc[c] = p /\ pc[c] \in {"called"} \cup Connected
  /\ pc' = [c \in Calls |->
              IF proc[c] = p /\ pc[c] \notin Returned THEN "crashed" ELSE pc[c]]
  /\ pending' = [c \in Calls |->
                   IF proc[c] = p /\ pc[c] \notin Returned THEN NoRow
                   ELSE pending[c]]
  /\ lock' = [lock EXCEPT ![p] = NoCall]
  /\ UNCHANGED <<chain, logs, proc, lastRow>>

Step(c) ==
  \/ InsertLog(c)
  \/ AcquireLock(c)
  \/ SelectLast(c)
  \/ AddEntry(c)
  \/ Commit(c)

Next ==
  \/ \E c \in Calls, p \in Procs : Begin(c, p)
  \/ \E c \in Calls : Step(c) \/ Fail(c)
  \/ \E p \in Procs : Crash(p)

Spec == Init /\ [][Next]_vars

(* asyncio.Lock wakes its waiters in the order they came, and so does the  *)
(* connection pool: a call that is ready to go on is served.               *)
FairSpec == Spec /\ \A c \in Calls : WF_vars(Step(c))

-----------------------------------------------------------------------------
(* Every committed row of audit_chain carries the hash of its own content, *)
(* and either opens the chain or hangs from a committed row one index      *)
(* below it, whose hash it carries.  Forks do not break this: the table is *)
(* always a tree rooted at genesis, whatever the interleaving, the failed  *)
(* calls and the crashes.                                                  *)
HangsFrom(r, rows) ==
  \/ r.index = 0 /\ r.previous = Genesis
  \/ \E q \in rows : q.index + 1 = r.index /\ q.hash = r.previous

ChainLinked ==
  \A r \in chain :
    /\ r.hash = ComputeChainHash(r.previous, r.index, r.rec)
    /\ HangsFrom(r, chain)

(* audit_logs and audit_chain tell the same story: an event is in one      *)
(* exactly when it is in the other, and the chain holds it once.           *)
LogsMatchChain ==
  AuditHashChain =>
    /\ logs = {r.rec : r \in chain}
    /\ \A r, q \in chain : r.rec = q.rec => r = q

(* Rows that share an index were written by calls that overlapped, so      *)
(* there are never more of them than connections in all the pools.         *)
ForkWidthBounded ==
  \A r \in chain :
    Cardinality({q \in chain : q.index = r.index})
      <= Cardinality(Procs) * PoolSize

(* Every call of log_audit gives control back to its request, in spite of  *)
(* waiting for a connection first and for the lock while holding it.       *)
CallsReturn ==
  \A c \in Calls : pc[c] = "called" ~> pc[c] \in Returned

-----------------------------------------------------------------------------
(* What the head of the chain commits to, and the ledger it should be.     *)
LedgerHead ==
  IF chain = {} THEN Genesis ELSE (CHOOSE r \in LastRows(chain) : TRUE).hash

Ledger == INSTANCE AuditLedger WITH ledger <- LedgerHead

(* As long as calls do not overlap, the hash of the last row commits to    *)
(* the whole ledger of recorded events: each commit adds one event at its  *)
(* end and nothing ever rewrites it.                                       *)
LedgerSpec == Ledger!Spec
=============================================================================
