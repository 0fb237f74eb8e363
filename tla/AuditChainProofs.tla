-------------------------- MODULE AuditChainProofs --------------------------
(***************************************************************************)
(* Proofs about the audit trail for every number of calls, processes,      *)
(* connections and crashes: the types, the linkage of the table, the       *)
(* agreement of audit_logs with audit_chain, the width of forks, and what  *)
(* verify_audit_chain never says of an untampered table.  Then, for calls  *)
(* that do not overlap, next to rows changed from outside: the verdict of  *)
(* verify_audit_chain is exact, and the trail implements AuditLedger.      *)
(***************************************************************************)
EXTENDS AuditTamper, NaturalLemmas

(* The strengthening.  A call between its SELECT and the end of the lock   *)
(* remembers a row that is in the table, because rows are never removed;   *)
(* the row it then adds to its session already hangs from the table.       *)
SelectedInChain ==
  \A c \in Calls : pc[c] = "selected" => lastRow[c] \in chain \cup {NoRow}

PendingHangs ==
  \A c \in Calls :
    pending[c] # NoRow =>
      /\ pending[c].rec = c
      /\ pending[c].hash = ComputeChainHash(pending[c].previous,
                                            pending[c].index, c)
      /\ HangsFrom(pending[c], chain)

(* A call has an AuditLog row exactly when it has committed, and at its    *)
(* commit it has a chain row to add exactly when the chain is enabled.     *)
Bookkeeping ==
  \A c \in Calls :
    /\ c \in logs <=> pc[c] = "done"
    /\ AuditHashChain /\ pc[c] = "ready" => pending[c] # NoRow

LinkInv == TypeOK /\ SelectedInChain /\ PendingHangs /\ ChainLinked

Inv == LinkInv /\ Bookkeeping /\ LogsMatchChain

-----------------------------------------------------------------------------
(* The next row on top of a row of the table, or on top of nothing.        *)
LEMMA NextRowType ==
  ASSUME NEW c \in Calls, NEW last \in Rows \cup {NoRow}
  PROVE  NextRow(c, last) \in Rows
<1>1. NextIndex(last) \in Nat
  BY DEF NextIndex, Rows
<1>2. PrevHash(last) \in Hashes
  BY DEF PrevHash, Rows, Hashes, Genesis
<1>3. [index |-> NextIndex(last), rec |-> c] \in Block
  BY <1>1 DEF Block
<1>4. ComputeChainHash(PrevHash(last), NextIndex(last), c) \in Hashes
  BY <1>2, <1>3 DEF ComputeChainHash, Hashes
<1> QED
  BY <1>1, <1>2, <1>4 DEF NextRow, Rows

(* Hanging from a table is not lost when the table grows. *)
LEMMA HangsFromMono ==
  ASSUME NEW r, NEW rows, NEW more, rows \subseteq more, HangsFrom(r, rows)
  PROVE  HangsFrom(r, more)
BY DEF HangsFrom

(* The next row carries its own hash and hangs from the table that its     *)
(* predecessor was read from.                                              *)
LEMMA NextRowHangs ==
  ASSUME NEW c \in Calls, NEW rows \in SUBSET Rows,
         NEW last \in rows \cup {NoRow}
  PROVE  /\ NextRow(c, last).rec = c
         /\ NextRow(c, last).hash
              = ComputeChainHash(NextRow(c, last).previous,
                                 NextRow(c, last).index, c)
         /\ HangsFrom(NextRow(c, last), rows)
<1>1. CASE last = NoRow
  BY <1>1 DEF NextRow, NextIndex, PrevHash, HangsFrom
<1>2. CASE last # NoRow
  <2>1. last \in rows /\ last.index \in Nat
    BY <1>2 DEF Rows
  <2>2. /\ NextRow(c, last).index = last.index + 1
        /\ NextRow(c, last).previous = last.hash
    BY <1>2 DEF NextRow, NextIndex, PrevHash
  <2> QED
    BY <2>1, <2>2 DEF NextRow, HangsFrom
<1> QED
  BY <1>1, <1>2

LEMMA LastRowsSubset ==
  ASSUME NEW rows
  PROVE  LastRows(rows) \subseteq rows \cup {NoRow}
BY DEF LastRows

-----------------------------------------------------------------------------
LEMMA InitInv == Init => Inv
BY ConstantsAssumption
   DEF Init, Inv, LinkInv, TypeOK, SelectedInChain, PendingHangs, ChainLinked,
       Bookkeeping, LogsMatchChain, PCs, Connected, Returned

LEMMA NextTypeOK == TypeOK /\ [Next]_vars => TypeOK'
<1> SUFFICES ASSUME TypeOK, [Next]_vars PROVE TypeOK'
  OBVIOUS
<1> USE ConstantsAssumption DEF TypeOK, PCs, Connected, Returned, Goto
<1>1. ASSUME NEW c \in Calls, NEW p \in Procs, Begin(c, p) PROVE TypeOK'
  BY <1>1 DEF Begin
<1>2. ASSUME NEW c \in Calls, InsertLog(c) PROVE TypeOK'
  BY <1>2 DEF InsertLog
<1>3. ASSUME NEW c \in Calls, AcquireLock(c) PROVE TypeOK'
  BY <1>3 DEF AcquireLock
<1>4. ASSUME NEW c \in Calls, SelectLast(c) PROVE TypeOK'
  BY <1>4, LastRowsSubset DEF SelectLast
<1>5. ASSUME NEW c \in Calls, AddEntry(c) PROVE TypeOK'
  <2>1. NextRow(c, lastRow[c]) \in Rows
    BY NextRowType
  <2> QED
    BY <1>5, <2>1 DEF AddEntry
<1>6. ASSUME NEW c \in Calls, Commit(c) PROVE TypeOK'
  BY <1>6 DEF Commit
<1>7. ASSUME NEW c \in Calls, Fail(c) PROVE TypeOK'
  BY <1>7 DEF Fail
<1>8. ASSUME NEW p \in Procs, Crash(p) PROVE TypeOK'
  BY <1>8 DEF Crash
<1>9. CASE UNCHANGED vars
  BY <1>9 DEF vars
<1> QED
  BY <1>1, <1>2, <1>3, <1>4, <1>5, <1>6, <1>7, <1>8, <1>9 DEF Next, Step

LEMMA NextSelected ==
  LinkInv /\ [Next]_vars => SelectedInChain'
<1> SUFFICES ASSUME LinkInv, [Next]_vars PROVE SelectedInChain'
  OBVIOUS
<1> USE DEF LinkInv, TypeOK, SelectedInChain, Goto
<1>1. ASSUME NEW c \in Calls, NEW p \in Procs, Begin(c, p)
      PROVE  SelectedInChain'
  BY <1>1 DEF Begin
<1>2. ASSUME NEW c \in Calls, InsertLog(c) PROVE SelectedInChain'
  BY <1>2 DEF InsertLog
<1>3. ASSUME NEW c \in Calls, AcquireLock(c) PROVE SelectedInChain'
  BY <1>3 DEF AcquireLock
<1>4. ASSUME NEW c \in Calls, SelectLast(c) PROVE SelectedInChain'
  BY <1>4, LastRowsSubset DEF SelectLast
<1>5. ASSUME NEW c \in Calls, AddEntry(c) PROVE SelectedInChain'
  BY <1>5 DEF AddEntry
<1>6. ASSUME NEW c \in Calls, Commit(c) PROVE SelectedInChain'
  BY <1>6 DEF Commit
<1>7. ASSUME NEW c \in Calls, Fail(c) PROVE SelectedInChain'
  BY <1>7 DEF Fail
<1>8. ASSUME NEW p \in Procs, Crash(p) PROVE SelectedInChain'
  BY <1>8 DEF Crash
<1>9. CASE UNCHANGED vars
  BY <1>9 DEF vars
<1> QED
  BY <1>1, <1>2, <1>3, <1>4, <1>5, <1>6, <1>7, <1>8, <1>9 DEF Next, Step

LEMMA NextPending == LinkInv /\ [Next]_vars => PendingHangs'
<1> SUFFICES ASSUME LinkInv, [Next]_vars,
                    NEW d \in Calls, pending'[d] # NoRow
             PROVE  /\ pending'[d].rec = d
                    /\ pending'[d].hash
                         = ComputeChainHash(pending'[d].previous,
                                            pending'[d].index, d)
                    /\ HangsFrom(pending'[d], chain')
  BY DEF PendingHangs, HangsFrom
<1>a. CASE pending'[d] = pending[d] /\ chain \subseteq chain'
  <2>1. HangsFrom(pending[d], chain)
    BY <1>a DEF LinkInv, PendingHangs
  <2> QED
    BY <1>a, <2>1, HangsFromMono DEF LinkInv, PendingHangs
<1> USE DEF LinkInv, TypeOK
<1>b. CASE \E c \in Calls : AddEntry(c)
  <2>1. PICK c \in Calls : AddEntry(c)
    BY <1>b
  <2>2. CASE c = d
    <3>1. lastRow[d] \in chain \cup {NoRow}
      BY <2>1, <2>2 DEF AddEntry, SelectedInChain
    <3>2. pending'[d] = NextRow(d, lastRow[d]) /\ chain' = chain
      BY <2>1, <2>2 DEF AddEntry
    <3> DEFINE row == NextRow(d, lastRow[d])
    <3>3. chain \in SUBSET Rows
      OBVIOUS
    <3>4. /\ row.rec = d
          /\ row.hash = ComputeChainHash(row.previous, row.index, d)
          /\ HangsFrom(row, chain)
      BY <3>1, <3>3, NextRowHangs
    <3> QED
      BY <3>2, <3>4
  <2>3. CASE c # d
    BY <1>a, <2>1, <2>3 DEF AddEntry
  <2> QED
    BY <2>2, <2>3
<1>1. ASSUME NEW c \in Calls, NEW p \in Procs, Begin(c, p)
      PROVE  pending' = pending /\ chain' = chain
  BY <1>1 DEF Begin
<1>2. ASSUME NEW c \in Calls, InsertLog(c) \/ AcquireLock(c) \/ SelectLast(c)
      PROVE  pending' = pending /\ chain' = chain
  BY <1>2 DEF InsertLog, AcquireLock, SelectLast
<1>3. ASSUME NEW c \in Calls, Commit(c)
      PROVE  pending' = pending /\ chain \subseteq chain'
  BY <1>3 DEF Commit
<1>4. ASSUME NEW c \in Calls, Fail(c)
      PROVE  pending'[d] = pending[d] /\ chain' = chain
  BY <1>4 DEF Fail
<1>5. ASSUME NEW p \in Procs, Crash(p)
      PROVE  pending'[d] = pending[d] /\ chain' = chain
  BY <1>5 DEF Crash
<1>6. CASE UNCHANGED vars
  BY <1>a, <1>6 DEF vars
<1> QED
  BY <1>a, <1>b, <1>1, <1>2, <1>3, <1>4, <1>5, <1>6 DEF Next, Step

(* Only a commit changes the table, and it adds the pending row, if any.   *)
LEMMA ChainStep ==
  ASSUME [Next]_vars
  PROVE  \/ chain' = chain
         \/ \E c \in Calls : Commit(c)
BY DEF Next, Step, vars, Begin, InsertLog, AcquireLock, SelectLast, AddEntry,
       Fail, Crash

LEMMA NextLinked == LinkInv /\ [Next]_vars => ChainLinked'
<1> SUFFICES ASSUME LinkInv, [Next]_vars PROVE ChainLinked'
  OBVIOUS
<1>1. CASE chain' = chain
  BY <1>1 DEF LinkInv, ChainLinked, HangsFrom
<1>2. ASSUME NEW c \in Calls, Commit(c) PROVE ChainLinked'
  <2>1. chain \subseteq chain'
    BY <1>2 DEF Commit
  <2>2. ASSUME NEW r \in chain' \ chain
        PROVE  /\ r.hash = ComputeChainHash(r.previous, r.index, r.rec)
               /\ HangsFrom(r, chain)
    <3>1. r = pending[c] /\ pending[c] # NoRow
      BY <1>2, <2>2 DEF Commit
    <3> QED
      BY <3>1 DEF LinkInv, PendingHangs
  <2>3. ASSUME NEW r \in chain
        PROVE  /\ r.hash = ComputeChainHash(r.previous, r.index, r.rec)
               /\ HangsFrom(r, chain)
    BY DEF LinkInv, ChainLinked
  <2>4. \A r \in chain' : HangsFrom(r, chain')
    BY <2>1, <2>2, <2>3, HangsFromMono
  <2> QED
    BY <2>2, <2>3, <2>4 DEF ChainLinked, HangsFrom
<1> QED
  BY <1>1, <1>2, ChainStep

LEMMA NextBookkeeping == Inv /\ [Next]_vars => Bookkeeping'
<1> SUFFICES ASSUME Inv, [Next]_vars, NEW d \in Calls
             PROVE  /\ d \in logs' <=> pc'[d] = "done"
                    /\ AuditHashChain /\ pc'[d] = "ready"
                         => pending'[d] # NoRow
  BY DEF Bookkeeping
<1> USE DEF Inv, LinkInv, TypeOK, Bookkeeping, Goto
<1>1. ASSUME NEW c \in Calls, NEW p \in Procs, Begin(c, p)
      PROVE  Bookkeeping'
  BY <1>1 DEF Begin
<1>2. ASSUME NEW c \in Calls, InsertLog(c) PROVE Bookkeeping'
  BY <1>2 DEF InsertLog
<1>3. ASSUME NEW c \in Calls, AcquireLock(c) PROVE Bookkeeping'
  BY <1>3 DEF AcquireLock
<1>4. ASSUME NEW c \in Calls, SelectLast(c) PROVE Bookkeeping'
  BY <1>4 DEF SelectLast
<1>5. ASSUME NEW c \in Calls, AddEntry(c) PROVE Bookkeeping'
  <2>1. NextRow(c, lastRow[c]) # NoRow
    BY NextRowType, ConstantsAssumption
  <2> QED
    BY <1>5, <2>1 DEF AddEntry
<1>6. ASSUME NEW c \in Calls, Commit(c) PROVE Bookkeeping'
  BY <1>6 DEF Commit
<1>7. ASSUME NEW c \in Calls, Fail(c) PROVE Bookkeeping'
  BY <1>7 DEF Fail
<1>8. ASSUME NEW p \in Procs, Crash(p) PROVE Bookkeeping'
  BY <1>8 DEF Crash, Returned
<1>9. CASE UNCHANGED vars
  BY <1>9 DEF vars
<1> QED
  BY <1>1, <1>2, <1>3, <1>4, <1>5, <1>6, <1>7, <1>8, <1>9 DEF Next, Step

LEMMA NextLogsMatch == Inv /\ [Next]_vars => LogsMatchChain'
<1> SUFFICES ASSUME Inv, [Next]_vars, AuditHashChain
             PROVE  /\ logs' = {r.rec : r \in chain'}
                    /\ \A r, q \in chain' : r.rec = q.rec => r = q
  BY DEF LogsMatchChain
<1> USE DEF Inv, LinkInv, LogsMatchChain
<1>1. ASSUME NEW c \in Calls, Commit(c)
      PROVE  /\ logs' = {r.rec : r \in chain'}
             /\ \A r, q \in chain' : r.rec = q.rec => r = q
  <2>1. c \notin logs /\ pending[c] # NoRow
    BY <1>1 DEF Commit, Bookkeeping
  <2>2. pending[c].rec = c
    BY <2>1 DEF PendingHangs
  <2>3. chain' = chain \cup {pending[c]} /\ logs' = logs \cup {c}
    BY <1>1, <2>1 DEF Commit
  <2>4. \A r \in chain : r.rec # c
    BY <2>1
  <2> QED
    BY <2>2, <2>3, <2>4
<1>2. CASE chain' = chain /\ logs' = logs
  BY <1>2
<1>3. (chain' = chain /\ logs' = logs) \/ \E c \in Calls : Commit(c)
  BY DEF Next, Step, vars, Begin, InsertLog, AcquireLock, SelectLast, AddEntry,
         Fail, Crash
<1> QED
  BY <1>1, <1>2, <1>3

LEMMA NextInv == Inv /\ [Next]_vars => Inv'
BY NextTypeOK, NextSelected, NextPending, NextLinked, NextBookkeeping,
   NextLogsMatch DEF Inv, LinkInv

LEMMA InvHolds == Spec => []Inv
BY InitInv, NextInv, PTL DEF Spec

-----------------------------------------------------------------------------
(* The variables of every run of the program keep their types. *)
THEOREM TypeCorrect == Spec => []TypeOK
<1>1. Inv => TypeOK
  BY DEF Inv, LinkInv
<1> QED
  BY <1>1, InvHolds, PTL

(* Whatever the interleaving of any number of calls and processes, with    *)
(* failed calls and crashes, audit_chain is a tree rooted at genesis.      *)
THEOREM AlwaysLinked == Spec => []ChainLinked
<1>1. Inv => ChainLinked
  BY DEF Inv, LinkInv
<1> QED
  BY <1>1, InvHolds, PTL

(* With the chain enabled, an event is in audit_logs exactly when it is in *)
(* audit_chain, and there once.                                            *)
THEOREM LogsAlwaysMatch == Spec => []LogsMatchChain
<1>1. Inv => LogsMatchChain
  BY DEF Inv
<1> QED
  BY <1>1, InvHolds, PTL

-----------------------------------------------------------------------------
(* verify_audit_chain.                                                     *)

(* An ordering of the rows has every row, once, by rising index.           *)
LEMMA OrderingFacts ==
  ASSUME NEW rows \in SUBSET Rows, IsFiniteSet(rows), NEW s \in Orderings(rows)
  PROVE  /\ s \in Seq(rows) /\ Len(s) = Cardinality(rows) /\ Len(s) \in Nat
         /\ DOMAIN s = 1..Len(s)
         /\ \A i \in 1..Len(s) : s[i] \in rows /\ s[i] \in Rows
         /\ \A i, j \in 1..Len(s) : i < j => s[i].index <= s[j].index
         /\ \A i, j \in 1..Len(s) : i # j => s[i] # s[j]
         /\ \A r \in rows : \E k \in 1..Len(s) : s[k] = r
<1> DEFINE n == Cardinality(rows)
<1>1. n \in Nat
  BY FS_CardinalityType
<1>2. /\ s \in [1..n -> rows]
      /\ \A i, j \in 1..n : i # j => s[i] # s[j]
      /\ \A i, j \in DOMAIN s : i < j => s[i].index <= s[j].index
  BY DEF Orderings, SetToSeqs
<1>3. s \in Seq(rows) /\ Len(s) = n /\ DOMAIN s = 1..n
  BY <1>1, <1>2
<1>4. ASSUME NEW r \in rows, \A k \in 1..n : s[k] # r PROVE FALSE
  <2>1. s \in [1..n -> rows \ {r}]
    BY <1>2, <1>4
  <2>2. IsFiniteSet(rows \ {r}) /\ Cardinality(rows \ {r}) = n - 1
    BY FS_RemoveElement
  <2>3. IsFiniteSet(1..n) /\ Cardinality(1..n) = n
    <3>1. n # 0
      BY FS_EmptySet
    <3>2. 1 \in Int /\ n \in Int /\ ~(1 > n) /\ n - 1 + 1 = n
      BY <1>1, <3>1
    <3> HIDE DEF n
    <3>3. /\ IsFiniteSet(1..n)
          /\ Cardinality(1..n) = IF 1 > n THEN 0 ELSE n - 1 + 1
      BY <3>2, FS_Interval
    <3> QED BY <3>2, <3>3
  <2>4. \E x, y \in 1..n : x # y /\ s[x] = s[y]
    <3> DEFINE places == 1..n
               others == rows \ {r}
    <3>1. Cardinality(others) < Cardinality(places)
      BY <1>1, <2>2, <2>3
    <3> HIDE DEF places, others
    <3>2. ASSUME IsFiniteSet(places), IsFiniteSet(others),
                 s \in [places -> others]
          PROVE  \E x, y \in places : x # y /\ s[x] = s[y]
      BY <3>1, <3>2, FS_PigeonHole
    <3> QED BY <2>1, <2>2, <2>3, <3>2 DEF places, others
  <2> QED BY <1>2, <2>4
<1> QED BY <1>1, <1>2, <1>3, <1>4

(* The place where the loop over s stops, if it does.                      *)
LEMMA VerdictFacts ==
  ASSUME NEW s, Len(s) \in Nat, DOMAIN s = 1..Len(s)
  PROVE  \/ /\ \A i \in 1..Len(s) : Reason(s, i) = "none"
            /\ VerifyAuditChain(s).ok /\ VerifyAuditChain(s).reason = "none"
         \/ \E first \in 1..Len(s) :
              /\ Reason(s, first) # "none"
              /\ \A i \in 1..(first - 1) : Reason(s, i) = "none"
              /\ ~VerifyAuditChain(s).ok
              /\ VerifyAuditChain(s).reason = Reason(s, first)
<1> DEFINE broken == {i \in DOMAIN s : Reason(s, i) # "none"}
           first == Min(broken)
<1>1. /\ VerifyAuditChain(s).ok <=> broken = {}
      /\ VerifyAuditChain(s).reason
           = IF broken = {} THEN "none" ELSE Reason(s, first)
  BY DEF VerifyAuditChain
<1>2. CASE broken = {}
  BY <1>1, <1>2
<1>3. CASE broken # {}
  <2>1. broken \in SUBSET Nat
    OBVIOUS
  <2>2. first \in broken /\ \A i \in broken : first <= i
    <3>1. \E x \in broken : \A y \in broken : x <= y
      BY <1>3, <2>1, LeastNatural
    <3> HIDE DEF broken
    <3> QED BY <3>1 DEF Min
  <2> HIDE DEF first
  <2>3. first \in 1..Len(s) /\ Reason(s, first) # "none"
    BY <2>2
  <2>4. ASSUME NEW i \in 1..(first - 1) PROVE Reason(s, i) = "none"
    <3>1. i \in DOMAIN s /\ ~(first <= i)
      BY <2>3
    <3> QED BY <2>2, <3>1
  <2> QED BY <1>1, <1>3, <2>3, <2>4
<1> QED BY <1>2, <1>3

Linked(rows) ==
  \A r \in rows :
    /\ r.hash = ComputeChainHash(r.previous, r.index, r.rec)
    /\ HangsFrom(r, rows)

(* In a linked table only an index can be wrong at the first row that the  *)
(* loop does not accept.                                                   *)
LEMMA LinkedReasons ==
  ASSUME NEW rows \in SUBSET Rows, IsFiniteSet(rows), Linked(rows),
         NEW s \in Orderings(rows), NEW i \in 1..Len(s),
         \A j \in 1..(i - 1) : Reason(s, j) = "none"
  PROVE  Reason(s, i) \in {"none", "index_gap"}
<1>1. /\ Len(s) \in Nat /\ \A j \in 1..Len(s) : s[j] \in rows /\ s[j] \in Rows
      /\ \A j, k \in 1..Len(s) : j < k => s[j].index <= s[k].index
      /\ \A r \in rows : \E k \in 1..Len(s) : s[k] = r
  BY OrderingFacts
<1>2. \A j \in 1..Len(s) : s[j].index \in Nat
  BY <1>1 DEF Rows
<1>3. \A j \in 1..(i - 1) : j \in 1..Len(s) /\ s[j].index = j - 1
  <2>1. ASSUME NEW j \in 1..(i - 1) PROVE j \in 1..Len(s)
    BY <1>1
  <2>2. ASSUME NEW j \in 1..(i - 1) PROVE s[j].index = j - 1
    <3>1. Reason(s, j) = "none"
      OBVIOUS
    <3> QED BY <3>1 DEF Reason
  <2> QED BY <2>1, <2>2
<1>4. SUFFICES ASSUME s[i].index = i - 1 PROVE Reason(s, i) = "none"
  BY DEF Reason
<1>5. s[i].previous = IF i = 1 THEN Genesis ELSE s[i - 1].hash
  <2>1. HangsFrom(s[i], rows)
    BY <1>1 DEF Linked
  <2>2. CASE i = 1
    <3>1. \A q \in rows : q.index \in Nat
      BY DEF Rows
    <3> QED BY <1>4, <2>1, <2>2, <3>1 DEF HangsFrom
  <2>3. CASE i # 1
    <3>1. i - 1 # 0 /\ i - 1 \in 1..(i - 1) /\ i \in Nat
      BY <1>1, <2>3
    <3>2. PICK q \in rows : q.index + 1 = s[i].index /\ q.hash = s[i].previous
      BY <1>4, <2>1, <3>1 DEF HangsFrom
    <3>3. PICK k \in 1..Len(s) : s[k] = q
      BY <1>1
    <3>4. k \in Nat /\ s[k].index + 1 = i - 1 /\ s[k].index \in Nat
      BY <1>1, <1>2, <1>4, <3>2, <3>3
    <3>5. ~(i < k) /\ k # i
      <4>1. i < k => i - 1 <= s[k].index
        BY <1>1, <1>4
      <4>2. k = i => s[k].index = i - 1
        BY <1>4
      <4> QED BY <3>1, <3>4, <4>1, <4>2
    <3>6. k \in 1..(i - 1)
      BY <3>1, <3>4, <3>5
    <3>7. k = i - 1
      <4>1. s[k].index = k - 1
        BY <1>3, <3>6
      <4> QED BY <3>1, <3>4, <4>1
    <3> QED BY <2>3, <3>2, <3>3, <3>7
  <2> QED BY <2>2, <2>3
<1>6. s[i].hash = ComputeChainHash(s[i].previous, s[i].index, s[i].rec)
  BY <1>1 DEF Linked
<1> QED BY <1>4, <1>5, <1>6 DEF Reason

(* In a linked table without forks there is nothing wrong.                 *)
LEMMA LinearVerifies ==
  ASSUME NEW rows \in SUBSET Rows, IsFiniteSet(rows), Linked(rows),
         \A r, q \in rows : r.index = q.index => r = q,
         NEW s \in Orderings(rows)
  PROVE  VerifyAuditChain(s).ok
<1>1. /\ Len(s) \in Nat /\ DOMAIN s = 1..Len(s)
      /\ \A j \in 1..Len(s) : s[j] \in rows /\ s[j] \in Rows
      /\ \A j, k \in 1..Len(s) : j < k => s[j].index <= s[k].index
      /\ \A j, k \in 1..Len(s) : j # k => s[j] # s[k]
      /\ \A r \in rows : \E k \in 1..Len(s) : s[k] = r
  BY OrderingFacts
<1>2. \A j \in 1..Len(s) : s[j].index \in Nat
  BY <1>1 DEF Rows
<1>3. SUFFICES ASSUME NEW i \in 1..Len(s), Reason(s, i) # "none",
                      \A j \in 1..(i - 1) : Reason(s, j) = "none"
               PROVE  FALSE
  BY <1>1, VerdictFacts
<1>4. i \in Nat /\ s[i].index \in Nat /\ s[i].index # i - 1
  <2>1. Reason(s, i) = "index_gap"
    BY <1>3, LinkedReasons
  <2> QED BY <1>1, <1>2, <2>1 DEF Reason
<1>5. \A j \in 1..(i - 1) : j \in 1..Len(s) /\ s[j].index = j - 1
  <2>1. ASSUME NEW j \in 1..(i - 1) PROVE j \in 1..Len(s)
    BY <1>1
  <2>2. ASSUME NEW j \in 1..(i - 1) PROVE s[j].index = j - 1
    <3>1. Reason(s, j) = "none"
      BY <1>3
    <3> QED BY <3>1 DEF Reason
  <2> QED BY <2>1, <2>2
<1>6. s[i].index > i - 1
  <2>1. CASE i = 1
    BY <1>4, <2>1
  <2>2. CASE i # 1
    <3>1. i - 1 \in 1..(i - 1) /\ i - 1 \in 1..Len(s) /\ i - 1 < i /\ i - 1 # i
      BY <1>1, <1>4, <2>2
    <3>2. s[i - 1].index = i - 1 - 1 /\ s[i - 1].index <= s[i].index
      BY <1>1, <1>5, <3>1
    <3>3. s[i - 1].index # s[i].index
      <4>1. s[i - 1] # s[i]
        BY <1>1, <3>1
      <4>2. s[i - 1] \in rows /\ s[i] \in rows
        BY <1>1, <3>1
      <4> QED BY <4>1, <4>2
    <3> QED BY <1>4, <3>2, <3>3
  <2> QED BY <2>1, <2>2
<1>7. PICK q \in rows : q.index + 1 = s[i].index
  <2>1. HangsFrom(s[i], rows)
    BY <1>1 DEF Linked
  <2> QED BY <1>4, <1>6, <2>1 DEF HangsFrom
<1>8. PICK k \in 1..Len(s) : s[k] = q
  BY <1>1
<1>9. k \in Nat /\ s[k].index \in Nat /\ s[k].index + 1 = s[i].index
  BY <1>1, <1>2, <1>7, <1>8
<1>10. CASE k < i
  <2>1. k \in 1..(i - 1)
    BY <1>4, <1>8, <1>9, <1>10
  <2>2. s[k].index = k - 1
    BY <1>5, <2>1
  <2> QED BY <1>4, <1>6, <1>9, <1>10, <2>2
<1>11. CASE ~(k < i)
  <2>1. k = i \/ i < k
    BY <1>4, <1>9, <1>11
  <2>2. s[i].index <= s[k].index
    BY <1>1, <1>4, <2>1
  <2> QED BY <1>4, <1>9, <2>2
<1> QED BY <1>10, <1>11

(* Adding the rows of a set of one row or none keeps it finite.            *)
ChainFinite == IsFiniteSet(chain)

LEMMA NextFinite == ChainFinite /\ [Next]_vars => ChainFinite'
<1> SUFFICES ASSUME ChainFinite, [Next]_vars PROVE IsFiniteSet(chain')
  BY DEF ChainFinite
<1>1. ASSUME NEW c \in Calls, Commit(c) PROVE IsFiniteSet(chain')
  <2>1. chain' = chain \/ chain' = chain \cup {pending[c]}
    BY <1>1 DEF Commit
  <2>2. IsFiniteSet(chain \cup {pending[c]})
    BY FS_AddElement DEF ChainFinite
  <2> QED BY <2>1, <2>2 DEF ChainFinite
<1> QED BY <1>1, ChainStep DEF ChainFinite

(* Whatever calls were interleaved, failed or crashed, verify_audit_chain  *)
(* never takes a row that only log_audit has written for one that somebody *)
(* changed: all it finds in any order of the rows are forks.               *)
THEOREM NeverFalselyTampered == Spec => []NoFalseTamperReason
<1>1. Init => ChainFinite
  BY FS_EmptySet DEF Init, ChainFinite
<1>2. Inv /\ ChainFinite => NoFalseTamperReason
  <2> SUFFICES ASSUME Inv, ChainFinite, NEW s \in Orderings(chain)
               PROVE  VerifyAuditChain(s).reason \in {"none", "index_gap"}
    BY DEF NoFalseTamperReason, Verdicts
  <2>1. chain \in SUBSET Rows /\ IsFiniteSet(chain) /\ Linked(chain)
    BY DEF Inv, LinkInv, TypeOK, ChainLinked, Linked, ChainFinite
  <2>2. Len(s) \in Nat /\ DOMAIN s = 1..Len(s)
    BY <2>1, OrderingFacts
  <2> QED BY <2>1, <2>2, LinkedReasons, VerdictFacts
<1> QED
  BY <1>1, <1>2, NextFinite, InvHolds, PTL DEF Spec

-----------------------------------------------------------------------------
(* The width of a fork: rows of one index, and calls that are about to     *)
(* commit another, having looked when there was none.                      *)

Fork(i) == {r \in chain : r.index = i}

Coming(i) ==
  {c \in Calls :
     \/ pc[c] = "selected" /\ NextIndex(lastRow[c]) = i
     \/ pc[c] = "ready" /\ pending[c] # NoRow /\ pending[c].index = i}

Bound == Cardinality(Procs) * PoolSize

(* A process holds no more connections than its pool has.                  *)
PoolKept ==
  /\ \A c \in Calls : pc[c] # "idle" => proc[c] \in Procs
  /\ \A p \in Procs : Cardinality(Connections(p)) <= PoolSize

PendingWhenReady ==
  \A c \in Calls :
    pc[c] \in {"idle", "called", "inserted", "locked", "selected"} =>
      pending[c] = NoRow

WidthKept ==
  \A i \in Nat :
    Fork(i) # {} => Cardinality(Fork(i)) + Cardinality(Coming(i)) <= Bound

ForkInv == PoolKept /\ PendingWhenReady /\ WidthKept

LEMMA CallsFinite ==
  ASSUME NEW S \in SUBSET Calls
  PROVE  IsFiniteSet(S) /\ Cardinality(S) \in Nat
  BY ConstantsAssumption, FS_Subset, FS_CardinalityType

LEMMA FewerCalls ==
  ASSUME NEW T \in SUBSET Calls, NEW S \in SUBSET T
  PROVE  Cardinality(S) <= Cardinality(T)
  BY CallsFinite, FS_Subset

LEMMA NextPool == TypeOK /\ PoolKept /\ [Next]_vars => PoolKept'
<1> SUFFICES ASSUME TypeOK, PoolKept, [Next]_vars PROVE PoolKept'
  OBVIOUS
<1>1. \A c \in Calls : pc'[c] # "idle" => proc'[c] \in Procs
  BY DEF PoolKept, TypeOK, Next, Step, vars, Begin, InsertLog, AcquireLock,
         SelectLast, AddEntry, Commit, Fail, Crash, Goto
<1>2. SUFFICES ASSUME NEW p \in Procs
               PROVE  Cardinality(Connections(p)') <= PoolSize
  BY <1>1 DEF PoolKept
<1>3. Connections(p) \in SUBSET Calls /\ Connections(p)' \in SUBSET Calls
  BY DEF Connections
<1>4. /\ Cardinality(Connections(p)) \in Nat
      /\ Cardinality(Connections(p)') \in Nat
      /\ Cardinality(Connections(p)) <= PoolSize /\ PoolSize \in Nat
  BY <1>3, CallsFinite, ConstantsAssumption DEF PoolKept
<1>5. CASE Connections(p)' \subseteq Connections(p)
  <2>1. Cardinality(Connections(p)') <= Cardinality(Connections(p))
    BY <1>3, <1>5, FewerCalls
  <2> QED BY <1>4, <2>1
<1>6. ASSUME NEW c \in Calls, InsertLog(c), proc[c] = p
      PROVE  Cardinality(Connections(p)') <= PoolSize
  <2>1. Cardinality(Connections(p)) < PoolSize
    BY <1>6 DEF InsertLog
  <2>2. Connections(p)' \subseteq Connections(p) \cup {c}
    BY <1>6 DEF InsertLog, Connections, Goto, TypeOK
  <2>3. /\ IsFiniteSet(Connections(p))
        /\ Connections(p) \cup {c} \in SUBSET Calls
    BY <1>3, CallsFinite
  <2>4. Cardinality(Connections(p) \cup {c}) <= Cardinality(Connections(p)) + 1
    BY <2>3, OneMoreElement
  <2>5. /\ Cardinality(Connections(p)') <= Cardinality(Connections(p) \cup {c})
        /\ Cardinality(Connections(p) \cup {c}) \in Nat
    BY <2>2, <2>3, FewerCalls, CallsFinite
  <2> QED BY <1>4, <2>1, <2>4, <2>5
<1>7. ASSUME NEW c \in Calls, InsertLog(c), proc[c] # p
      PROVE  Connections(p)' \subseteq Connections(p)
  BY <1>7 DEF InsertLog, Connections, Goto, TypeOK
<1>8. ASSUME NEW c \in Calls,
             \/ \E q \in Procs : Begin(c, q)
             \/ AcquireLock(c) \/ SelectLast(c) \/ AddEntry(c)
             \/ Commit(c) \/ Fail(c)
      PROVE  Connections(p)' \subseteq Connections(p)
  BY <1>8 DEF Begin, AcquireLock, SelectLast, AddEntry, Commit, Fail,
              Connections, Connected, Goto, TypeOK
<1>9. ASSUME NEW q \in Procs, Crash(q)
      PROVE  Connections(p)' \subseteq Connections(p)
  BY <1>9 DEF Crash, Connections, Connected, Returned, TypeOK
<1>10. CASE UNCHANGED vars
  BY <1>5, <1>10 DEF vars, Connections
<1> QED
  BY <1>5, <1>6, <1>7, <1>8, <1>9, <1>10 DEF Next, Step

LEMMA NextPendingWhenReady ==
  TypeOK /\ PendingWhenReady /\ [Next]_vars => PendingWhenReady'
<1> SUFFICES ASSUME TypeOK, PendingWhenReady, [Next]_vars,
                    NEW d \in Calls,
                    pc'[d] \in {"idle", "called", "inserted", "locked",
                                "selected"}
             PROVE  pending'[d] = NoRow
  BY DEF PendingWhenReady
<1> USE DEF TypeOK, PendingWhenReady, Goto
<1>1. ASSUME NEW c \in Calls, NEW p \in Procs, Begin(c, p)
      PROVE  pending'[d] = NoRow
  BY <1>1 DEF Begin
<1>2. ASSUME NEW c \in Calls, InsertLog(c) \/ AcquireLock(c) \/ SelectLast(c)
      PROVE  pending'[d] = NoRow
  BY <1>2 DEF InsertLog, AcquireLock, SelectLast
<1>3. ASSUME NEW c \in Calls, AddEntry(c) \/ Commit(c) \/ Fail(c)
      PROVE  pending'[d] = NoRow
  BY <1>3 DEF AddEntry, Commit, Fail
<1>4. ASSUME NEW p \in Procs, Crash(p) PROVE pending'[d] = NoRow
  BY <1>4 DEF Crash, Returned
<1>5. CASE UNCHANGED vars
  BY <1>5 DEF vars
<1> QED
  BY <1>1, <1>2, <1>3, <1>4, <1>5 DEF Next, Step

(* All calls that hold a connection, of whatever process. *)
LEMMA ConnectedBound ==
  ASSUME TypeOK, PoolKept, NEW S \in SUBSET {c \in Calls : pc[c] \in Connected}
  PROVE  Cardinality(S) <= Bound
<1> DEFINE f == [c \in S |-> proc[c]]
<1>1. f \in [S -> Procs]
  BY DEF PoolKept, Connected
<1>2. ASSUME NEW p \in Procs
      PROVE  Cardinality({c \in S : f[c] = p}) <= PoolSize
  <2>1. /\ {c \in S : f[c] = p} \in SUBSET Connections(p)
        /\ Connections(p) \in SUBSET Calls
    BY DEF Connections
  <2>2. Cardinality({c \in S : f[c] = p}) <= Cardinality(Connections(p))
    BY <2>1, FewerCalls
  <2>3. /\ Cardinality(Connections(p)) \in Nat /\ PoolSize \in Nat
        /\ Cardinality({c \in S : f[c] = p}) \in Nat
        /\ Cardinality(Connections(p)) <= PoolSize
    BY <2>1, CallsFinite, ConstantsAssumption DEF PoolKept
  <2> QED BY <2>2, <2>3
<1>3. IsFiniteSet(S) /\ IsFiniteSet(Procs) /\ PoolSize \in Nat
  BY CallsFinite, ConstantsAssumption
<1> HIDE DEF f
<1>4. Cardinality(S) <= Cardinality(Procs) * PoolSize
  BY <1>1, <1>2, <1>3, FiberBound
<1> QED BY <1>4 DEF Bound

LEMMA NextWidth ==
  /\ TypeOK /\ ChainFinite /\ ForkInv /\ [Next]_vars
  => WidthKept'
<1> SUFFICES ASSUME TypeOK, ChainFinite, ForkInv, [Next]_vars,
                    NEW i \in Nat, Fork(i)' # {}
             PROVE  Cardinality(Fork(i)') + Cardinality(Coming(i)') <= Bound
  BY DEF WidthKept
<1> DEFINE F == Fork(i)
           C == Coming(i)
<1>1. /\ C \in SUBSET Calls /\ C' \in SUBSET Calls
      /\ C \in SUBSET {c \in Calls : pc[c] \in Connected}
  BY DEF Coming, Connected
<1>2. /\ IsFiniteSet(C) /\ IsFiniteSet(C') /\ Cardinality(C) \in Nat
      /\ Cardinality(C') \in Nat /\ Cardinality(C) <= Bound
  BY <1>1, CallsFinite, ConnectedBound DEF ForkInv
<1>3. IsFiniteSet(F) /\ Cardinality(F) \in Nat
  <2>1. F \in SUBSET chain
    BY DEF Fork
  <2> QED BY <2>1, FS_Subset, FS_CardinalityType DEF ChainFinite
<1>4. Bound \in Nat
  BY ConstantsAssumption, FS_CardinalityType DEF Bound
<1>5. CASE F' = F /\ C' \subseteq C
  <2>1. Cardinality(C') <= Cardinality(C)
    BY <1>1, <1>5, FewerCalls
  <2>2. Cardinality(F) + Cardinality(C) <= Bound
    BY <1>5 DEF ForkInv, WidthKept
  <2> HIDE DEF F, C
  <2>3. Cardinality(F') = Cardinality(F)
    BY <1>5
  <2>4. Cardinality(F') + Cardinality(C') <= Bound
    BY <1>2, <1>3, <1>4, <2>1, <2>2, <2>3
  <2> QED BY <2>4 DEF F, C
<1>6. ASSUME NEW c \in Calls, Commit(c)
      PROVE  Cardinality(F') + Cardinality(C') <= Bound
  <2>1. CASE pending[c] # NoRow /\ pending[c].index = i
    <3>1. c \in C /\ C' \subseteq C \ {c}
      BY <1>6, <2>1 DEF Commit, Coming, TypeOK, Goto
    <3>2. F' = F \cup {pending[c]}
      BY <1>6, <2>1 DEF Commit, Fork
    <3>3. Cardinality(C') + 1 <= Cardinality(C)
      <4>1. Cardinality(C \ {c}) + 1 = Cardinality(C)
        BY <1>2, <3>1, OneElementLess
      <4>2. Cardinality(C') <= Cardinality(C \ {c})
        BY <1>1, <3>1, FewerCalls
      <4>3. Cardinality(C \ {c}) \in Nat
        BY <1>1, CallsFinite
      <4> HIDE DEF C
      <4> QED BY <1>2, <4>1, <4>2, <4>3
    <3>4. Cardinality(F') <= Cardinality(F) + 1 /\ Cardinality(F') \in Nat
      <4> HIDE DEF F
      <4> QED BY <1>3, <3>2, OneMoreElement
    <3>5. CASE F = {}
      <4>1. Cardinality(F) = 0
        BY <3>5, FS_EmptySet
      <4> HIDE DEF F, C
      <4> QED BY <1>2, <1>4, <3>3, <3>4, <4>1
    <3>6. CASE F # {}
      <4>1. Cardinality(F) + Cardinality(C) <= Bound
        BY <3>6 DEF ForkInv, WidthKept
      <4> HIDE DEF F, C
      <4> QED BY <1>2, <1>3, <1>4, <3>3, <3>4, <4>1
    <3> QED BY <3>5, <3>6
  <2>2. CASE ~(pending[c] # NoRow /\ pending[c].index = i)
    <3>1. F' = F
      BY <1>6, <2>2 DEF Commit, Fork
    <3>2. C' \subseteq C
      BY <1>6 DEF Commit, Coming, TypeOK, Goto
    <3> QED BY <1>5, <3>1, <3>2
  <2> QED BY <2>1, <2>2
<1>7. ASSUME NEW c \in Calls, SelectLast(c)
      PROVE  F' = F /\ C' \subseteq C
  <2>1. F' = F
    BY <1>7 DEF SelectLast, Fork
  <2>2. PICK r \in LastRows(chain) : lastRow' = [lastRow EXCEPT ![c] = r]
    BY <1>7 DEF SelectLast
  <2>3. NextIndex(r) # i
    <3>1. PICK q \in chain : q.index = i
      BY <2>1 DEF Fork
    <3>2. r \in chain /\ q.index <= r.index /\ r # NoRow /\ r.index \in Nat
      BY <3>1, ConstantsAssumption DEF LastRows, TypeOK, Rows
    <3> QED BY <3>1, <3>2 DEF NextIndex
  <2> QED BY <1>7, <2>1, <2>2, <2>3 DEF SelectLast, Coming, TypeOK, Goto
<1>8. ASSUME NEW c \in Calls, AddEntry(c)
      PROVE  F' = F /\ C' \subseteq C
  <2>1. NextRow(c, lastRow[c]).index = NextIndex(lastRow[c])
    BY DEF NextRow
  <2> QED BY <1>8, <2>1 DEF AddEntry, Coming, Fork, TypeOK, Goto
<1>9. ASSUME NEW c \in Calls,
             \/ \E q \in Procs : Begin(c, q)
             \/ InsertLog(c) \/ AcquireLock(c) \/ Fail(c)
      PROVE  F' = F /\ C' \subseteq C
  BY <1>9 DEF Begin, InsertLog, AcquireLock, Fail, Coming, Fork, TypeOK, Goto,
              ForkInv, PendingWhenReady
<1>10. ASSUME NEW q \in Procs, Crash(q)
      PROVE  F' = F /\ C' \subseteq C
  BY <1>10 DEF Crash, Coming, Fork, Returned, TypeOK
<1>11. CASE UNCHANGED vars
  BY <1>5, <1>11 DEF vars, Fork, Coming
<1> QED
  BY <1>5, <1>6, <1>7, <1>8, <1>9, <1>10, <1>11 DEF Next, Step

(* Rows that share an index are never more than all the pools have         *)
(* connections: whoever adds one of them had looked before the first was   *)
(* committed, and has held its connection ever since.                      *)
THEOREM ForksStayNarrow == Spec => []ForkWidthBounded
<1>1. Init => ChainFinite /\ ForkInv
  <2> SUFFICES ASSUME Init PROVE ChainFinite /\ ForkInv
    OBVIOUS
  <2>1. ChainFinite /\ PendingWhenReady /\ WidthKept
    BY FS_EmptySet DEF Init, ChainFinite, PendingWhenReady, WidthKept, Fork
  <2>2. ASSUME NEW p \in Procs PROVE Cardinality(Connections(p)) <= PoolSize
    <3>1. Connections(p) = {}
      BY DEF Init, Connections, Connected
    <3> QED BY <3>1, FS_EmptySet, ConstantsAssumption
  <2>3. PoolKept
    BY <2>2 DEF Init, PoolKept
  <2> QED BY <2>1, <2>3 DEF ForkInv
<1>2. TypeOK /\ ChainFinite /\ ForkInv /\ [Next]_vars
        => ForkInv' /\ ChainFinite'
  BY NextPool, NextPendingWhenReady, NextWidth, NextFinite DEF ForkInv
<1>3. TypeOK /\ ChainFinite /\ ForkInv => ForkWidthBounded
  <2> SUFFICES ASSUME TypeOK, ChainFinite, ForkInv, NEW r \in chain
               PROVE  Cardinality(Fork(r.index)) <= Bound
    BY DEF ForkWidthBounded, Fork, Bound
  <2>1. r.index \in Nat /\ Fork(r.index) # {}
    BY DEF TypeOK, Rows, Fork
  <2>2. Cardinality(Fork(r.index)) + Cardinality(Coming(r.index)) <= Bound
    BY <2>1 DEF ForkInv, WidthKept
  <2>3. Cardinality(Fork(r.index)) \in Nat
    <3>1. Fork(r.index) \in SUBSET chain
      BY DEF Fork
    <3> QED BY <3>1, FS_Subset, FS_CardinalityType DEF ChainFinite
  <2>4. Cardinality(Coming(r.index)) \in Nat
    <3>1. Coming(r.index) \in SUBSET Calls
      BY DEF Coming
    <3> QED BY <3>1, CallsFinite
  <2>5. Bound \in Nat
    BY ConstantsAssumption, FS_CardinalityType DEF Bound
  <2> QED BY <2>2, <2>3, <2>4, <2>5
<1> QED
  BY <1>1, <1>2, <1>3, TypeCorrect, PTL DEF Spec

-----------------------------------------------------------------------------
(* Calls that do not overlap, next to an outside hand that changes rows.   *)

(* All pools together have one connection. *)
Serial == Cardinality(Procs) = 1 /\ PoolSize = 1

OneEach(rows) == \A r, q \in rows : r.index = q.index => r = q

(* A next row with this index and previous hash belongs behind the head.   *)
OnTop(index, previous) ==
  \/ chain = {} /\ index = 0 /\ previous = Genesis
  \/ \E r \in LastRows(chain) :
       chain # {} /\ index = r.index + 1 /\ previous = r.hash

(* What log_audit wrote is one chain, and the table is made of rows of it, *)
(* its last one among them, that are as they were but for what they record *)
Straight ==
  /\ written \in SUBSET Rows /\ Linked(written)
  /\ OneEach(chain) /\ OneEach(written)
  /\ chain # {} => LastRows(chain) # {}
  /\ \A r \in chain : \E w \in written :
       w.index = r.index /\ w.previous = r.previous /\ w.hash = r.hash
  /\ \A w \in written : \E r \in chain : w.index <= r.index

(* The call that holds the connection goes on from the head.               *)
ReadyOnTop ==
  \A c \in Calls :
    /\ pc[c] = "selected" =>
         OnTop(NextIndex(lastRow[c]), PrevHash(lastRow[c]))
    /\ pc[c] = "ready" /\ pending[c] # NoRow =>
         /\ OnTop(pending[c].index, pending[c].previous)
         /\ pending[c].rec = c
         /\ pending[c].hash = ComputeChainHash(pending[c].previous,
                                               pending[c].index, c)

(* A hash commits to as many records as it has rows below it, all of them  *)
(* of calls that are done.                                                 *)
HashesLogged ==
  /\ \A r \in chain : /\ Len(r.hash) = r.index + 1
                      /\ \A i \in DOMAIN r.hash : r.hash[i].rec \in logs
  /\ \A c \in Calls : c \in logs <=> pc[c] = "done"

TableInv == TypeOK /\ ChainFinite /\ PoolKept /\ PendingWhenReady

TInv == TableInv /\ Straight /\ ReadyOnTop /\ HashesLogged

LEMMA OneAtATime ==
  ASSUME Serial, TypeOK, PoolKept, NEW c \in Calls, NEW d \in Calls,
         pc[c] \in Connected, pc[d] \in Connected
  PROVE  c = d
<1>1. SUFFICES ASSUME c # d PROVE FALSE
  OBVIOUS
<1>2. Cardinality({c, d}) <= 1
  <2>1. Bound = 1
    BY DEF Bound, Serial
  <2> QED BY <2>1, ConnectedBound
<1>3. IsFiniteSet({c}) /\ Cardinality({c}) = 1
  BY FS_Singleton
<1>4. {c} \cup {d} = {c, d} /\ d \notin {c}
  BY <1>1
<1>5. Cardinality({c} \cup {d}) = Cardinality({c}) + 1
  BY <1>3, <1>4, FS_AddElement
<1> QED BY <1>2, <1>3, <1>4, <1>5

(* There is one head. *)
LEMMA HeadFacts ==
  ASSUME TypeOK, Straight, chain # {}
  PROVE  \E r \in chain :
           /\ LastRows(chain) = {r} /\ LedgerHead = r.hash
           /\ \A q \in chain : q.index <= r.index
<1>1. PICK r \in LastRows(chain) : TRUE
  BY DEF Straight
<1>2. r \in chain /\ \A q \in chain : q.index <= r.index
  BY <1>1 DEF LastRows
<1>3. \A q \in chain : q.index \in Nat
  BY DEF TypeOK, Rows
<1>4. ASSUME NEW q \in LastRows(chain) PROVE q = r
  <2>1. q \in chain /\ r.index <= q.index /\ q.index <= r.index
    BY <1>2, <1>4 DEF LastRows
  <2>2. q.index = r.index
    BY <1>2, <1>3, <2>1
  <2> QED BY <1>2, <2>1, <2>2 DEF Straight, OneEach
<1>5. LastRows(chain) = {r}
  BY <1>1, <1>4
<1> QED BY <1>2, <1>5 DEF LedgerHead

LEMMA OnTopFacts ==
  ASSUME TypeOK, Straight, HashesLogged, NEW index, NEW previous,
         OnTop(index, previous)
  PROVE  /\ index \in Nat /\ previous \in Hashes /\ previous = LedgerHead
         /\ Len(previous) = index
         /\ \A i \in DOMAIN previous : previous[i].rec \in logs
         /\ \A q \in chain : q.index < index
         /\ \/ index = 0 /\ previous = Genesis
            \/ \E q \in chain : q.index + 1 = index /\ q.hash = previous
<1>1. CASE chain = {}
  <2>1. index = 0 /\ previous = Genesis
    BY <1>1 DEF OnTop
  <2> QED BY <1>1, <2>1 DEF LedgerHead, Genesis, Hashes
<1>2. CASE chain # {}
  <2>1. PICK r \in chain :
          /\ LastRows(chain) = {r} /\ LedgerHead = r.hash
          /\ \A q \in chain : q.index <= r.index
    BY <1>2, HeadFacts
  <2>2. index = r.index + 1 /\ previous = r.hash
    BY <1>2, <2>1 DEF OnTop
  <2>3. \A q \in chain : q.index \in Nat /\ q.hash \in Hashes
    BY DEF TypeOK, Rows
  <2>4. \A q \in chain : q.index < index
    BY <2>1, <2>2, <2>3
  <2> QED BY <2>1, <2>2, <2>3, <2>4 DEF HashesLogged
<1> QED BY <1>1, <1>2

LEMMA NextReadyOnTop ==
  ASSUME Serial, TInv, [Next]_vars
  PROVE  ReadyOnTop'
<1> SUFFICES ASSUME NEW d \in Calls
             PROVE  /\ pc'[d] = "selected" =>
                         OnTop(NextIndex(lastRow[d]), PrevHash(lastRow[d]))'
                    /\ pc'[d] = "ready" /\ pending'[d] # NoRow =>
                         /\ OnTop(pending[d].index, pending[d].previous)'
                         /\ pending'[d].rec = d
                         /\ pending'[d].hash
                              = ComputeChainHash(pending'[d].previous,
                                                 pending'[d].index, d)
  BY DEF ReadyOnTop
<1> USE DEF TInv, TableInv, TypeOK, Goto
<1>a. CASE /\ chain' = chain
           /\ pc'[d] = pc[d] \/ pc'[d] \notin {"selected", "ready"}
           /\ lastRow'[d] = lastRow[d] /\ pending'[d] = pending[d]
  BY <1>a DEF ReadyOnTop, OnTop, LastRows, NextIndex, PrevHash
<1>1. ASSUME NEW c \in Calls, NEW p \in Procs, Begin(c, p)
      PROVE  /\ chain' = chain
             /\ pc'[d] = pc[d] \/ pc'[d] \notin {"selected", "ready"}
             /\ lastRow'[d] = lastRow[d] /\ pending'[d] = pending[d]
  BY <1>1 DEF Begin
<1>2. ASSUME NEW c \in Calls, InsertLog(c),
             pc'[d] = "selected" \/ (pc'[d] = "ready" /\ pending'[d] # NoRow)
      PROVE  /\ chain' = chain /\ pc'[d] = pc[d]
             /\ lastRow'[d] = lastRow[d] /\ pending'[d] = pending[d]
  BY <1>2 DEF InsertLog, PendingWhenReady
<1>3. ASSUME NEW c \in Calls, AcquireLock(c) \/ Fail(c)
      PROVE  /\ chain' = chain
             /\ \/ /\ pc'[d] = pc[d] 
                   /\ lastRow'[d] = lastRow[d] /\ pending'[d] = pending[d]
                \/ pc'[d] \notin {"selected", "ready"}
  BY <1>3 DEF AcquireLock, Fail
<1>4. ASSUME NEW c \in Calls, SelectLast(c), pc'[d] \in {"selected", "ready"}
      PROVE  \/ /\ chain' = chain /\ pc'[d] = pc[d]
                /\ lastRow'[d] = lastRow[d] /\ pending'[d] = pending[d]
             \/ pc'[d] = "selected"
                /\ OnTop(NextIndex(lastRow[d]), PrevHash(lastRow[d]))'
  <2>1. CASE c # d
    BY <1>4, <2>1 DEF SelectLast
  <2>2. CASE c = d
    <3>1. PICK r \in LastRows(chain) : lastRow' = [lastRow EXCEPT ![d] = r]
      BY <1>4, <2>2 DEF SelectLast
    <3>2. chain' = chain /\ lastRow'[d] = r /\ pc'[d] = "selected"
      BY <1>4, <2>2, <3>1 DEF SelectLast
    <3>3. CASE chain = {}
      <4>1. r = NoRow
        BY <3>1, <3>3 DEF LastRows
      <4> QED BY <3>2, <3>3, <4>1 DEF OnTop, NextIndex, PrevHash
    <3>4. CASE chain # {}
      <4>1. r # NoRow
        BY <3>1, <3>4, ConstantsAssumption DEF LastRows
      <4> QED
        BY <3>1, <3>2, <3>4, <4>1 DEF OnTop, NextIndex, PrevHash, LastRows
    <3> QED BY <3>3, <3>4
  <2> QED BY <2>1, <2>2
<1>5. ASSUME NEW c \in Calls, AddEntry(c), pc'[d] \in {"selected", "ready"}
      PROVE  \/ /\ chain' = chain /\ pc'[d] = pc[d]
                /\ lastRow'[d] = lastRow[d] /\ pending'[d] = pending[d]
             \/ /\ pc'[d] = "ready"
                /\ OnTop(pending[d].index, pending[d].previous)'
                /\ pending'[d].rec = d
                /\ pending'[d].hash = ComputeChainHash(pending'[d].previous,
                                                       pending'[d].index, d)
  <2>1. CASE c # d
    BY <1>5, <2>1 DEF AddEntry
  <2>2. CASE c = d
    <3>1. /\ chain' = chain /\ pc'[d] = "ready" /\ pc[d] = "selected"
          /\ pending'[d] = NextRow(d, lastRow[d])
      BY <1>5, <2>2 DEF AddEntry
    <3>2. /\ pending'[d].index = NextIndex(lastRow[d])
          /\ pending'[d].previous = PrevHash(lastRow[d])
          /\ pending'[d].rec = d
          /\ pending'[d].hash = ComputeChainHash(PrevHash(lastRow[d]),
                                                 NextIndex(lastRow[d]), d)
      BY <3>1 DEF NextRow
    <3>3. OnTop(NextIndex(lastRow[d]), PrevHash(lastRow[d]))
      BY <3>1 DEF ReadyOnTop
    <3>4. OnTop(pending[d].index, pending[d].previous)'
      BY <3>1, <3>2, <3>3 DEF OnTop, LastRows
    <3> QED BY <3>1, <3>2, <3>4
  <2> QED BY <2>1, <2>2
<1>6. ASSUME NEW c \in Calls, Commit(c)
      PROVE  pc'[d] \notin {"selected", "ready"}
  <2>1. pc[c] = "ready" /\ pc' = [pc EXCEPT ![c] = "done"]
    BY <1>6 DEF Commit
  <2>2. pc[d] \in {"selected", "ready"} => c = d
    BY <2>1, OneAtATime DEF Connected
  <2> QED BY <2>1, <2>2
<1>7. ASSUME NEW p \in Procs, Crash(p)
      PROVE  /\ chain' = chain
             /\ \/ /\ pc'[d] = pc[d] 
                   /\ lastRow'[d] = lastRow[d] /\ pending'[d] = pending[d]
                \/ pc'[d] \notin {"selected", "ready"}
  BY <1>7 DEF Crash
<1>8. CASE UNCHANGED vars
  BY <1>a, <1>8 DEF vars
<1> QED
  BY <1>a, <1>1, <1>2, <1>3, <1>4, <1>5, <1>6, <1>7, <1>8 DEF Next, Step

(* A commit puts its row on top of the table and of what was written.      *)
LEMMA CommitOnTop ==
  ASSUME TInv, NEW c \in Calls, Commit(c), pending[c] # NoRow,
         written' = written \cup (chain' \ chain)
  PROVE  /\ Straight' /\ HashesLogged'
         /\ Ledger!Next
<1> DEFINE row == pending[c]
<1>1. /\ row \in Rows /\ row.index \in Nat /\ row.rec = c
      /\ OnTop(row.index, row.previous)
      /\ row.hash = ComputeChainHash(row.previous, row.index, c)
      /\ chain' = chain \cup {row} /\ logs' = logs \cup {c} /\ c \notin logs
      /\ pc' = [pc EXCEPT ![c] = "done"]
  <2>1. row \in Rows
    BY DEF TInv, TableInv, TypeOK
  <2>2. row.index \in Nat
    BY <2>1 DEF Rows
  <2> QED BY <2>1, <2>2 DEF Commit, TInv, ReadyOnTop, HashesLogged, Goto
<1>2. /\ row.previous \in Hashes /\ row.previous = LedgerHead
      /\ Len(row.previous) = row.index
      /\ \A i \in DOMAIN row.previous : row.previous[i].rec \in logs
      /\ \A q \in chain : q.index < row.index
      /\ \/ row.index = 0 /\ row.previous = Genesis
         \/ \E q \in chain : q.index + 1 = row.index /\ q.hash = row.previous
  BY <1>1, OnTopFacts DEF TInv, TableInv
<1> HIDE DEF row
<1>3. \A q \in chain : q.index \in Nat
  BY DEF TInv, TableInv, TypeOK, Rows
<1>4. \A q \in chain : q.index # row.index /\ q.index <= row.index
                      /\ ~(row.index <= q.index)
  BY <1>1, <1>2, <1>3
<1>5. row \notin chain /\ written' = written \cup {row}
  BY <1>1, <1>4
<1>6. \A w \in written : w.index \in Nat /\ w.index < row.index
  <2>1. ASSUME NEW w \in written PROVE w.index \in Nat
    BY DEF TInv, Straight, Rows
  <2>2. ASSUME NEW w \in written PROVE w.index < row.index
    <3>1. PICK r \in chain : w.index <= r.index
      BY DEF TInv, Straight
    <3> QED BY <1>1, <1>2, <1>3, <2>1, <3>1
  <2> QED BY <2>1, <2>2
<1>7. Linked(written')
  <2>1. HangsFrom(row, written)
    <3>1. CASE row.index = 0 /\ row.previous = Genesis
      BY <3>1 DEF HangsFrom
    <3>2. ASSUME NEW q \in chain,
                 q.index + 1 = row.index, q.hash = row.previous
          PROVE  HangsFrom(row, written)
      <4>1. PICK w \in written : w.index = q.index /\ w.hash = q.hash
        BY DEF TInv, Straight
      <4> QED BY <3>2, <4>1 DEF HangsFrom
    <3> QED BY <1>2, <3>1, <3>2
  <2>2. \A r \in written' : HangsFrom(r, written')
    <3>1. \A r \in written : HangsFrom(r, written)
      BY DEF TInv, Straight, Linked
    <3> QED BY <1>5, <2>1, <3>1, HangsFromMono
  <2>3. \A r \in written' :
          r.hash = ComputeChainHash(r.previous, r.index, r.rec)
    BY <1>1, <1>5 DEF TInv, Straight, Linked
  <2> QED BY <2>2, <2>3 DEF Linked
<1>8. LastRows(chain') = {row} /\ chain' # {}
  BY <1>1, <1>4, <1>3 DEF LastRows
<1>9. OneEach(chain') /\ OneEach(written')
  BY <1>1, <1>4, <1>5, <1>6 DEF TInv, Straight, OneEach
<1>10. Straight'
  <2>1. written' \in SUBSET Rows
    BY <1>1, <1>5 DEF TInv, Straight
  <2>2. \A r \in chain' : \E w \in written' :
          w.index = r.index /\ w.previous = r.previous /\ w.hash = r.hash
    BY <1>1, <1>5 DEF TInv, Straight
  <2>3. \A w \in written' : \E r \in chain' : w.index <= r.index
    BY <1>1, <1>5 DEF TInv, Straight
  <2> QED BY <1>7, <1>8, <1>9, <2>1, <2>2, <2>3 DEF Straight
<1>11. /\ row.hash = Append(LedgerHead, [index |-> Len(LedgerHead), rec |-> c])
       /\ LedgerHead' = row.hash
  <2>1. row.hash = Append(LedgerHead, [index |-> Len(LedgerHead), rec |-> c])
    BY <1>1, <1>2 DEF ComputeChainHash
  <2> QED BY <1>8, <2>1 DEF LedgerHead
<1>12. HashesLogged'
  <2>1. Len(row.hash) = row.index + 1
    BY <1>1, <1>2, <1>11 DEF Hashes
  <2>2. ASSUME NEW i \in DOMAIN row.hash PROVE row.hash[i].rec \in logs'
    <3>1. /\ LedgerHead \in Seq(Block) /\ Len(LedgerHead) \in Nat
          /\ DOMAIN LedgerHead = 1..Len(LedgerHead)
      BY <1>2 DEF Hashes
    <3>2. CASE i = Len(LedgerHead) + 1
      BY <1>1, <1>11, <3>1, <3>2
    <3>3. CASE i # Len(LedgerHead) + 1
      <4>1. i \in 1..Len(LedgerHead) /\ row.hash[i] = LedgerHead[i]
        BY <1>11, <3>1, <3>3
      <4> QED BY <1>1, <1>2, <3>1, <4>1
    <3> QED BY <3>2, <3>3
  <2>3. \A d \in Calls : d \in logs' <=> pc'[d] = "done"
    BY <1>1 DEF TInv, TableInv, TypeOK, HashesLogged
  <2>4. \A r \in chain : /\ Len(r.hash) = r.index + 1
                        /\ \A i \in DOMAIN r.hash : r.hash[i].rec \in logs'
    BY <1>1 DEF TInv, HashesLogged
  <2> QED BY <1>1, <2>1, <2>2, <2>3, <2>4 DEF HashesLogged
<1>13. Ledger!Next
  BY <1>1, <1>2, <1>11 DEF Ledger!Next, Ledger!Record
<1> QED BY <1>10, <1>12, <1>13

(* A step that leaves both tables alone. *)
LEMMA QuietStep ==
  ASSUME TInv, chain' = chain, written' = written, logs' = logs,
         \A c \in Calls : pc'[c] = "done" <=> pc[c] = "done"
  PROVE  Straight' /\ HashesLogged' /\ LedgerHead' = LedgerHead
  BY DEF TInv, Straight, OneEach, Linked, HangsFrom, LastRows, HashesLogged,
         LedgerHead

LEMMA NextStraight ==
  ASSUME TInv, [Next]_vars, written' = written \cup (chain' \ chain)
  PROVE  /\ Straight' /\ HashesLogged'
         /\ [Ledger!Next]_LedgerHead
<1> USE DEF TInv, TableInv, TypeOK, Goto
<1>1. CASE \E c \in Calls : Commit(c) /\ pending[c] # NoRow
  BY <1>1, CommitOnTop
<1>2. ASSUME NEW c \in Calls, Commit(c), pending[c] = NoRow
      PROVE  Straight' /\ HashesLogged' /\ LedgerHead' = LedgerHead
  <2>1. chain' = chain /\ written' = written /\ logs' = logs \cup {c}
        /\ pc' = [pc EXCEPT ![c] = "done"]
    BY <1>2 DEF Commit
  <2>2. Straight' /\ LedgerHead' = LedgerHead
    BY <2>1 DEF Straight, OneEach, Linked, HangsFrom, LastRows, LedgerHead
  <2>3. HashesLogged'
    BY <2>1 DEF HashesLogged
  <2> QED BY <2>2, <2>3
<1>3. ASSUME NEW c \in Calls,
             \/ \E p \in Procs : Begin(c, p)
             \/ InsertLog(c) \/ AcquireLock(c) \/ SelectLast(c)
             \/ AddEntry(c) \/ Fail(c)
      PROVE  /\ chain' = chain /\ logs' = logs
             /\ \A d \in Calls : pc'[d] = "done" <=> pc[d] = "done"
  BY <1>3 DEF Begin, InsertLog, AcquireLock, SelectLast, AddEntry, Fail
<1>4. ASSUME NEW p \in Procs, Crash(p)
      PROVE  /\ chain' = chain /\ logs' = logs
             /\ \A d \in Calls : pc'[d] = "done" <=> pc[d] = "done"
  BY <1>4 DEF Crash, Returned
<1>5. CASE UNCHANGED vars
  BY <1>5, QuietStep DEF vars
<1> QED
  BY <1>1, <1>2, <1>3, <1>4, <1>5, QuietStep DEF Next, Step

(* A row changed, or removed from below another: the head stays.           *)
LEMMA TamperStep ==
  ASSUME TInv, Tamper
  PROVE  TInv' /\ LedgerHead' = LedgerHead
<1> USE DEF TInv, TableInv, TypeOK
<1>1. UNCHANGED <<logs, lock, pc, proc, lastRow, pending, crashes, written>>
  BY DEF Tamper
<1>2. \A q \in chain : q.index \in Nat
  BY DEF Rows
<1>a. ASSUME chain' \in SUBSET Rows, IsFiniteSet(chain'), OneEach(chain'),
             NEW old \in chain, NEW new \in chain',
             new.index = old.index, new.hash = old.hash,
             LastRows(chain) = {old}, LastRows(chain') = {new},
             \A r \in chain' : \E q \in chain :
               r.index = q.index /\ r.previous = q.previous /\ r.hash = q.hash
      PROVE  TInv' /\ LedgerHead' = LedgerHead
  <2>1. LedgerHead' = LedgerHead
    BY <1>a DEF LedgerHead
  <2>2. PoolKept' /\ PendingWhenReady' /\ TypeOK' /\ ChainFinite'
    BY <1>1, <1>a DEF PoolKept, Connections, PendingWhenReady, ChainFinite
  <2>3. ASSUME NEW d \in Calls, pc[d] = "selected"
        PROVE  OnTop(NextIndex(lastRow[d]), PrevHash(lastRow[d]))'
    <3>1. OnTop(NextIndex(lastRow[d]), PrevHash(lastRow[d]))
      BY <2>3 DEF ReadyOnTop
    <3> QED BY <1>1, <1>a, <3>1 DEF OnTop, NextIndex, PrevHash
  <2>4. ASSUME NEW d \in Calls, pc[d] = "ready", pending[d] # NoRow
        PROVE  OnTop(pending[d].index, pending[d].previous)'
    <3>1. OnTop(pending[d].index, pending[d].previous)
      BY <2>4 DEF ReadyOnTop
    <3> QED BY <1>1, <1>a, <3>1 DEF OnTop
  <2>5. ReadyOnTop'
    BY <1>1, <2>3, <2>4 DEF ReadyOnTop
  <2>6. Straight'
    <3>1. \A w \in written : w.index <= old.index
      <4>1. ASSUME NEW w \in written PROVE w.index <= old.index
        <5>1. PICK r \in chain : w.index <= r.index
          BY DEF Straight
        <5>2. r.index <= old.index
          BY <1>a, <5>1 DEF LastRows
        <5>3. w.index \in Nat
          BY DEF Straight, Rows
        <5> QED BY <1>2, <5>1, <5>2, <5>3
      <4> QED BY <4>1
    <3>2. \A w \in written : \E r \in chain' : w.index <= r.index
      BY <1>a, <3>1
    <3>3. \A r \in chain' : \E w \in written :
            w.index = r.index /\ w.previous = r.previous /\ w.hash = r.hash
      <4>1. ASSUME NEW r \in chain'
            PROVE  \E w \in written : /\ w.index = r.index
                                      /\ w.previous = r.previous
                                      /\ w.hash = r.hash
        <5>1. PICK q \in chain :
                /\ r.index = q.index /\ r.previous = q.previous
                /\ r.hash = q.hash
          BY <1>a
        <5> QED BY <5>1 DEF Straight
      <4> QED BY <4>1
    <3> QED BY <1>1, <1>a, <3>2, <3>3 DEF Straight, Linked, OneEach
  <2>7. HashesLogged'
    <3>1. \A r \in chain' : /\ Len(r.hash) = r.index + 1
                           /\ \A i \in DOMAIN r.hash : r.hash[i].rec \in logs
      BY <1>a DEF HashesLogged
    <3> QED BY <1>1, <3>1 DEF HashesLogged
  <2> QED BY <2>1, <2>2, <2>5, <2>6, <2>7
<1>3. PICK head \in chain :
        LastRows(chain) = {head} /\ \A q \in chain : q.index <= head.index
  <2>1. chain # {}
    BY DEF Tamper, EditRow, DropRow
  <2> QED BY <2>1, HeadFacts
<1>4. CASE EditRow
  <2>1. PICK r \in chain : \E c \in Calls :
          chain' = (chain \ {r}) \cup {[r EXCEPT !.rec = c]}
    BY <1>4 DEF EditRow
  <2>c. PICK c \in Calls : chain' = (chain \ {r}) \cup {[r EXCEPT !.rec = c]}
    BY <2>1
  <2> DEFINE edited == [r EXCEPT !.rec = c]
  <2>2. /\ edited \in Rows /\ edited.index = r.index
        /\ edited.previous = r.previous /\ edited.hash = r.hash
    BY DEF Rows
  <2> HIDE DEF edited
  <2>3. chain' = (chain \ {r}) \cup {edited}
    BY <2>c DEF edited
  <2>4. chain' \in SUBSET Rows /\ IsFiniteSet(chain')
    <3>1. IsFiniteSet(chain \ {r})
      BY FS_RemoveElement DEF ChainFinite
    <3> QED BY <2>2, <2>3, <3>1, FS_AddElement
  <2>5. OneEach(chain')
    <3>1. \A p, q \in chain : p.index = q.index => p = q
      BY DEF Straight, OneEach
    <3>2. \A q \in chain \ {r} : q.index # edited.index
      BY <2>2, <3>1
    <3> QED BY <2>3, <3>1, <3>2 DEF OneEach
  <2>6. \A q \in chain' : \E p \in chain :
          q.index = p.index /\ q.previous = p.previous /\ q.hash = p.hash
    BY <2>2, <2>3
  <2>7. CASE r = head
    <3>1. LastRows(chain') = {edited}
      <4>1. edited \in LastRows(chain')
        BY <1>2, <1>3, <2>2, <2>3, <2>7 DEF LastRows
      <4>2. ASSUME NEW q \in LastRows(chain') PROVE q = edited
        <5>1. q \in chain' /\ edited.index <= q.index
          BY <2>3, <4>2 DEF LastRows
        <5>2. q.index <= edited.index /\ q.index \in Nat
          BY <1>2, <1>3, <2>2, <2>3, <2>7, <5>1
        <5>3. q.index = edited.index
          BY <1>2, <2>2, <5>1, <5>2
        <5> QED BY <2>3, <2>5, <5>1, <5>3 DEF OneEach
      <4> QED BY <4>1, <4>2
    <3> QED BY <1>a, <1>3, <2>2, <2>3, <2>4, <2>5, <2>6, <2>7, <3>1
  <2>8. CASE r # head
    <3>1. LastRows(chain') = {head}
      <4>1. head \in LastRows(chain')
        BY <1>2, <1>3, <2>2, <2>3, <2>8 DEF LastRows
      <4>2. ASSUME NEW q \in LastRows(chain') PROVE q = head
        <5>1. q \in chain' /\ head \in chain' /\ head.index <= q.index
          BY <1>3, <2>3, <2>8, <4>2 DEF LastRows
        <5>2. q.index <= head.index /\ q.index \in Nat
          BY <1>2, <1>3, <2>2, <2>3, <5>1
        <5>3. q.index = head.index
          BY <1>2, <5>1, <5>2
        <5> QED BY <2>5, <5>1, <5>3 DEF OneEach
      <4> QED BY <4>1, <4>2
    <3> QED BY <1>a, <1>3, <2>3, <2>4, <2>5, <2>6, <2>8, <3>1
  <2> QED BY <2>7, <2>8
<1>5. CASE DropRow
  <2>1. PICK r \in chain, q \in chain :
          q.index > r.index /\ chain' = chain \ {r}
    BY <1>5 DEF DropRow
  <2>2. r # head
    BY <1>2, <1>3, <2>1
  <2>3. chain' \in SUBSET Rows /\ IsFiniteSet(chain') /\ OneEach(chain')
    BY <2>1, FS_RemoveElement DEF ChainFinite, Straight, OneEach
  <2>4. LastRows(chain') = {head}
    <3>1. head \in LastRows(chain')
      BY <1>3, <2>1, <2>2 DEF LastRows
    <3>2. ASSUME NEW p \in LastRows(chain') PROVE p = head
      <4>1. p \in chain /\ head.index <= p.index /\ p.index <= head.index
        BY <1>3, <2>1, <2>2, <3>2 DEF LastRows
      <4>2. p.index = head.index
        BY <1>2, <4>1
      <4> QED BY <4>1, <4>2 DEF Straight, OneEach
    <3> QED BY <3>1, <3>2
  <2> QED BY <1>a, <1>3, <2>1, <2>2, <2>3, <2>4
<1> QED BY <1>4, <1>5 DEF Tamper

LEMMA InitTamper == TInit => TInv /\ Ledger!Init
<1> SUFFICES ASSUME TInit PROVE TInv /\ Ledger!Init
  OBVIOUS
<1>1. TypeOK
  BY InitInv DEF TInit, Inv, LinkInv
<1>2. ChainFinite /\ PendingWhenReady
  BY FS_EmptySet DEF TInit, Init, ChainFinite, PendingWhenReady
<1>3. PoolKept
  <2>1. ASSUME NEW p \in Procs PROVE Cardinality(Connections(p)) <= PoolSize
    <3>1. Connections(p) = {}
      BY DEF TInit, Init, Connections, Connected
    <3> QED BY <3>1, FS_EmptySet, ConstantsAssumption
  <2> QED BY <2>1 DEF TInit, Init, PoolKept
<1>4. Straight /\ ReadyOnTop /\ HashesLogged
  BY DEF TInit, Init, Straight, Linked, OneEach, ReadyOnTop, HashesLogged
<1>5. Ledger!Init
  BY DEF TInit, Init, LedgerHead, Genesis, Ledger!Init
<1> QED BY <1>1, <1>2, <1>3, <1>4, <1>5 DEF TInv, TableInv

LEMMA NextTamper ==
  ASSUME Serial, TInv, [TNext]_tvars
  PROVE  TInv' /\ [Ledger!Next]_LedgerHead
<1>1. CASE [Next]_vars /\ written' = written \cup (chain' \ chain)
  <2>1. TableInv'
    BY <1>1, NextTypeOK, NextFinite, NextPool, NextPendingWhenReady
       DEF TInv, TableInv
  <2>2. ReadyOnTop' /\ Straight' /\ HashesLogged' /\ [Ledger!Next]_LedgerHead
    BY <1>1, NextReadyOnTop, NextStraight
  <2> QED BY <2>1, <2>2 DEF TInv
<1>2. CASE Tamper
  BY <1>2, TamperStep
<1>3. CASE UNCHANGED tvars
  BY <1>1, <1>3 DEF tvars, vars
<1> QED BY <1>1, <1>2, <1>3 DEF TNext

LEMMA TamperInvHolds == Serial /\ TSpec => []TInv
<1>1. Serial /\ TInv /\ [TNext]_tvars => TInv'
  BY NextTamper
<1>2. TInit => TInv
  BY InitTamper
<1>3. SUFFICES ASSUME Serial PROVE TSpec => []TInv
  OBVIOUS
<1>4. TInv /\ [TNext]_tvars => TInv'
  BY <1>1, <1>3
<1> QED
  BY <1>2, <1>4, PTL DEF TSpec

(* A row that the loop accepts is, in what it has but its record, a row    *)
(* that log_audit wrote, and its hash vouches for the record.              *)
LEMMA AcceptedAsWritten ==
  ASSUME TInv, NEW s \in Orderings(chain), VerifyAuditChain(s).ok
  PROVE  chain = written
<1>1. chain \in SUBSET Rows /\ IsFiniteSet(chain) /\ written \in SUBSET Rows
  BY DEF TInv, TableInv, TypeOK, ChainFinite, Straight
<1>2. /\ Len(s) \in Nat /\ DOMAIN s = 1..Len(s)
      /\ \A j \in 1..Len(s) : s[j] \in chain /\ s[j] \in Rows
      /\ \A r \in chain : \E k \in 1..Len(s) : s[k] = r
  BY <1>1, OrderingFacts
<1>3. \A j \in 1..Len(s) : Reason(s, j) = "none"
  BY <1>2, VerdictFacts
<1>4. \A j \in 1..Len(s) :
        /\ s[j].index = j - 1
        /\ s[j].hash = ComputeChainHash(s[j].previous, s[j].index, s[j].rec)
  BY <1>3 DEF Reason
<1>5. ASSUME NEW r \in chain PROVE r \in written
  <2>1. r.hash = ComputeChainHash(r.previous, r.index, r.rec)
    BY <1>2, <1>4
  <2>2. PICK w \in written :
          w.index = r.index /\ w.previous = r.previous /\ w.hash = r.hash
    BY DEF TInv, Straight
  <2>3. w.hash = ComputeChainHash(w.previous, w.index, w.rec)
    BY DEF TInv, Straight, Linked
  <2>4. w \in Rows /\ r \in Rows
    BY <1>1
  <2>5. w.rec = r.rec
    <3>1. /\ r.previous \in Seq(Block)
          /\ [index |-> r.index, rec |-> r.rec] \in Block
          /\ [index |-> r.index, rec |-> w.rec] \in Block
      BY <2>2, <2>4 DEF Rows, Hashes, Block
    <3>2. Append(r.previous, [index |-> r.index, rec |-> r.rec])
            = Append(r.previous, [index |-> r.index, rec |-> w.rec])
      BY <2>1, <2>2, <2>3 DEF ComputeChainHash
    <3>3. [index |-> r.index, rec |-> r.rec]
            = [index |-> r.index, rec |-> w.rec]
      <4> DEFINE x == [index |-> r.index, rec |-> r.rec]
                 y == [index |-> r.index, rec |-> w.rec]
      <4>1. /\ Append(r.previous, x)[Len(r.previous) + 1] = x
            /\ Append(r.previous, y)[Len(r.previous) + 1] = y
        <5> HIDE DEF x, y
        <5> QED BY <3>1 DEF x, y
      <4> QED BY <3>2, <4>1
    <3> QED BY <3>3
  <2>6. w = r
    BY <2>2, <2>4, <2>5 DEF Rows
  <2> QED BY <2>6
<1>6. ASSUME NEW w \in written PROVE w \in chain
  <2>1. PICK r \in chain : w.index <= r.index
    BY DEF TInv, Straight
  <2>2. PICK k \in 1..Len(s) : s[k] = r
    BY <1>2
  <2>3. w.index \in Nat /\ w.index <= k - 1
    BY <1>1, <1>4, <2>1, <2>2 DEF Rows
  <2>4. PICK n \in 1..Len(s) : n - 1 = w.index
    <3> DEFINE m == w.index + 1
    <3>1. m \in 1..Len(s) /\ m - 1 = w.index
      BY <1>2, <2>3
    <3> HIDE DEF m
    <3> QED BY <3>1
  <2>5. s[n] \in chain /\ s[n].index = w.index
    BY <1>2, <1>4, <2>4
  <2>6. s[n] = w
    BY <1>5, <2>5 DEF TInv, Straight, OneEach
  <2> QED BY <2>5, <2>6
<1> QED BY <1>5, <1>6

(* As long as calls do not overlap, verify_audit_chain is right both ways, *)
(* whatever rows were changed or removed from below others, and however    *)
(* much was appended since: it accepts exactly the tables that hold what   *)
(* log_audit wrote.                                                        *)
THEOREM VerifyIsRight == Serial /\ TSpec => []VerifyTellsTampering
<1>1. TInv => VerifyTellsTampering
  <2> SUFFICES ASSUME TInv, NEW s \in Orderings(chain)
               PROVE  VerifyAuditChain(s).ok <=> chain = written
    BY DEF VerifyTellsTampering, Verdicts
  <2>1. ASSUME VerifyAuditChain(s).ok PROVE chain = written
    BY <2>1, AcceptedAsWritten
  <2>2. ASSUME chain = written PROVE VerifyAuditChain(s).ok
    <3>1. /\ chain \in SUBSET Rows /\ IsFiniteSet(chain) /\ Linked(chain)
          /\ \A r, q \in chain : r.index = q.index => r = q
      BY <2>2 DEF TInv, TableInv, TypeOK, ChainFinite, Straight, OneEach
    <3> QED BY <3>1, LinearVerifies
  <2>3. VerifyAuditChain(s).ok \in BOOLEAN
    BY DEF VerifyAuditChain
  <2> QED BY <2>1, <2>2, <2>3
<1> QED
  BY <1>1, TamperInvHolds, PTL

(* As long as calls do not overlap, the audit trail implements the ledger: *)
(* a commit with the chain enabled records one new event at its end, and   *)
(* every other step, of log_audit or of an outside hand, is a stutter.     *)
THEOREM TrailIsLedger == Serial /\ TSpec => LedgerSpec
<1>1. TInit => Ledger!Init
  BY InitTamper
<1>2. SUFFICES ASSUME Serial PROVE TSpec => LedgerSpec
  OBVIOUS
<1>3. TInv /\ [TNext]_tvars => [Ledger!Next]_LedgerHead
  BY <1>2, NextTamper
<1>4. TSpec => []TInv
  BY <1>2, TamperInvHolds
<1> QED
  BY <1>1, <1>3, <1>4, PTL DEF TSpec, LedgerSpec, Ledger!Spec
=============================================================================
