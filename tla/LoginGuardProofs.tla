-------------------------- MODULE LoginGuardProofs --------------------------
(***************************************************************************)
(* Proofs about LoginGuard for any number of accounts, addresses, requests *)
(* and secrets, and any limits and lengths of locks.                       *)
(***************************************************************************)
EXTENDS LoginGuard, FiniteSetTheorems, SequenceTheorems, TLAPS

N == Cardinality(Requests)

(* Requests that may yet bring a wrong password of an account, or any      *)
(* failure from an address.                                                *)
Flying(u) == {r \in Requests : req[r].pc = "checked" /\ req[r].user = u}

IPFlying(i) == {r \in Requests : req[r] # Idle /\ req[r].ip = i}

(* How failures at some times, up to time t, relate to the record of them, *)
(* while f requests in flight may add to them: the first b are over for    *)
(* as long as a lock lasts, and the others are in the record.              *)
Split(times, b, record, max, span, f, t) ==
  /\ \A k \in 1..b : times[k] + span <= t
  /\ \A k \in 1..b, j \in (b + 1)..Len(times) : times[k] + span <= times[j]
  /\ Len(times) - b <= record.count
  /\ record.count >= max => Len(times) - b + f <= max - 1 + N

Guarded(times, record, max, span, f, t) ==
  /\ \A k \in 1..Len(times) : times[k] <= t
  /\ record.until > 0 <=> record.count >= max
  /\ record.count >= max =>
       \A k \in 1..Len(times) : times[k] + span <= record.until
  /\ \E b \in 0..Len(times) : Split(times, b, record, max, span, f, t)
  /\ Spread(times, max - 1 + N, span)

-----------------------------------------------------------------------------
LEMMA RequestsFinite == N \in Nat \ {0}
  BY ConstantsAssumption, FS_CardinalityType, FS_EmptySet DEF N

(* The arithmetic of a record that reaches its limit. *)
LEMMA LimitReached ==
  ASSUME NEW n \in Int, NEW count \in Nat, NEW max \in Nat, NEW f \in Nat,
         NEW most \in Nat, n <= count, count + 1 >= max, ~(count >= max),
         f <= most
  PROVE  n + f <= max - 1 + most
  OBVIOUS

LEMMA OneMore ==
  ASSUME NEW n \in Int, NEW f \in Nat, NEW f2 \in Nat, NEW max \in Nat,
         f2 + 1 <= f, n + f <= max
  PROVE  n + 1 + f2 <= max
  OBVIOUS

LEMMA Below ==
  ASSUME NEW m \in Int, NEW n \in Int, m <= n + 1, m # n + 1
  PROVE  m <= n
  OBVIOUS

(* Time passes, and requests end. *)
LEMMA Later ==
  ASSUME NEW times \in Seq(Nat), NEW record \in Record, NEW max \in Nat \ {0},
         NEW span \in Nat \ {0}, NEW f \in Nat, NEW t \in Nat,
         NEW f2 \in Nat, NEW t2 \in Nat, f2 <= f, t <= t2,
         Guarded(times, record, max, span, f, t)
  PROVE  Guarded(times, record, max, span, f2, t2)
<1>1. Len(times) \in Nat /\ \A k \in 1..Len(times) : times[k] \in Nat
  OBVIOUS
<1>2. PICK b \in 0..Len(times) : Split(times, b, record, max, span, f, t)
  BY DEF Guarded
<1>3. Split(times, b, record, max, span, f2, t2)
  <2>1. b \in Nat /\ Len(times) - b \in Int /\ max - 1 + N \in Int
    BY <1>1, RequestsFinite
  <2>2. ASSUME NEW k \in 1..b PROVE times[k] + span <= t2
    <3>1. times[k] + span <= t
      BY <1>2 DEF Split
    <3>2. k \in 1..Len(times)
      BY <1>1, <2>1
    <3>3. times[k] \in Nat
      BY <1>1, <3>2
    <3> QED
      BY <3>1, <3>3
  <2>3. ASSUME record.count >= max PROVE Len(times) - b + f2 <= max - 1 + N
    <3>1. Len(times) - b + f <= max - 1 + N
      BY <1>2, <2>3 DEF Split
    <3> QED
      BY <2>1, <3>1
  <2> QED
    BY <1>2, <2>2, <2>3 DEF Split
<1>4. \A k \in 1..Len(times) : times[k] <= t2
  BY <1>1 DEF Guarded
<1> QED
  BY <1>3, <1>4 DEF Guarded

(* A record is looked at, and does not lock: a request may start.          *)
LEMMA Looked ==
  ASSUME NEW times \in Seq(Nat), NEW record \in Record, NEW max \in Nat \ {0},
         NEW span \in Nat \ {0}, NEW f \in Nat, NEW t \in Nat, NEW f2 \in Nat,
         record.until <= t,
         Guarded(times, record, max, span, f, t)
  PROVE  Guarded(times, IF record.until > 0 THEN NoRecord ELSE record,
                 max, span, f2, t)
<1>1. /\ Len(times) \in Nat /\ \A k \in 1..Len(times) : times[k] \in Nat
      /\ record.until \in Nat /\ record.count \in Nat
  BY DEF Record
<1>2. CASE record.until > 0
  <2>1. ASSUME NEW k \in 1..Len(times) PROVE times[k] + span <= t
    <3>1. times[k] + span <= record.until
      BY <1>2 DEF Guarded
    <3> QED
      BY <1>1, <3>1
  <2>2. Split(times, Len(times), NoRecord, max, span, f2, t)
    BY <1>1, <2>1 DEF Split, NoRecord
  <2>3. Guarded(times, NoRecord, max, span, f2, t)
    BY <1>1, <2>2 DEF Guarded, NoRecord
  <2> QED
    BY <1>2, <2>3
<1>3. CASE ~(record.until > 0)
  <2>1. PICK b \in 0..Len(times) : Split(times, b, record, max, span, f, t)
    BY DEF Guarded
  <2>2. ~(record.count >= max)
    BY <1>3 DEF Guarded
  <2>3. Split(times, b, record, max, span, f2, t)
    BY <2>1, <2>2 DEF Split
  <2> QED
    BY <1>3, <2>3 DEF Guarded
<1> QED
  BY <1>2, <1>3

(* A failure that is not among the times: a wrong code, for an account.    *)
LEMMA Counted ==
  ASSUME NEW times \in Seq(Nat), NEW record \in Record, NEW max \in Nat \ {0},
         NEW span \in Nat \ {0}, NEW f \in Nat, NEW t \in Nat,
         NEW record2 \in Record, NEW lock \in Nat, f <= N,
         record2.count = record.count + 1,
         record2.until = IF record.count + 1 >= max THEN t + lock
                                                    ELSE record.until,
         record.count + 1 >= max => lock >= span,
         Guarded(times, record, max, span, f, t)
  PROVE  Guarded(times, record2, max, span, f, t)
<1>1. /\ Len(times) \in Nat /\ \A k \in 1..Len(times) : times[k] \in Nat
      /\ record.until \in Nat /\ record.count \in Nat
      /\ record2.until \in Nat /\ record2.count \in Nat
  BY DEF Record
<1>2. PICK b \in 0..Len(times) : Split(times, b, record, max, span, f, t)
  BY DEF Guarded
<1>3. Split(times, b, record2, max, span, f, t)
  <2>1. Len(times) - b <= record2.count
    BY <1>1, <1>2 DEF Split
  <2>2. ASSUME record2.count >= max PROVE Len(times) - b + f <= max - 1 + N
    <3>1. CASE record.count >= max
      BY <1>2, <3>1 DEF Split
    <3>2. CASE ~(record.count >= max)
      <4>1. Len(times) - b \in Int /\ Len(times) - b <= record.count
        BY <1>1, <1>2 DEF Split
      <4> QED
        BY <1>1, <2>2, <3>2, <4>1, RequestsFinite, LimitReached
    <3> QED
      BY <3>1, <3>2
  <2> QED
    BY <1>2, <2>1, <2>2 DEF Split
<1>4. record2.until > 0 <=> record2.count >= max
  BY <1>1 DEF Guarded
<1>5. ASSUME record2.count >= max, NEW k \in 1..Len(times)
      PROVE  times[k] + span <= record2.until
  <2>1. times[k] \in Nat /\ times[k] <= t
    BY <1>1 DEF Guarded
  <2>2. record2.until = t + lock /\ lock >= span
    BY <1>5
  <2> QED
    BY <2>1, <2>2
<1> QED
  BY <1>3, <1>4, <1>5 DEF Guarded

(* A failure of one of the requests in flight. *)
LEMMA Failed ==
  ASSUME NEW times \in Seq(Nat), NEW record \in Record, NEW max \in Nat \ {0},
         NEW span \in Nat \ {0}, NEW f \in Nat, NEW t \in Nat,
         NEW record2 \in Record, NEW lock \in Nat, NEW f2 \in Nat,
         f2 + 1 <= f, f <= N,
         record2.count = record.count + 1,
         record2.until = IF record.count + 1 >= max THEN t + lock
                                                    ELSE record.until,
         record.count + 1 >= max => lock >= span,
         Guarded(times, record, max, span, f, t)
  PROVE  Guarded(Append(times, t), record2, max, span, f2, t)
<1> DEFINE times2 == Append(times, t)
           K == max - 1 + N
<1>1. /\ Len(times) \in Nat /\ \A k \in 1..Len(times) : times[k] \in Nat
      /\ record.until \in Nat /\ record.count \in Nat
      /\ record2.until \in Nat /\ record2.count \in Nat
      /\ N \in Nat \ {0} /\ K \in Nat \ {0}
  BY RequestsFinite DEF Record
<1>2. /\ Len(times2) = Len(times) + 1
      /\ \A k \in 1..Len(times) : times2[k] = times[k]
      /\ times2[Len(times) + 1] = t
  OBVIOUS
<1> HIDE DEF times2
<1>10. ASSUME NEW k \in 1..Len(times2)
      PROVE  \/ k \in 1..Len(times) /\ times2[k] = times[k]
             \/ k = Len(times) + 1 /\ times2[k] = t
  <2>1. k \in 1..(Len(times) + 1)
    BY <1>2
  <2>2. k \in 1..Len(times) \/ k = Len(times) + 1
    BY <1>1, <2>1
  <2> QED
    BY <1>2, <2>2
<1>3. PICK b \in 0..Len(times) : Split(times, b, record, max, span, f, t)
  BY DEF Guarded
<1>4. ASSUME NEW k \in 1..Len(times2) PROVE times2[k] <= t
  <2>1. CASE k \in 1..Len(times) /\ times2[k] = times[k]
    BY <2>1 DEF Guarded
  <2>2. CASE k = Len(times) + 1 /\ times2[k] = t
    BY <2>2
  <2> QED
    BY <1>10, <2>1, <2>2
<1>5. record2.until > 0 <=> record2.count >= max
  BY <1>1 DEF Guarded
<1>6. ASSUME record2.count >= max, NEW k \in 1..Len(times2)
      PROVE  times2[k] + span <= record2.until
  <2>1. times2[k] \in Nat /\ times2[k] <= t
    BY <1>1, <1>4, <1>10
  <2>2. record2.until = t + lock /\ lock >= span
    BY <1>6
  <2> QED
    BY <2>1, <2>2
<1>7. Split(times2, b, record2, max, span, f2, t)
  <2>1. ASSUME NEW k \in 1..b PROVE times2[k] + span <= t
    <3>1. k \in 1..Len(times)
      BY <1>1
    <3>2. times2[k] = times[k]
      BY <1>2, <3>1
    <3> QED
      BY <1>3, <3>2 DEF Split
  <2>2. ASSUME NEW k \in 1..b, NEW j \in (b + 1)..Len(times2)
        PROVE  times2[k] + span <= times2[j]
    <3>1. CASE j = Len(times) + 1
      BY <1>2, <2>1, <3>1
    <3>2. CASE j # Len(times) + 1
      <4>1. j \in (b + 1)..Len(times) /\ k \in 1..Len(times)
        <5>1. k \in Int /\ j \in Int /\ b <= Len(times) /\ b \in Nat
          BY <1>1
        <5>2. j >= b + 1 /\ j <= Len(times) + 1 /\ 1 <= k /\ k <= b
          BY <1>2
        <5>3. Len(times) \in Int
          BY <1>1
        <5>4. j <= Len(times)
          BY <3>2, <5>1, <5>2, <5>3, Below
        <5>5. j \in (b + 1)..Len(times)
          BY <5>1, <5>2, <5>4, <5>3
        <5>6. k \in 1..Len(times)
          BY <5>1, <5>2, <5>3
        <5> QED
          BY <5>5, <5>6
      <4>2. times2[k] = times[k] /\ times2[j] = times[j]
        <5>1. j \in 1..Len(times)
          BY <4>1
        <5> QED
          BY <1>2, <4>1, <5>1
      <4> QED
        BY <1>3, <4>1, <4>2 DEF Split
    <3> QED
      BY <3>1, <3>2
  <2>3. Len(times2) - b <= record2.count
    BY <1>1, <1>2, <1>3 DEF Split
  <2>4. ASSUME record2.count >= max PROVE Len(times2) - b + f2 <= max - 1 + N
    <3> HIDE DEF K
    <3>0. Len(times2) = Len(times) + 1 /\ Len(times) \in Nat /\ b \in Nat
      BY <1>1, <1>2
    <3>3. /\ Len(times2) - b + f2 = (Len(times) - b) + 1 + f2
          /\ Len(times) - b \in Int /\ max - 1 + N \in Nat
      BY <1>1, <3>0
    <3>4. Len(times) - b + f <= max - 1 + N
      <4>1. CASE record.count >= max
        BY <1>3, <4>1 DEF Split
      <4>2. CASE ~(record.count >= max)
        <5>1. Len(times) - b <= record.count
          BY <1>3 DEF Split
        <5> QED
          BY <1>1, <2>4, <3>3, <4>2, <5>1, LimitReached
      <4> QED
        BY <4>1, <4>2
    <3> QED
      BY <3>3, <3>4, OneMore
  <2> QED
    BY <2>1, <2>2, <2>3, <2>4 DEF Split
<1>8. Spread(times2, K, span)
  <2>1. Len(times2) - b <= K
    BY <1>1, <1>7 DEF Split
  <2>2. SUFFICES ASSUME NEW k \in 1..(Len(times2) - K)
                 PROVE  times2[k + K] - times2[k] >= span
    BY DEF Spread
  <2>3. k \in 1..b
    BY <1>1, <1>2, <2>1
  <2>4. k + K \in 1..Len(times2) /\ k \in 1..Len(times)
    BY <1>1, <1>2, <2>3
  <2>5. CASE k + K = Len(times2)
    <3>1. times2[k] + span <= t /\ times2[k + K] = t /\ times2[k] \in Nat
      BY <1>1, <1>2, <1>7, <2>3, <2>4, <2>5 DEF Split
    <3> QED
      BY <3>1
  <2>6. CASE k + K # Len(times2)
    <3>1. k \in 1..(Len(times) - K) /\ k + K \in 1..Len(times)
      <4>1. k \in Int /\ 1 <= k /\ k + K <= Len(times) + 1
        BY <1>1, <1>2, <2>4
      <4>2. k + K # Len(times) + 1
        BY <1>2, <2>6
      <4>3. K \in Int /\ K >= 1 /\ Len(times) \in Int /\ k + K \in Int
        BY <1>1, <4>1
      <4>4. k + K <= Len(times)
        BY <4>1, <4>2, <4>3, Below
      <4> HIDE DEF K
      <4>5. k \in 1..(Len(times) - K)
        BY <4>1, <4>3, <4>4
      <4>6. k + K \in 1..Len(times)
        BY <4>1, <4>3, <4>4
      <4> QED
        BY <4>5, <4>6
    <3>2. times[k + K] - times[k] >= span
      BY <3>1 DEF Guarded, Spread
    <3> QED
      BY <1>2, <2>4, <3>1, <3>2
  <2> QED
    BY <2>5, <2>6
<1>9. Guarded(times2, record2, max, span, f2, t)
  <2>1. b \in 0..Len(times2)
    BY <1>1, <1>2
  <2> QED
    BY <1>4, <1>5, <1>6, <1>7, <1>8, <2>1 DEF Guarded
<1> QED
  BY <1>9 DEF times2

(* Nothing is on record. *)
LEMMA Fresh ==
  ASSUME NEW max \in Nat \ {0}, NEW span \in Nat \ {0}, NEW f \in Nat,
         NEW t \in Nat
  PROVE  Guarded(<< >>, NoRecord, max, span, f, t)
<1>1. Split(<< >>, 0, NoRecord, max, span, f, t)
  BY DEF Split, NoRecord
<1>2. Spread(<< >>, max - 1 + N, span)
  BY RequestsFinite DEF Spread
<1> QED
  BY <1>1, <1>2 DEF Guarded, NoRecord

-----------------------------------------------------------------------------
(* A ticket expires TicketTTL after a right password. *)
TicketsDated == \A t \in tickets : t.exp - TicketTTL \in 0..now

(* What a request x has shown, with m the MFA secrets of the users. *)
Leg(x, m) ==
  /\ x.pc \in {"login", "checked"} => x.age = 0 /\ x.coded = NoSecret
  /\ x.pc \in {"ticketed", "issuing"} => x.age <= TicketTTL
  /\ x.pc = "issuing" => (x.steady => x.coded = m[x.user])

Legs == \A r \in Requests : Leg(req[r], mfa)

(* A count from which on record_failure raises belongs to a lock that      *)
(* never ends.                                                             *)
Capped(u) ==
  /\ attempts[u].count >= MaxAttempts + MaxStrikes =>
       attempts[u].until > MaxTime + Lockout
  /\ u \in raised => attempts[u].count >= MaxAttempts + MaxStrikes

Account(u) ==
  /\ Guarded(fails[u], attempts[u], MaxAttempts, Lockout,
             Cardinality(Flying(u)), now)
  /\ Capped(u)

Address(i) ==
  Guarded(ipFails[i], ipAttempts[i], IPMaxAttempts, IPLockout,
          Cardinality(IPFlying(i)), now)

Inv ==
  /\ TypeOK /\ TicketsDated /\ Legs
  /\ \A u \in Users : Account(u)
  /\ \A i \in IPs : Address(i)

-----------------------------------------------------------------------------
LEMMA PartOfRequests ==
  ASSUME NEW S \in SUBSET Requests
  PROVE  IsFiniteSet(S) /\ Cardinality(S) \in Nat /\ Cardinality(S) <= N
  BY ConstantsAssumption, FS_Subset, FS_CardinalityType DEF N

LEMMA FewerRequests ==
  ASSUME NEW S \in SUBSET Requests, NEW T \in SUBSET Requests, S \subseteq T
  PROVE  Cardinality(S) <= Cardinality(T)
  BY PartOfRequests, FS_Subset

LEMMA OneRequestLess ==
  ASSUME NEW S \in SUBSET Requests, NEW T \in SUBSET Requests, NEW r \in T,
         S \subseteq T \ {r}
  PROVE  Cardinality(S) + 1 <= Cardinality(T)
<1>1. Cardinality(T \ {r}) = Cardinality(T) - 1
  BY PartOfRequests, FS_RemoveElement
<1>2. Cardinality(S) <= Cardinality(T \ {r})
  BY FewerRequests
<1> QED
  BY <1>1, <1>2, PartOfRequests

LEMMA FlyingParts ==
  /\ \A u : Flying(u) \in SUBSET Requests /\ Flying(u)' \in SUBSET Requests
  /\ \A i : IPFlying(i) \in SUBSET Requests /\ IPFlying(i)' \in SUBSET Requests
  BY DEF Flying, IPFlying

LEMMA TimesType ==
  ASSUME TypeOK
  PROVE  /\ now \in Nat
         /\ \A u \in Users : fails[u] \in Seq(Nat) /\ attempts[u] \in Record
         /\ \A i \in IPs : ipFails[i] \in Seq(Nat) /\ ipAttempts[i] \in Record
<1>1. 0..MaxTime \subseteq Nat
  BY ConstantsAssumption
<1>2. ASSUME NEW s \in Seq(0..MaxTime) PROVE s \in Seq(Nat)
  <2>1. Len(s) \in Nat /\ s \in [1..Len(s) -> 0..MaxTime]
    BY LenProperties
  <2>2. s \in [1..Len(s) -> Nat]
    BY <1>1, <2>1
  <2> QED
    BY <2>1, <2>2
<1> QED
  BY <1>1, <1>2 DEF TypeOK

(* What a request is while it is under way. *)
LEMMA UnderWay ==
  ASSUME TypeOK, NEW r \in Requests, req[r] # Idle
  PROVE  /\ req[r] \in Request /\ req[r].ip \in IPs
         /\ req[r].age \in 0..MaxTime
         /\ req[r].pc \in {"login", "checked", "ticketed", "issuing"} =>
              req[r].user \in Users
  BY DEF TypeOK, Request

LEMMA NotIdle ==
  ASSUME NEW r \in Requests, req[r].pc # "idle"
  PROVE  req[r] # Idle
  BY DEF Idle

-----------------------------------------------------------------------------
(* An account, or an address, of which nothing is recorded. *)
LEMMA AccountKept ==
  ASSUME TypeOK, NEW u \in Users, Account(u),
         fails'[u] = fails[u], attempts'[u] = attempts[u],
         u \in raised' => u \in raised,
         now' \in Nat, now <= now', Flying(u)' \subseteq Flying(u)
  PROVE  Account(u)'
<1>1. Cardinality(Flying(u)') <= Cardinality(Flying(u))
  BY FlyingParts, FewerRequests
<1>2. Cardinality(Flying(u)') \in Nat /\ Cardinality(Flying(u)) \in Nat
  BY FlyingParts, PartOfRequests
<1>3. Guarded(fails[u], attempts[u], MaxAttempts, Lockout,
              Cardinality(Flying(u)'), now')
  BY <1>1, <1>2, Later, TimesType, ConstantsAssumption DEF Account
<1> QED
  BY <1>3 DEF Account, Capped

LEMMA AddressKept ==
  ASSUME TypeOK, NEW i \in IPs, Address(i),
         ipFails'[i] = ipFails[i], ipAttempts'[i] = ipAttempts[i],
         now' \in Nat, now <= now', IPFlying(i)' \subseteq IPFlying(i)
  PROVE  Address(i)'
<1>1. Cardinality(IPFlying(i)') <= Cardinality(IPFlying(i))
  BY FlyingParts, FewerRequests
<1>2. Cardinality(IPFlying(i)') \in Nat /\ Cardinality(IPFlying(i)) \in Nat
  BY FlyingParts, PartOfRequests
<1>3. Guarded(ipFails[i], ipAttempts[i], IPMaxAttempts, IPLockout,
              Cardinality(IPFlying(i)'), now')
  BY <1>1, <1>2, Later, TimesType, ConstantsAssumption DEF Address
<1> QED
  BY <1>3 DEF Address

(* One that is asked about, and does not lock. *)
LEMMA AccountAsked ==
  ASSUME TypeOK, NEW u \in Users, Account(u), ~Locked(attempts[u]),
         fails'[u] = fails[u], attempts'[u] = Seen(attempts[u]), now' = now,
         raised' = raised
  PROVE  Account(u)'
<1>1. attempts[u].until \in Nat /\ attempts[u].count \in Nat /\ now \in Nat
  BY TimesType DEF Record
<1>2. /\ attempts[u].until <= now
      /\ Seen(attempts[u]) =
           IF attempts[u].until > 0 THEN NoRecord ELSE attempts[u]
  BY <1>1 DEF Locked, Seen
<1>3. Cardinality(Flying(u)') \in Nat /\ Cardinality(Flying(u)) \in Nat
  BY FlyingParts, PartOfRequests
<1>4. Guarded(fails[u], Seen(attempts[u]), MaxAttempts, Lockout,
              Cardinality(Flying(u)'), now)
  <2>1. Guarded(fails[u], attempts[u], MaxAttempts, Lockout,
                Cardinality(Flying(u)), now)
    BY DEF Account
  <2>2. Guarded(fails[u],
                IF attempts[u].until > 0 THEN NoRecord ELSE attempts[u],
                MaxAttempts, Lockout, Cardinality(Flying(u)'), now)
    BY <1>2, <1>3, <2>1, Looked, TimesType, ConstantsAssumption
  <2> QED
    BY <1>2, <2>2
<1>5. Capped(u)'
  <2>1. now <= MaxTime /\ Lockout \in Nat /\ MaxTime \in Nat
    BY ConstantsAssumption DEF TypeOK
  <2>2. ~(attempts[u].count >= MaxAttempts + MaxStrikes) /\ u \notin raised
    BY <1>1, <1>2, <2>1 DEF Account, Capped
  <2>3. /\ NoRecord.count = 0
        /\ ~(0 >= MaxAttempts + MaxStrikes)
    BY ConstantsAssumption DEF NoRecord
  <2> QED
    BY <2>2, <2>3 DEF Capped, Seen
<1> QED
  BY <1>4, <1>5 DEF Account

LEMMA AddressAsked ==
  ASSUME TypeOK, NEW i \in IPs, Address(i), ~Locked(ipAttempts[i]),
         ipFails'[i] = ipFails[i], ipAttempts'[i] = Seen(ipAttempts[i]),
         now' = now
  PROVE  Address(i)'
<1>1. ipAttempts[i].until \in Nat /\ now \in Nat
  BY TimesType DEF Record
<1>2. /\ ipAttempts[i].until <= now
      /\ Seen(ipAttempts[i]) =
           IF ipAttempts[i].until > 0 THEN NoRecord ELSE ipAttempts[i]
  BY <1>1 DEF Locked, Seen
<1>3. Cardinality(IPFlying(i)') \in Nat /\ Cardinality(IPFlying(i)) \in Nat
  BY FlyingParts, PartOfRequests
<1>4. Guarded(ipFails[i], Seen(ipAttempts[i]), IPMaxAttempts, IPLockout,
              Cardinality(IPFlying(i)'), now)
  <2>1. Guarded(ipFails[i], ipAttempts[i], IPMaxAttempts, IPLockout,
                Cardinality(IPFlying(i)), now)
    BY DEF Address
  <2>2. Guarded(ipFails[i],
                IF ipAttempts[i].until > 0 THEN NoRecord ELSE ipAttempts[i],
                IPMaxAttempts, IPLockout, Cardinality(IPFlying(i)'), now)
    BY <1>2, <1>3, <2>1, Looked, TimesType, ConstantsAssumption
  <2> QED
    BY <1>2, <2>2
<1> QED
  BY <1>4 DEF Address

(* One whose failures are forgotten. *)
LEMMA AccountForgotten ==
  ASSUME TypeOK, NEW u \in Users, now' = now,
         fails'[u] = << >>, attempts'[u] = NoRecord, u \notin raised'
  PROVE  Account(u)'
<1>1. Cardinality(Flying(u)') \in Nat
  BY FlyingParts, PartOfRequests
<1>2. Guarded(<< >>, NoRecord, MaxAttempts, Lockout,
              Cardinality(Flying(u)'), now)
  BY <1>1, Fresh, TimesType, ConstantsAssumption
<1>3. Capped(u)'
  BY ConstantsAssumption DEF Capped, NoRecord
<1> QED
  BY <1>2, <1>3 DEF Account

LEMMA AddressForgotten ==
  ASSUME TypeOK, NEW i \in IPs, now' = now,
         ipFails'[i] = << >>, ipAttempts'[i] = NoRecord
  PROVE  Address(i)'
<1>1. Cardinality(IPFlying(i)') \in Nat
  BY FlyingParts, PartOfRequests
<1>2. Guarded(<< >>, NoRecord, IPMaxAttempts, IPLockout,
              Cardinality(IPFlying(i)'), now)
  BY <1>1, Fresh, TimesType, ConstantsAssumption
<1> QED
  BY <1>2 DEF Address

(* A failure of a request in flight. *)
LEMMA AtLeastOnce ==
  ASSUME NEW a \in Nat, NEW m \in Nat \ {0}
  PROVE  a * m \in Nat /\ a * m >= a
  OBVIOUS

LEMMA AccountLockLong ==
  ASSUME NEW n \in Nat, n >= MaxAttempts, n <= MaxAttempts + MaxStrikes
  PROVE  AccountLock(n) \in Nat /\ AccountLock(n) >= Lockout
<1>1. n - MaxAttempts \in 0..MaxStrikes
  BY ConstantsAssumption
<1>2. Multiplier[n - MaxAttempts] \in Nat \ {0}
  BY <1>1, ConstantsAssumption
<1> QED
  BY <1>2, AtLeastOnce, ConstantsAssumption DEF AccountLock

LEMMA AccountStruck ==
  ASSUME TypeOK, NEW u \in Users,
         attempts[u].count < MaxAttempts + MaxStrikes,
         NEW two, two = Struck(attempts[u], MaxAttempts,
                               AccountLock(attempts[u].count + 1))
  PROVE  /\ two \in Record /\ two.count = attempts[u].count + 1
         /\ \E l \in Nat :
              /\ two.until = IF attempts[u].count + 1 >= MaxAttempts
                             THEN now + l ELSE attempts[u].until
              /\ attempts[u].count + 1 >= MaxAttempts => l >= Lockout
<1>1. /\ attempts[u].count \in Nat /\ attempts[u].until \in Nat
      /\ now \in Nat
  BY TimesType DEF Record
<1>2. attempts[u].count + 1 >= MaxAttempts =>
        /\ AccountLock(attempts[u].count + 1) \in Nat
        /\ AccountLock(attempts[u].count + 1) >= Lockout
  <2>1. MaxAttempts \in Nat /\ MaxStrikes \in Nat
    BY ConstantsAssumption
  <2>2. /\ attempts[u].count + 1 \in Nat
        /\ attempts[u].count + 1 <= MaxAttempts + MaxStrikes
    BY <1>1, <2>1
  <2> QED
    BY <2>2, AccountLockLong
<1>3. CASE attempts[u].count + 1 >= MaxAttempts
  <2>1. two = [count |-> attempts[u].count + 1, until |-> now + AccountLock(attempts[u].count + 1)]
    BY <1>3 DEF Struck
  <2>2. AccountLock(attempts[u].count + 1) \in Nat /\ AccountLock(attempts[u].count + 1) >= Lockout
    BY <1>2, <1>3
  <2> QED
    BY <1>1, <1>3, <2>1, <2>2 DEF Record
<1>4. CASE ~(attempts[u].count + 1 >= MaxAttempts)
  <2>1. two = [count |-> attempts[u].count + 1, until |-> attempts[u].until]
    BY <1>4 DEF Struck
  <2> QED
    BY <1>1, <1>4, <2>1 DEF Record
<1> QED
  BY <1>3, <1>4

LEMMA AddressStruck ==
  ASSUME TypeOK, NEW i \in IPs,
         NEW two, two = Struck(ipAttempts[i], IPMaxAttempts, IPLockout)
  PROVE  /\ two \in Record /\ two.count = ipAttempts[i].count + 1
         /\ \E l \in Nat :
              /\ two.until = IF ipAttempts[i].count + 1 >= IPMaxAttempts
                             THEN now + l ELSE ipAttempts[i].until
              /\ ipAttempts[i].count + 1 >= IPMaxAttempts => l >= IPLockout
<1>1. /\ ipAttempts[i].count \in Nat /\ ipAttempts[i].until \in Nat
      /\ now \in Nat
  BY TimesType DEF Record
<1>2. IPLockout \in Nat /\ IPLockout >= IPLockout
  BY ConstantsAssumption
<1>3. CASE ipAttempts[i].count + 1 >= IPMaxAttempts
  <2>1. two = [count |-> ipAttempts[i].count + 1, until |-> now + IPLockout]
    BY <1>3 DEF Struck
  <2>2. IPLockout \in Nat /\ IPLockout >= IPLockout
    BY <1>2, <1>3
  <2> QED
    BY <1>1, <1>3, <2>1, <2>2 DEF Record
<1>4. CASE ~(ipAttempts[i].count + 1 >= IPMaxAttempts)
  <2>1. two = [count |-> ipAttempts[i].count + 1, until |-> ipAttempts[i].until]
    BY <1>4 DEF Struck
  <2> QED
    BY <1>1, <1>4, <2>1 DEF Record
<1> QED
  BY <1>3, <1>4

(* The record of an account that takes a failure, counted or raised.       *)
Hit(u) ==
  /\ attempts'[u] \in Record
  /\ attempts'[u].count = attempts[u].count + 1
  /\ \E l \in Nat :
       /\ attempts'[u].until = IF attempts[u].count + 1 >= MaxAttempts
                               THEN now + l ELSE attempts[u].until
       /\ attempts[u].count + 1 >= MaxAttempts => l >= Lockout
  /\ Capped(u)'

(* A wrong password. *)
LEMMA AccountFails ==
  ASSUME TypeOK, NEW u \in Users, Account(u), NEW r \in Flying(u), Hit(u),
         fails'[u] = Append(fails[u], now), now' = now,
         Flying(u)' \subseteq Flying(u) \ {r}
  PROVE  Account(u)'
<1>1. /\ Cardinality(Flying(u)') + 1 <= Cardinality(Flying(u))
      /\ Cardinality(Flying(u)) <= N
      /\ Cardinality(Flying(u)) \in Nat /\ Cardinality(Flying(u)') \in Nat
  BY FlyingParts, OneRequestLess, PartOfRequests
<1>2. PICK two \in Record : two = attempts'[u]
  BY DEF Hit
<1>3. PICK l \in Nat :
        /\ two.count = attempts[u].count + 1
        /\ two.until = IF attempts[u].count + 1 >= MaxAttempts
                       THEN now + l ELSE attempts[u].until
        /\ attempts[u].count + 1 >= MaxAttempts => l >= Lockout
  BY <1>2 DEF Hit
<1>4. Guarded(fails[u], attempts[u], MaxAttempts, Lockout,
              Cardinality(Flying(u)), now)
  BY DEF Account
<1>5. Guarded(Append(fails[u], now), two, MaxAttempts, Lockout,
              Cardinality(Flying(u)'), now)
  BY <1>1, <1>3, <1>4, Failed, TimesType, ConstantsAssumption
<1> QED
  BY <1>2, <1>5 DEF Account, Hit

(* A wrong code. *)
LEMMA AccountCounts ==
  ASSUME TypeOK, NEW u \in Users, Account(u), Hit(u),
         fails'[u] = fails[u], now' = now,
         Flying(u)' \subseteq Flying(u)
  PROVE  Account(u)'
<1>1. /\ Cardinality(Flying(u)') <= Cardinality(Flying(u))
      /\ Cardinality(Flying(u)) <= N
      /\ Cardinality(Flying(u)) \in Nat /\ Cardinality(Flying(u)') \in Nat
  BY FlyingParts, FewerRequests, PartOfRequests
<1>2. PICK two \in Record : two = attempts'[u]
  BY DEF Hit
<1>3. PICK l \in Nat :
        /\ two.count = attempts[u].count + 1
        /\ two.until = IF attempts[u].count + 1 >= MaxAttempts
                       THEN now + l ELSE attempts[u].until
        /\ attempts[u].count + 1 >= MaxAttempts => l >= Lockout
  BY <1>2 DEF Hit
<1>4. Guarded(fails[u], attempts[u], MaxAttempts, Lockout,
              Cardinality(Flying(u)), now)
  BY DEF Account
<1>5. Guarded(fails[u], two, MaxAttempts, Lockout,
              Cardinality(Flying(u)), now)
  BY <1>1, <1>3, <1>4, Counted, TimesType, ConstantsAssumption
<1>6. now <= now /\ now \in Nat
  BY TimesType
<1>7. Guarded(fails[u], two, MaxAttempts, Lockout,
              Cardinality(Flying(u)'), now)
  BY <1>1, <1>5, <1>6, Later, TimesType, ConstantsAssumption
<1> QED
  BY <1>2, <1>7 DEF Account, Hit

(* Either of them, for the address. *)
LEMMA AddressFails ==
  ASSUME TypeOK, NEW i \in IPs, Address(i), NEW r \in IPFlying(i),
         ipFails'[i] = Append(ipFails[i], now), now' = now,
         ipAttempts'[i] = Struck(ipAttempts[i], IPMaxAttempts, IPLockout),
         IPFlying(i)' \subseteq IPFlying(i) \ {r}
  PROVE  Address(i)'
<1>1. /\ Cardinality(IPFlying(i)') + 1 <= Cardinality(IPFlying(i))
      /\ Cardinality(IPFlying(i)) <= N
      /\ Cardinality(IPFlying(i)) \in Nat /\ Cardinality(IPFlying(i)') \in Nat
  BY FlyingParts, OneRequestLess, PartOfRequests
<1> DEFINE two == Struck(ipAttempts[i], IPMaxAttempts, IPLockout)
<1>2. /\ two \in Record /\ two.count = ipAttempts[i].count + 1
      /\ \E l \in Nat :
           /\ two.until = IF ipAttempts[i].count + 1 >= IPMaxAttempts
                          THEN now + l ELSE ipAttempts[i].until
           /\ ipAttempts[i].count + 1 >= IPMaxAttempts => l >= IPLockout
  BY AddressStruck
<1> HIDE DEF two
<1>3. PICK l \in Nat :
        /\ two.until = IF ipAttempts[i].count + 1 >= IPMaxAttempts
                       THEN now + l ELSE ipAttempts[i].until
        /\ ipAttempts[i].count + 1 >= IPMaxAttempts => l >= IPLockout
  BY <1>2
<1>4. Guarded(ipFails[i], ipAttempts[i], IPMaxAttempts, IPLockout,
              Cardinality(IPFlying(i)), now)
  BY DEF Address
<1>5. Guarded(Append(ipFails[i], now), two, IPMaxAttempts, IPLockout,
              Cardinality(IPFlying(i)'), now)
  BY <1>1, <1>2, <1>3, <1>4, Failed, TimesType, ConstantsAssumption
<1> QED
  BY <1>5 DEF Address, two

-----------------------------------------------------------------------------
(* One request moves on, and becomes x. *)
Fits(x) ==
  /\ x \in Request \cup {Idle}
  /\ x.pc \in {"login", "checked", "ticketed", "issuing"} => x.user \in Users
  /\ Leg(x, mfa)

ReqType ==
  /\ req \in [Requests -> Request \cup {Idle}]
  /\ \A r \in Requests :
       req[r].pc \in {"login", "checked", "ticketed", "issuing"} =>
         req[r].user \in Users

LEMMA Moves ==
  ASSUME Inv, NEW r \in Requests, NEW x, Fits(x),
         req' = [req EXCEPT ![r] = x], mfa' = mfa
  PROVE  /\ ReqType' /\ Legs'
         /\ x.pc # "checked" => \A u : Flying(u)' \subseteq Flying(u) \ {r}
         /\ \A u : u # x.user => Flying(u)' \subseteq Flying(u)
         /\ x = Idle \/ (req[r] # Idle /\ req[r].ip = x.ip) =>
              \A i : IPFlying(i)' \subseteq IPFlying(i)
         /\ x = Idle => \A i : IPFlying(i)' \subseteq IPFlying(i) \ {r}
         /\ \A i : i # x.ip => IPFlying(i)' \subseteq IPFlying(i)
<1>1. /\ req \in [Requests -> Request \cup {Idle}]
      /\ req' \in [Requests -> Request \cup {Idle}]
      /\ \A q \in Requests : req'[q] = IF q = r THEN x ELSE req[q]
  BY DEF Inv, TypeOK, Fits
<1>2. ReqType'
  BY <1>1 DEF Inv, TypeOK, Fits, ReqType
<1>3. Legs'
  BY <1>1 DEF Inv, Legs, Fits
<1>4. /\ x.pc # "checked" => \A u : Flying(u)' \subseteq Flying(u) \ {r}
      /\ \A u : u # x.user => Flying(u)' \subseteq Flying(u)
  BY <1>1 DEF Flying
<1>5. /\ x = Idle \/ (req[r] # Idle /\ req[r].ip = x.ip) =>
              \A i : IPFlying(i)' \subseteq IPFlying(i)
      /\ x = Idle => \A i : IPFlying(i)' \subseteq IPFlying(i) \ {r}
      /\ \A i : i # x.ip => IPFlying(i)' \subseteq IPFlying(i)
  BY <1>1 DEF IPFlying
<1> QED
  BY <1>2, <1>3, <1>4, <1>5

LEMMA IdleFits == Fits(Idle)
  BY DEF Fits, Idle, Leg

LEMMA SeenType == ASSUME NEW record \in Record PROVE Seen(record) \in Record
  BY DEF Seen, Record, NoRecord

(* Steps that leave the records alone, and end or advance one request.     *)
LEMMA Advances ==
  ASSUME Inv, NEW r \in Requests, NEW x, Fits(x), x.pc # "checked",
         x = Idle \/ (req[r] # Idle /\ req[r].ip = x.ip),
         req' = [req EXCEPT ![r] = x],
         UNCHANGED <<now, attempts, ipAttempts, mfa, fails, ipFails, raised>>,
         (tickets \subseteq Ticket /\ TicketsDated)'
  PROVE  Inv'
<1>1. TypeOK /\ now' \in Nat /\ now <= now'
  BY TimesType DEF Inv
<1>2. /\ ReqType' /\ Legs'
      /\ \A u : Flying(u)' \subseteq Flying(u)
      /\ \A i : IPFlying(i)' \subseteq IPFlying(i)
  BY Moves
<1>3. TypeOK'
  BY <1>1, <1>2 DEF TypeOK, ReqType
<1>4. ASSUME NEW u \in Users PROVE Account(u)'
  <2>1. Account(u)
    BY DEF Inv
  <2> QED
    BY <1>1, <1>2, <2>1, AccountKept
<1>5. ASSUME NEW i \in IPs PROVE Address(i)'
  <2>1. Address(i)
    BY DEF Inv
  <2> QED
    BY <1>1, <1>2, <2>1, AddressKept
<1> QED
  BY <1>2, <1>3, <1>4, <1>5 DEF Inv

LEMMA AbortInv ==
  ASSUME Inv, NEW r \in Requests, Abort(r) \/ WithoutMFA(r)
  PROVE  Inv'
<1>1. (tickets \subseteq Ticket /\ TicketsDated)'
  BY DEF Inv, TypeOK, TicketsDated, Abort, WithoutMFA
<1>2. Idle.pc # "checked"
  BY DEF Idle
<1> QED
  BY <1>1, <1>2, IdleFits, Advances DEF Abort, WithoutMFA, End

LEMMA RightCodeInv ==
  ASSUME Inv, NEW r \in Requests, RightCode(r)
  PROVE  Inv'
<1> DEFINE x == [req[r] EXCEPT !.pc = "issuing", !.coded = mfa[req[r].user]]
<1>1. req[r].pc = "ticketed" /\ req[r] # Idle /\ TypeOK
  BY NotIdle DEF RightCode, Inv
<1>2. /\ req[r] \in Request /\ req[r].user \in Users
      /\ mfa[req[r].user] \in Secrets \cup {NoSecret}
  BY <1>1, UnderWay DEF TypeOK
<1>3. x \in Request /\ x.pc = "issuing" /\ x.user = req[r].user
      /\ x.ip = req[r].ip /\ x.age = req[r].age
      /\ x.coded = mfa[req[r].user]
  BY <1>2 DEF Request
<1>4. Leg(req[r], mfa)
  BY DEF Inv, Legs
<1>5. Leg(x, mfa)
  BY <1>1, <1>3, <1>4 DEF Leg
<1>6. Fits(x)
  BY <1>2, <1>3, <1>5 DEF Fits
<1>7. req' = [req EXCEPT ![r] = x]
  BY DEF RightCode
<1>8. (tickets \subseteq Ticket /\ TicketsDated)'
  BY DEF Inv, TypeOK, TicketsDated, RightCode
<1> HIDE DEF x
<1> QED
  BY <1>1, <1>3, <1>6, <1>7, <1>8, Advances DEF RightCode

LEMMA PresentTicketInv ==
  ASSUME Inv, NEW r \in Requests, PresentTicket(r)
  PROVE  Inv'
<1>1. req[r].pc = "mfa" /\ req[r] # Idle /\ TypeOK
  BY NotIdle DEF PresentTicket, Inv
<1>2. (tickets \subseteq Ticket /\ TicketsDated)'
  BY DEF Inv, TypeOK, TicketsDated, PresentTicket
<1>3. CASE End(r)
  <2>1. Idle.pc # "checked"
    BY DEF Idle
  <2> QED
    BY <1>2, <1>3, <2>1, IdleFits, Advances DEF PresentTicket, End
<1>4. ASSUME NEW t \in tickets, Acceptable(t),
             req' = [req EXCEPT ![r].pc = "ticketed", ![r].user = t.user,
                       ![r].age = now - (t.exp - TicketTTL)]
      PROVE  Inv'
  <2> DEFINE x == [req[r] EXCEPT !.pc = "ticketed", !.user = t.user,
                     !.age = now - (t.exp - TicketTTL)]
  <2>1. /\ t.user \in Users /\ t.exp \in Nat /\ t.exp - TicketTTL \in 0..now
        /\ t.exp >= now /\ now \in 0..MaxTime
        /\ TicketTTL \in Nat /\ MaxTime \in Nat
    BY <1>1, <1>4, ConstantsAssumption
       DEF TypeOK, Ticket, Inv, TicketsDated, Acceptable
  <2>2. /\ now - (t.exp - TicketTTL) \in 0..MaxTime
        /\ now - (t.exp - TicketTTL) <= TicketTTL
    BY <2>1
  <2>3. req[r] \in Request
    BY <1>1, UnderWay
  <2>4. /\ x \in Request /\ x.pc = "ticketed" /\ x.user = t.user
        /\ x.ip = req[r].ip /\ x.age = now - (t.exp - TicketTTL)
    BY <2>1, <2>2, <2>3 DEF Request
  <2>5. Fits(x)
    BY <2>1, <2>2, <2>4 DEF Fits, Leg
  <2>6. req' = [req EXCEPT ![r] = x]
    BY <1>4
  <2> HIDE DEF x
  <2> QED
    BY <1>1, <1>2, <2>4, <2>5, <2>6, Advances DEF PresentTicket
<1> QED
  BY <1>3, <1>4 DEF PresentTicket

LEMMA RightPasswordInv ==
  ASSUME Inv, NEW r \in Requests, RightPassword(r)
  PROVE  Inv'
<1> DEFINE u == req[r].user
<1>1. req[r].pc = "checked" /\ req[r] # Idle /\ TypeOK
  BY NotIdle DEF RightPassword, Inv
<1>2. req[r] \in Request /\ u \in Users /\ now \in 0..MaxTime
  BY <1>1, UnderWay DEF TypeOK
<1>3. CASE mfa[u] # NoSecret
  <2>1. /\ tickets' = tickets \cup {[user |-> u, exp |-> now + TicketTTL]}
        /\ End(r) /\ UNCHANGED now
    BY <1>3 DEF RightPassword
  <2>2. now + TicketTTL \in Nat /\ (now + TicketTTL) - TicketTTL \in 0..now
    BY <1>2, ConstantsAssumption
  <2>3. (tickets \subseteq Ticket /\ TicketsDated)'
    BY <1>1, <1>2, <2>1, <2>2 DEF Inv, TypeOK, TicketsDated, Ticket
  <2>4. Idle.pc # "checked"
    BY DEF Idle
  <2> QED
    BY <2>1, <2>3, <2>4, IdleFits, Advances DEF RightPassword, End
<1>4. CASE mfa[u] = NoSecret
  <2> DEFINE x == [req[r] EXCEPT !.pc = "issuing"]
  <2>1. req' = [req EXCEPT ![r] = x] /\ UNCHANGED <<tickets, now>>
    BY <1>4 DEF RightPassword, Goto
  <2>2. /\ x \in Request /\ x.pc = "issuing" /\ x.user = u
        /\ x.ip = req[r].ip /\ x.age = req[r].age /\ x.coded = req[r].coded
    BY <1>2 DEF Request
  <2>3. Leg(req[r], mfa)
    BY DEF Inv, Legs
  <2>4. Leg(x, mfa)
    BY <1>1, <1>4, <2>2, <2>3, ConstantsAssumption DEF Leg
  <2>5. Fits(x)
    BY <1>2, <2>2, <2>4 DEF Fits
  <2>6. (tickets \subseteq Ticket /\ TicketsDated)'
    BY <2>1 DEF Inv, TypeOK, TicketsDated
  <2> HIDE DEF x
  <2> QED
    BY <1>1, <2>1, <2>2, <2>5, <2>6, Advances DEF RightPassword
<1> QED
  BY <1>3, <1>4

LEMMA AdmitInv ==
  ASSUME Inv, NEW r \in Requests, NEW i \in IPs, NEW pc, NEW u,
         (pc = "login" /\ u \in Users) \/ (pc = "mfa" /\ u = NoUser),
         Admit(r, i, pc, u)
  PROVE  Inv'
<1> DEFINE x == [pc |-> pc, user |-> u, ip |-> i, age |-> 0,
                 coded |-> NoSecret, steady |-> TRUE]
<1>1. /\ ~Locked(ipAttempts[i]) /\ req' = [req EXCEPT ![r] = x]
      /\ ipAttempts' = [ipAttempts EXCEPT ![i] = Seen(@)]
      /\ UNCHANGED <<now, attempts, mfa, tickets, fails, ipFails, raised>>
  BY DEF Admit, LookAtIP
<1>2. TypeOK /\ now' \in Nat /\ now <= now' /\ now \in Nat
  BY <1>1, TimesType DEF Inv
<1>3. Fits(x)
  BY ConstantsAssumption DEF Fits, Leg, Request
<1>4. x.pc # "checked" /\ x.ip = i
  OBVIOUS
<1> HIDE DEF x
<1>5. /\ ReqType' /\ Legs'
      /\ \A v : Flying(v)' \subseteq Flying(v)
      /\ \A j : j # i => IPFlying(j)' \subseteq IPFlying(j)
  BY <1>1, <1>3, <1>4, Moves
<1>6. /\ ipAttempts' \in [IPs -> Record]
      /\ \A j \in IPs : ipAttempts'[j] =
           IF j = i THEN Seen(ipAttempts[i]) ELSE ipAttempts[j]
  BY <1>1, <1>2, SeenType DEF TypeOK
<1>7. TypeOK'
  BY <1>1, <1>2, <1>5, <1>6 DEF TypeOK, ReqType
<1>8. TicketsDated'
  BY <1>1 DEF Inv, TicketsDated
<1>9. ASSUME NEW v \in Users PROVE Account(v)'
  <2>1. Account(v)
    BY DEF Inv
  <2> QED
    BY <1>1, <1>2, <1>5, <2>1, AccountKept
<1>10. ASSUME NEW j \in IPs PROVE Address(j)'
  <2>1. Address(j)
    BY DEF Inv
  <2>2. CASE j = i
    BY <1>1, <1>2, <1>6, <2>1, <2>2, AddressAsked
  <2>3. CASE j # i
    BY <1>1, <1>2, <1>5, <1>6, <2>1, <2>3, AddressKept
  <2> QED
    BY <2>2, <2>3
<1> QED
  BY <1>5, <1>7, <1>8, <1>9, <1>10 DEF Inv

LEMMA AdmitOtherInv ==
  ASSUME Inv, NEW i \in IPs, AdmitOther(i)
  PROVE  Inv'
<1>1. /\ ~Locked(ipAttempts[i])
      /\ ipAttempts' = [ipAttempts EXCEPT ![i] = Seen(@)]
      /\ UNCHANGED <<now, attempts, mfa, tickets, req, fails, ipFails, raised>>
  BY DEF AdmitOther, LookAtIP
<1>2. TypeOK /\ now' \in Nat /\ now <= now' /\ now \in Nat
  BY <1>1, TimesType DEF Inv
<1>3. /\ \A v : Flying(v)' \subseteq Flying(v)
      /\ \A j : IPFlying(j)' \subseteq IPFlying(j)
  BY <1>1 DEF Flying, IPFlying
<1>4. /\ ipAttempts' \in [IPs -> Record]
      /\ \A j \in IPs : ipAttempts'[j] =
           IF j = i THEN Seen(ipAttempts[i]) ELSE ipAttempts[j]
  BY <1>1, <1>2, SeenType DEF TypeOK
<1>5. TypeOK'
  BY <1>1, <1>2, <1>4 DEF TypeOK
<1>6. TicketsDated' /\ Legs'
  BY <1>1 DEF Inv, TicketsDated, Legs
<1>7. ASSUME NEW v \in Users PROVE Account(v)'
  <2>1. Account(v)
    BY DEF Inv
  <2> QED
    BY <1>1, <1>2, <1>3, <2>1, AccountKept
<1>8. ASSUME NEW j \in IPs PROVE Address(j)'
  <2>1. Address(j)
    BY DEF Inv
  <2>2. CASE j = i
    BY <1>1, <1>2, <1>4, <2>1, <2>2, AddressAsked
  <2>3. CASE j # i
    BY <1>1, <1>2, <1>3, <1>4, <2>1, <2>3, AddressKept
  <2> QED
    BY <2>2, <2>3
<1> QED
  BY <1>5, <1>6, <1>7, <1>8 DEF Inv

LEMMA CheckLockInv ==
  ASSUME Inv, NEW r \in Requests, CheckLock(r)
  PROVE  Inv'
<1> DEFINE u == req[r].user
           x == IF Locked(attempts[u]) THEN Idle
                                       ELSE [req[r] EXCEPT !.pc = "checked"]
<1>1. /\ req[r].pc = "login" /\ req' = [req EXCEPT ![r] = x]
      /\ attempts' = [attempts EXCEPT ![u] = Seen(@)]
      /\ UNCHANGED <<now, ipAttempts, mfa, tickets, fails, ipFails, raised>>
  BY DEF CheckLock, End, Goto
<1>2. TypeOK /\ now' \in Nat /\ now <= now' /\ now \in Nat
  BY <1>1, TimesType DEF Inv
<1>3. req[r] # Idle /\ req[r] \in Request /\ u \in Users
  BY <1>1, <1>2, NotIdle, UnderWay
<1>4. /\ Fits(x) /\ (x = Idle \/ (x.user = u /\ x.ip = req[r].ip))
      /\ Locked(attempts[u]) => x = Idle
  <2>1. CASE Locked(attempts[u])
    BY <2>1, IdleFits
  <2>2. CASE ~Locked(attempts[u])
    <3> DEFINE y == [req[r] EXCEPT !.pc = "checked"]
    <3>1. /\ y \in Request /\ y.pc = "checked" /\ y.user = u
          /\ y.ip = req[r].ip /\ y.age = req[r].age /\ y.coded = req[r].coded
      BY <1>3 DEF Request
    <3>2. Leg(req[r], mfa)
      BY DEF Inv, Legs
    <3>3. Leg(y, mfa)
      BY <1>1, <3>1, <3>2 DEF Leg
    <3>4. Fits(y)
      BY <1>3, <3>1, <3>3 DEF Fits
    <3> QED
      BY <2>2, <3>1, <3>4
  <2> QED
    BY <2>1, <2>2
<1> HIDE DEF x
<1>5. /\ ReqType' /\ Legs'
      /\ \A i : IPFlying(i)' \subseteq IPFlying(i)
  BY <1>1, <1>3, <1>4, Moves
<1>6. /\ attempts' \in [Users -> Record]
      /\ \A v \in Users : attempts'[v] =
           IF v = u THEN Seen(attempts[u]) ELSE attempts[v]
  BY <1>1, <1>2, SeenType DEF TypeOK
<1>7. TypeOK'
  BY <1>1, <1>2, <1>5, <1>6 DEF TypeOK, ReqType
<1>8. TicketsDated'
  BY <1>1 DEF Inv, TicketsDated
<1>9. ASSUME NEW v \in Users PROVE Account(v)'
  <2>1. Account(v)
    BY DEF Inv
  <2>2. CASE v = u /\ ~Locked(attempts[u])
    BY <1>1, <1>2, <1>6, <2>1, <2>2, AccountAsked
  <2>3. CASE v = u /\ Locked(attempts[u])
    <3>1. Seen(attempts[u]) = attempts[u] /\ x = Idle
      BY <1>4, <2>3 DEF Seen
    <3>2. Idle.pc # "checked"
      BY DEF Idle
    <3>3. Flying(v)' \subseteq Flying(v)
      BY <1>1, <1>4, <3>1, <3>2, Moves
    <3> QED
      BY <1>1, <1>2, <1>6, <2>1, <2>3, <3>1, <3>3, AccountKept
  <2>4. CASE v # u
    <3>1. x = Idle => x.pc # "checked"
      BY DEF Idle
    <3>2. Flying(v)' \subseteq Flying(v)
      BY <1>1, <1>4, <2>4, <3>1, Moves
    <3> QED
      BY <1>1, <1>2, <1>6, <2>1, <2>4, <3>2, AccountKept
  <2> QED
    BY <2>2, <2>3, <2>4
<1>10. ASSUME NEW i \in IPs PROVE Address(i)'
  <2>1. Address(i)
    BY DEF Inv
  <2> QED
    BY <1>1, <1>2, <1>5, <2>1, AddressKept
<1> QED
  BY <1>5, <1>7, <1>8, <1>9, <1>10 DEF Inv

-----------------------------------------------------------------------------
(* A failure is recorded for account u and address i, or only for u.       *)
Recorded(u, i) ==
  /\ attempts' \in [Users -> Record] /\ ipAttempts' \in [IPs -> Record]
  /\ ipFails' \in [IPs -> Seq(0..MaxTime)] /\ raised' \subseteq Users
  /\ Hit(u)
  /\ \A v \in Users : v # u => /\ attempts'[v] = attempts[v]
                               /\ v \in raised' => v \in raised
  /\ \/ /\ ipAttempts'[i] = Struck(ipAttempts[i], IPMaxAttempts, IPLockout)
        /\ ipFails'[i] = Append(ipFails[i], now)
     \/ /\ ipAttempts'[i] = ipAttempts[i]
        /\ ipFails'[i] = ipFails[i]
  /\ \A j \in IPs : j # i => /\ ipAttempts'[j] = ipAttempts[j]
                             /\ ipFails'[j] = ipFails[j]

LEMMA CountRecorded ==
  ASSUME TypeOK, NEW u \in Users, NEW i \in IPs, Account(u),
         CountFailure(u, i)
  PROVE  Recorded(u, i)
<1> DEFINE one == Struck(attempts[u], MaxAttempts,
                         AccountLock(attempts[u].count + 1))
           two == Struck(ipAttempts[i], IPMaxAttempts, IPLockout)
<1>1. /\ attempts[u].count < MaxAttempts + MaxStrikes
      /\ attempts' = [attempts EXCEPT ![u] = one]
      /\ ipAttempts' = [ipAttempts EXCEPT ![i] = two]
      /\ ipFails' = [ipFails EXCEPT ![i] = Append(@, now)]
      /\ raised' = raised
  BY DEF CountFailure
<1>2. /\ one \in Record /\ two \in Record
      /\ one.count = attempts[u].count + 1
      /\ \E l \in Nat :
           /\ one.until = IF attempts[u].count + 1 >= MaxAttempts
                          THEN now + l ELSE attempts[u].until
           /\ attempts[u].count + 1 >= MaxAttempts => l >= Lockout
  BY <1>1, AccountStruck, AddressStruck
<1>3. Append(ipFails[i], now) \in Seq(0..MaxTime)
  BY DEF TypeOK
<1>4. one.count >= MaxAttempts + MaxStrikes => one.until > MaxTime + Lockout
  <2>1. SUFFICES ASSUME one.count >= MaxAttempts + MaxStrikes
                 PROVE  one.until > MaxTime + Lockout
    OBVIOUS
  <2>2. /\ attempts[u].count \in Nat /\ now \in Nat
        /\ MaxAttempts \in Nat /\ MaxStrikes \in Nat
    BY TimesType, ConstantsAssumption DEF Record
  <2>3. attempts[u].count + 1 = MaxAttempts + MaxStrikes
    BY <1>1, <1>2, <2>1, <2>2
  <2>4. /\ attempts[u].count + 1 >= MaxAttempts
        /\ (attempts[u].count + 1) - MaxAttempts = MaxStrikes
    BY <2>2, <2>3
  <2>5. one.until = now + Lockout * Multiplier[MaxStrikes]
    BY <2>4 DEF Struck, AccountLock
  <2>6. /\ Lockout * Multiplier[MaxStrikes] > MaxTime + Lockout
        /\ Multiplier[MaxStrikes] \in Nat /\ Lockout \in Nat
        /\ MaxTime \in Nat
    BY <2>2, ConstantsAssumption
  <2>7. Lockout * Multiplier[MaxStrikes] \in Nat
    BY <2>6
  <2> HIDE DEF one
  <2> QED
    BY <2>2, <2>5, <2>6, <2>7
<1> HIDE DEF one, two
<1>5. /\ attempts' \in [Users -> Record] /\ attempts'[u] = one
      /\ \A v \in Users : v # u => attempts'[v] = attempts[v]
  BY <1>1, <1>2 DEF TypeOK
<1>6. /\ ipAttempts' \in [IPs -> Record] /\ ipAttempts'[i] = two
      /\ \A j \in IPs : j # i => ipAttempts'[j] = ipAttempts[j]
  BY <1>1, <1>2 DEF TypeOK
<1>7. /\ ipFails' \in [IPs -> Seq(0..MaxTime)]
      /\ ipFails'[i] = Append(ipFails[i], now)
      /\ \A j \in IPs : j # i => ipFails'[j] = ipFails[j]
  BY <1>1, <1>3 DEF TypeOK
<1>8. u \notin raised
  BY <1>1, TimesType, ConstantsAssumption DEF Account, Capped, Record
<1>9. Hit(u)
  BY <1>1, <1>2, <1>4, <1>5, <1>8 DEF Hit, Capped
<1> QED
  BY <1>1, <1>5, <1>6, <1>7, <1>9 DEF two, TypeOK, Recorded

LEMMA OverflowRecorded ==
  ASSUME TypeOK, NEW u \in Users, NEW i \in IPs, Account(u),
         OverflowFailure(u)
  PROVE  Recorded(u, i)
<1>1. /\ attempts[u].count >= MaxAttempts + MaxStrikes
      /\ attempts' = [attempts EXCEPT ![u].count = @ + 1]
      /\ raised' = raised \cup {u}
      /\ UNCHANGED <<ipAttempts, ipFails>>
  BY DEF OverflowFailure
<1>2. /\ attempts[u] \in Record
      /\ attempts[u].count \in Nat /\ attempts[u].until \in Nat
      /\ now \in Nat /\ now <= MaxTime
  BY TimesType DEF Record, TypeOK
<1>3. /\ MaxAttempts \in Nat /\ MaxStrikes \in Nat
      /\ Lockout \in Nat /\ MaxTime \in Nat
  BY ConstantsAssumption
<1>4. attempts[u].until > MaxTime + Lockout
  BY <1>1 DEF Account, Capped
<1> DEFINE one == [attempts[u] EXCEPT !.count = attempts[u].count + 1]
<1>5. /\ one \in Record /\ one.count = attempts[u].count + 1
      /\ one.until = attempts[u].until
  BY <1>2 DEF Record
<1>6. /\ attempts' \in [Users -> Record] /\ attempts'[u] = one
      /\ \A v \in Users : v # u => attempts'[v] = attempts[v]
  BY <1>1, <1>5 DEF TypeOK
<1> HIDE DEF one
<1>7. \E l \in Nat : one.until = now + l /\ l >= Lockout
  <2>1. /\ attempts[u].until - now \in Nat
        /\ attempts[u].until = now + (attempts[u].until - now)
        /\ attempts[u].until - now >= Lockout
    BY <1>2, <1>3, <1>4
  <2> QED
    BY <1>5, <2>1
<1>8. attempts[u].count + 1 >= MaxAttempts
  BY <1>1, <1>2, <1>3
<1>9. one.count >= MaxAttempts + MaxStrikes /\ one.until > MaxTime + Lockout
  BY <1>1, <1>2, <1>3, <1>4, <1>5
<1>10. Hit(u)
  BY <1>5, <1>6, <1>7, <1>8, <1>9 DEF Hit, Capped
<1> QED
  BY <1>1, <1>6, <1>10 DEF TypeOK, Recorded

LEMMA FailureRecorded ==
  ASSUME TypeOK, NEW u \in Users, NEW i \in IPs, Account(u),
         RecordFailure(u, i)
  PROVE  Recorded(u, i)
BY CountRecorded, OverflowRecorded DEF RecordFailure

(* Either way, for the address of the request.                             *)
LEMMA AddressAfterFailure ==
  ASSUME Inv, NEW u \in Users, NEW i \in IPs, NEW r \in IPFlying(i),
         Recorded(u, i), now' = now,
         \A j : IPFlying(j)' \subseteq IPFlying(j) \ {r}
  PROVE  \A j \in IPs : Address(j)'
<1> SUFFICES ASSUME NEW j \in IPs PROVE Address(j)'
  OBVIOUS
<1>1. /\ TypeOK /\ now' \in Nat /\ now <= now' /\ Address(j)
      /\ IPFlying(j)' \subseteq IPFlying(j)
  BY TimesType DEF Inv
<1>2. CASE j = i /\ ipFails'[i] = Append(ipFails[i], now)
            /\ ipAttempts'[i] = Struck(ipAttempts[i], IPMaxAttempts, IPLockout)
  BY <1>1, <1>2, AddressFails
<1>3. CASE ipAttempts'[j] = ipAttempts[j] /\ ipFails'[j] = ipFails[j]
  BY <1>1, <1>3, AddressKept
<1> QED
  BY <1>2, <1>3 DEF Recorded

(* A request that ends is in flight no more. *)
LEMMA Ends ==
  ASSUME Inv, NEW r \in Requests, End(r), mfa' = mfa
  PROVE  /\ ReqType' /\ Legs'
         /\ \A u : Flying(u)' \subseteq Flying(u) \ {r}
         /\ \A i : IPFlying(i)' \subseteq IPFlying(i) \ {r}
<1>1. Idle.pc # "checked"
  BY DEF Idle
<1> QED
  BY <1>1, IdleFits, Moves DEF End

LEMMA WrongPasswordInv ==
  ASSUME Inv, NEW r \in Requests, WrongPassword(r)
  PROVE  Inv'
<1> DEFINE u == req[r].user
           i == req[r].ip
<1>1. /\ req[r].pc = "checked" /\ RecordFailure(u, i) /\ End(r)
      /\ fails' = [fails EXCEPT ![u] = Append(@, now)]
      /\ UNCHANGED <<now, mfa, tickets>>
  BY DEF WrongPassword
<1>2. TypeOK /\ now' \in Nat /\ now <= now' /\ now \in 0..MaxTime
  BY <1>1, TimesType DEF Inv, TypeOK
<1>3. req[r] # Idle /\ u \in Users /\ i \in IPs
  BY <1>1, <1>2, NotIdle, UnderWay
<1>4. r \in Flying(u) /\ r \in IPFlying(i)
  BY <1>1, <1>3 DEF Flying, IPFlying
<1> HIDE DEF u, i
<1>5. /\ ReqType' /\ Legs'
      /\ \A v : Flying(v)' \subseteq Flying(v) \ {r}
      /\ \A j : IPFlying(j)' \subseteq IPFlying(j) \ {r}
  BY <1>1, Ends
<1>6. Recorded(u, i)
  <2>1. Account(u)
    BY <1>3 DEF Inv
  <2> QED
    BY <1>1, <1>2, <1>3, <2>1, FailureRecorded
<1>7. /\ fails' \in [Users -> Seq(0..MaxTime)]
      /\ fails'[u] = Append(fails[u], now)
      /\ \A v \in Users : v # u => fails'[v] = fails[v]
  <2>1. Append(fails[u], now) \in Seq(0..MaxTime)
    BY <1>2, <1>3 DEF TypeOK
  <2> QED
    BY <1>1, <1>2, <1>3, <2>1 DEF TypeOK
<1>8. TypeOK'
  BY <1>1, <1>2, <1>5, <1>6, <1>7 DEF TypeOK, ReqType, Recorded
<1>9. TicketsDated'
  BY <1>1 DEF Inv, TicketsDated
<1>10. ASSUME NEW v \in Users PROVE Account(v)'
  <2>1. Account(v) /\ Flying(v)' \subseteq Flying(v)
    BY <1>5 DEF Inv
  <2>2. CASE v = u
    BY <1>1, <1>2, <1>3, <1>4, <1>5, <1>6, <1>7, <2>1, <2>2, AccountFails
       DEF Recorded
  <2>3. CASE v # u
    BY <1>1, <1>2, <1>6, <1>7, <2>1, <2>3, AccountKept DEF Recorded
  <2> QED
    BY <2>2, <2>3
<1>11. \A j \in IPs : Address(j)'
  BY <1>1, <1>3, <1>4, <1>5, <1>6, AddressAfterFailure
<1> QED
  BY <1>5, <1>8, <1>9, <1>10, <1>11 DEF Inv

LEMMA WrongCodeInv ==
  ASSUME Inv, NEW r \in Requests, WrongCode(r)
  PROVE  Inv'
<1> DEFINE u == req[r].user
           i == req[r].ip
<1>1. /\ req[r].pc = "ticketed" /\ RecordFailure(u, i) /\ End(r)
      /\ UNCHANGED <<now, mfa, tickets, fails>>
  BY DEF WrongCode
<1>2. TypeOK /\ now' \in Nat /\ now <= now'
  BY <1>1, TimesType DEF Inv
<1>3. req[r] # Idle /\ u \in Users /\ i \in IPs
  BY <1>1, <1>2, NotIdle, UnderWay
<1>4. r \in IPFlying(i)
  BY <1>3 DEF IPFlying
<1> HIDE DEF u, i
<1>5. /\ ReqType' /\ Legs'
      /\ \A v : Flying(v)' \subseteq Flying(v) \ {r}
      /\ \A j : IPFlying(j)' \subseteq IPFlying(j) \ {r}
  BY <1>1, Ends
<1>6. Recorded(u, i)
  <2>1. Account(u)
    BY <1>3 DEF Inv
  <2> QED
    BY <1>1, <1>2, <1>3, <2>1, FailureRecorded
<1>7. TypeOK'
  BY <1>1, <1>2, <1>5, <1>6 DEF TypeOK, ReqType, Recorded
<1>8. TicketsDated'
  BY <1>1 DEF Inv, TicketsDated
<1>9. ASSUME NEW v \in Users PROVE Account(v)'
  <2>1. Account(v) /\ Flying(v)' \subseteq Flying(v)
    BY <1>5 DEF Inv
  <2>2. CASE v = u
    BY <1>1, <1>2, <1>3, <1>5, <1>6, <2>1, <2>2, AccountCounts DEF Recorded
  <2>3. CASE v # u
    BY <1>1, <1>2, <1>6, <2>1, <2>3, AccountKept DEF Recorded
  <2> QED
    BY <2>2, <2>3
<1>10. \A j \in IPs : Address(j)'
  BY <1>1, <1>3, <1>4, <1>5, <1>6, AddressAfterFailure
<1> QED
  BY <1>5, <1>7, <1>8, <1>9, <1>10 DEF Inv

LEMMA IssueInv ==
  ASSUME Inv, NEW r \in Requests, Issue(r)
  PROVE  Inv'
<1> DEFINE u == req[r].user
           i == req[r].ip
<1>1. /\ req[r].pc = "issuing" /\ RecordSuccess(u, i) /\ End(r)
      /\ UNCHANGED <<now, mfa, tickets>>
  BY DEF Issue
<1>2. TypeOK /\ now' \in Nat /\ now <= now'
  BY <1>1, TimesType DEF Inv
<1>3. u \in Users /\ i \in IPs
  BY <1>1, <1>2, NotIdle, UnderWay
<1> HIDE DEF u, i
<1>4. /\ ReqType' /\ Legs'
      /\ \A v : Flying(v)' \subseteq Flying(v)
      /\ \A j : IPFlying(j)' \subseteq IPFlying(j)
  BY <1>1, Ends
<1>5. NoRecord \in Record /\ << >> \in Seq(0..MaxTime)
  BY DEF NoRecord, Record
<1>6. /\ attempts' \in [Users -> Record]
      /\ fails' \in [Users -> Seq(0..MaxTime)]
      /\ attempts'[u] = NoRecord /\ fails'[u] = << >>
      /\ \A v \in Users : v # u => /\ attempts'[v] = attempts[v]
                                   /\ fails'[v] = fails[v]
      /\ raised' = raised \ {u}
  BY <1>1, <1>2, <1>3, <1>5 DEF RecordSuccess, TypeOK
<1>7. /\ ipAttempts' \in [IPs -> Record]
      /\ ipFails' \in [IPs -> Seq(0..MaxTime)]
      /\ ipAttempts'[i] = NoRecord /\ ipFails'[i] = << >>
      /\ \A j \in IPs : j # i => /\ ipAttempts'[j] = ipAttempts[j]
                                 /\ ipFails'[j] = ipFails[j]
  BY <1>1, <1>2, <1>3, <1>5 DEF RecordSuccess, TypeOK
<1>8. TypeOK'
  BY <1>1, <1>2, <1>4, <1>6, <1>7 DEF TypeOK, ReqType
<1>9. TicketsDated'
  BY <1>1 DEF Inv, TicketsDated
<1>10. ASSUME NEW v \in Users PROVE Account(v)'
  <2>1. CASE v = u
    BY <1>1, <1>2, <1>6, <2>1, AccountForgotten
  <2>2. CASE v # u
    <3>1. Account(v)
      BY DEF Inv
    <3> QED
      BY <1>2, <1>4, <1>6, <2>2, <3>1, AccountKept
  <2> QED
    BY <2>1, <2>2
<1>11. ASSUME NEW j \in IPs PROVE Address(j)'
  <2>1. CASE j = i
    BY <1>1, <1>2, <1>7, <2>1, AddressForgotten
  <2>2. CASE j # i
    <3>1. Address(j)
      BY DEF Inv
    <3> QED
      BY <1>2, <1>4, <1>7, <2>2, <3>1, AddressKept
  <2> QED
    BY <2>1, <2>2
<1> QED
  BY <1>4, <1>8, <1>9, <1>10, <1>11 DEF Inv

-----------------------------------------------------------------------------
(* Steps that leave every record, and every request but for its history.   *)
LEMMA RecordsKept ==
  ASSUME Inv, UNCHANGED <<attempts, ipAttempts, fails, ipFails, raised>>,
         now' \in Nat, now <= now',
         \A u : Flying(u)' \subseteq Flying(u),
         \A i : IPFlying(i)' \subseteq IPFlying(i)
  PROVE  (\A u \in Users : Account(u))' /\ (\A i \in IPs : Address(i))'
<1>1. ASSUME NEW u \in Users PROVE Account(u)'
  <2>1. TypeOK /\ Account(u)
    BY DEF Inv
  <2> QED
    BY <2>1, AccountKept
<1>2. ASSUME NEW i \in IPs PROVE Address(i)'
  <2>1. TypeOK /\ Address(i)
    BY DEF Inv
  <2> QED
    BY <2>1, AddressKept
<1> QED
  BY <1>1, <1>2

LEMMA SetMFAInv ==
  ASSUME Inv, NEW u \in Users, NEW s \in Secrets \cup {NoSecret}, SetMFA(u, s)
  PROVE  Inv'
<1>1. /\ mfa' = [mfa EXCEPT ![u] = s]
      /\ req' = [r \in Requests |->
           IF req[r].pc = "issuing" /\ req[r].user = u
           THEN [req[r] EXCEPT !.steady = FALSE] ELSE req[r]]
      /\ UNCHANGED <<now, attempts, ipAttempts, tickets, fails, ipFails, raised>>
  BY DEF SetMFA
<1>2. TypeOK /\ now' \in Nat /\ now <= now'
  BY <1>1, TimesType DEF Inv
<1>3. ASSUME NEW r \in Requests
      PROVE  /\ req'[r] \in Request \cup {Idle}
             /\ req'[r] # Idle => req[r] # Idle /\ req'[r].ip = req[r].ip
             /\ req'[r].pc = req[r].pc
             /\ req'[r].user = req[r].user \/ req'[r] = req[r]
             /\ Leg(req'[r], mfa')
  <2>1. Leg(req[r], mfa)
    BY DEF Inv, Legs
  <2>2. CASE req[r].pc = "issuing" /\ req[r].user = u
    <3> DEFINE x == [req[r] EXCEPT !.steady = FALSE]
    <3>1. req[r] # Idle /\ req[r] \in Request
      BY <1>2, <2>2, NotIdle, UnderWay
    <3>2. /\ x \in Request /\ x.pc = req[r].pc /\ x.user = req[r].user
          /\ x.ip = req[r].ip /\ x.age = req[r].age /\ x.steady = FALSE
      BY <3>1 DEF Request
    <3>3. Leg(x, mfa')
      BY <2>1, <2>2, <3>2 DEF Leg
    <3>4. req'[r] = x
      BY <1>1, <2>2
    <3> HIDE DEF x
    <3> QED
      BY <3>1, <3>2, <3>3, <3>4
  <2>3. CASE ~(req[r].pc = "issuing" /\ req[r].user = u)
    <3>1. req'[r] = req[r] /\ req[r] \in Request \cup {Idle}
      BY <1>1, <1>2, <2>3 DEF TypeOK
    <3>2. ASSUME req[r].pc = "issuing" PROVE mfa'[req[r].user] = mfa[req[r].user]
      BY <1>1, <1>2, <2>3, <3>2 DEF TypeOK
    <3>3. Leg(req[r], mfa')
      BY <2>1, <3>2 DEF Leg
    <3> QED
      BY <3>1, <3>3
  <2> QED
    BY <2>2, <2>3
<1>4. ReqType'
  BY <1>1, <1>2, <1>3 DEF TypeOK, ReqType
<1>5. TypeOK'
  BY <1>1, <1>2, <1>4 DEF TypeOK, ReqType
<1>6. Legs' /\ TicketsDated'
  BY <1>1, <1>3 DEF Legs, Inv, TicketsDated
<1>7. \A v : Flying(v)' \subseteq Flying(v)
  BY <1>3 DEF Flying
<1>8. \A i : IPFlying(i)' \subseteq IPFlying(i)
  BY <1>3 DEF IPFlying
<1> QED
  BY <1>1, <1>2, <1>5, <1>6, <1>7, <1>8, RecordsKept DEF Inv

LEMMA TickInv ==
  ASSUME Inv, Tick
  PROVE  Inv'
<1>1. /\ now < MaxTime /\ now' = now + 1
      /\ tickets' \subseteq tickets
      /\ UNCHANGED <<attempts, ipAttempts, mfa, req, fails, ipFails, raised>>
  BY DEF Tick
<1>2. /\ TypeOK /\ now \in Nat /\ now' \in 0..MaxTime /\ now' \in Nat
      /\ now <= now' /\ 0..now \subseteq 0..now'
  BY <1>1, TimesType, ConstantsAssumption DEF Inv
<1>3. TypeOK'
  BY <1>1, <1>2 DEF TypeOK
<1>4. TicketsDated'
  BY <1>1, <1>2 DEF Inv, TicketsDated
<1>5. Legs'
  BY <1>1 DEF Inv, Legs
<1>6. /\ \A u : Flying(u)' \subseteq Flying(u)
      /\ \A i : IPFlying(i)' \subseteq IPFlying(i)
  BY <1>1 DEF Flying, IPFlying
<1> QED
  BY <1>1, <1>2, <1>3, <1>4, <1>5, <1>6, RecordsKept DEF Inv

LEMMA InitInv ==
  ASSUME Init
  PROVE  Inv
<1>1. NoRecord \in Record /\ << >> \in Seq(0..MaxTime) /\ 0 \in 0..MaxTime
  BY ConstantsAssumption DEF NoRecord, Record
<1>2. TypeOK
  BY <1>1 DEF Init, TypeOK, Idle
<1>3. TicketsDated
  BY DEF Init, TicketsDated
<1>4. Legs
  BY DEF Init, Legs, Leg, Idle
<1>5. ASSUME NEW u \in Users PROVE Account(u)
  <2>1. Cardinality(Flying(u)) \in Nat
    BY FlyingParts, PartOfRequests
  <2>2. fails[u] = << >> /\ attempts[u] = NoRecord /\ now \in Nat
    BY DEF Init
  <2>3. Capped(u)
    BY <2>2, ConstantsAssumption DEF Init, Capped, NoRecord
  <2> QED
    BY <2>1, <2>2, <2>3, Fresh, ConstantsAssumption DEF Account
<1>6. ASSUME NEW i \in IPs PROVE Address(i)
  <2>1. Cardinality(IPFlying(i)) \in Nat
    BY FlyingParts, PartOfRequests
  <2>2. ipFails[i] = << >> /\ ipAttempts[i] = NoRecord /\ now \in Nat
    BY DEF Init
  <2> QED
    BY <2>1, <2>2, Fresh, ConstantsAssumption DEF Address
<1> QED
  BY <1>2, <1>3, <1>4, <1>5, <1>6 DEF Inv

LEMMA StutterInv ==
  ASSUME Inv, UNCHANGED vars
  PROVE  Inv'
  BY DEF vars, Inv, TypeOK, TicketsDated, Legs, Account, Capped, Address,
         Flying, IPFlying

LEMMA NextInv ==
  ASSUME Inv, [Next]_vars
  PROVE  Inv'
<1>1. ASSUME NEW r \in Requests, NEW i \in IPs, AdmitLogin(r, i) PROVE Inv'
  BY <1>1, AdmitInv DEF AdmitLogin
<1>2. ASSUME NEW r \in Requests, NEW i \in IPs, AdmitMFA(r, i) PROVE Inv'
  BY <1>2, AdmitInv DEF AdmitMFA
<1>3. ASSUME NEW r \in Requests,
             \/ CheckLock(r) \/ WrongPassword(r) \/ RightPassword(r)
             \/ PresentTicket(r) \/ WithoutMFA(r) \/ WrongCode(r)
             \/ RightCode(r) \/ Issue(r) \/ Abort(r)
      PROVE  Inv'
  BY <1>3, CheckLockInv, WrongPasswordInv, RightPasswordInv, PresentTicketInv,
     WrongCodeInv, RightCodeInv, IssueInv, AbortInv
<1>4. ASSUME NEW i \in IPs, AdmitOther(i) PROVE Inv'
  BY <1>4, AdmitOtherInv
<1>5. ASSUME NEW u \in Users, NEW s \in Secrets \cup {NoSecret}, SetMFA(u, s)
      PROVE  Inv'
  BY <1>5, SetMFAInv
<1>6. CASE Tick
  BY <1>6, TickInv
<1>7. CASE UNCHANGED vars
  BY <1>7, StutterInv
<1> QED
  BY <1>1, <1>2, <1>3, <1>4, <1>5, <1>6, <1>7 DEF Next

LEMMA AlwaysInv == Spec => []Inv
<1>1. Init => Inv
  BY InitInv
<1>2. Inv /\ [Next]_vars => Inv'
  BY NextInv
<1> QED
  BY <1>1, <1>2, PTL DEF Spec

-----------------------------------------------------------------------------
(* The state of the login path is always of its type: in particular, every *)
(* request that counts a failure or gets tokens acts for a user, which     *)
(* mfa_verify knows only from the ticket.                                  *)
THEOREM TypeCorrect == Spec => []TypeOK
<1>1. Inv => TypeOK
  BY DEF Inv
<1> QED
  BY <1>1, AlwaysInv, PTL

(* However many accounts, addresses and requests there are, and whatever   *)
(* the limits: no more than MAX_ATTEMPTS - 1 wrong passwords of an account *)
(* and one per request in flight come within LOCKOUT_SECONDS.              *)
THEOREM GuessesAlwaysBounded == Spec => []GuessesBounded
<1>1. Inv => GuessesBounded
  BY DEF Inv, Account, Guarded, GuessesBounded, N
<1> QED
  BY <1>1, AlwaysInv, PTL

(* The same for the failures of either kind from an address, but for those *)
(* on which record_failure raises: an account that takes one is locked     *)
(* from then to its next success, so that login refuses it.                *)
THEOREM IPGuessesAlwaysBounded == Spec => []IPGuessesBounded
<1>1. Inv => IPGuessesBounded
  <2> SUFFICES ASSUME Inv PROVE IPGuessesBounded
    OBVIOUS
  <2>1. ASSUME NEW i \in IPs
        PROVE  Spread(ipFails[i], IPMaxAttempts - 1 + Cardinality(Requests),
                      IPLockout)
    BY DEF Inv, Address, Guarded, N
  <2>2. ASSUME NEW u \in raised PROVE Locked(attempts[u])
    <3>1. u \in Users /\ Account(u)
      BY DEF Inv, TypeOK
    <3>2. attempts[u].until > MaxTime + Lockout /\ attempts[u].until \in Nat
      BY <3>1, TimesType DEF Account, Capped, Inv, Record
    <3>3. now \in 0..MaxTime /\ MaxTime \in Nat /\ Lockout \in Nat
      BY ConstantsAssumption DEF Inv, TypeOK
    <3> QED
      BY <3>2, <3>3 DEF Locked
  <2> QED
    BY <2>1, <2>2 DEF IPGuessesBounded
<1> QED
  BY <1>1, AlwaysInv, PTL

(* Nobody is about to get tokens without a password, at most TicketTTL     *)
(* old, and the second factor that was enabled when the user was read.     *)
THEOREM TokensAfterBothLegs == Spec => []TokensNeedBothLegs
<1>1. Inv => TokensNeedBothLegs
  BY DEF Inv, Legs, Leg, TokensNeedBothLegs
<1> QED
  BY <1>1, AlwaysInv, PTL
=============================================================================
