--------------------------- MODULE PlatformProofs ---------------------------
(***************************************************************************)
(* Proofs about the components that MCPlatform shows side by side:         *)
(* Provisioning (types, with the uniqueness of names and emails, and who   *)
(* becomes a superuser), RateWindow and Agents (neither the windows of     *)
(* requests nor the tools ever let more through than their limit, and an   *)
(* agent collects every result whole or not at all), Fusion (what it       *)
(* reports is in its graph, and the searches of that graph agree); and of  *)
(* their types, side by side.                                              *)
(***************************************************************************)
EXTENDS MCPlatform, NaturalLemmas, SequenceTheorems

-----------------------------------------------------------------------------
(* Provisioning. *)

(* Whoever inserts without asking for a name looked when the table was     *)
(* empty, and whoever registers does so on a table that is not.            *)
Lookers ==
  /\ first = NobodyYet <=> users = {}
  /\ users # {} => Inserting \subseteq early \cup {first}
  /\ \A q \in Callers :
       caller[q].pc \in {"register", "email", "registering"} => users # {}

UserInv == UserTypeOK /\ Lookers /\ SuperusersFoundNobody

LEMMA InitHolds == UserInit => UserInv
  BY DEF UserInit, UserInv, UserTypeOK, Lookers, SuperusersFoundNobody,
         NotYet, Inserting, User, Makers

(* A successful INSERT by somebody who is inserting. *)
LEMMA InsertSuperuser ==
  ASSUME UserInv, NEW maker \in Inserting, NEW name \in Names,
         NEW email \in Emails, Free(name, email),
         Insert(maker, name, email, TRUE)
  PROVE  /\ users' \subseteq User
         /\ \A u, v \in users' : u.name = v.name \/ u.email = v.email => u = v
         /\ first' \in Makers /\ early' \subseteq Makers
         /\ users' # {}
         /\ Inserting \subseteq early' \cup {first'}
         /\ \E u \in users' : u.superuser
         /\ \A u \in users' : u.superuser => u.maker \in early' \cup {first'}
<1> DEFINE new == [name |-> name, email |-> email, superuser |-> TRUE,
                   maker |-> maker]
<1>1. maker \in Makers /\ Inserting \subseteq Makers
  BY DEF Inserting, Makers
<1>2. users' = users \cup {new}
  BY DEF Insert
<1>3. new \in User
  BY <1>1 DEF User
<1>4. users' \subseteq User
  BY <1>2, <1>3 DEF UserInv, UserTypeOK
<1>5. \A u, v \in users' : u.name = v.name \/ u.email = v.email => u = v
  <2>1. \A u \in users : u.name # new.name /\ u.email # new.email
    BY DEF Free
  <2>2. \A u, v \in users : u.name = v.name \/ u.email = v.email => u = v
    BY DEF UserInv, UserTypeOK
  <2> HIDE DEF new
  <2> QED
    BY <1>2, <2>1, <2>2
<1>6. CASE first = NobodyYet
  <2>1. users = {} /\ first' = maker /\ early' = Inserting \ {maker}
    BY <1>6 DEF UserInv, Lookers, Insert
  <2> QED
    BY <1>1, <1>2, <1>4, <1>5, <2>1
<1>7. CASE first # NobodyYet
  <2>1. first' = first /\ early' = early
    BY <1>7 DEF Insert
  <2>2. Inserting \subseteq early \cup {first} /\ first \in Makers
    BY <1>7 DEF UserInv, UserTypeOK, Lookers
  <2>3. \A u \in users : u.superuser => u.maker \in early \cup {first}
    BY DEF UserInv, SuperusersFoundNobody
  <2>4. \E u \in users' : u.superuser
    <3>1. new.superuser /\ new \in users'
      BY <1>2
    <3> QED
      BY <3>1
  <2>5. early \subseteq Makers
    BY DEF UserInv, UserTypeOK
  <2>6. \A u \in users' : u.superuser => u.maker \in early \cup {first}
    BY <1>2, <2>2, <2>3
  <2> QED
    BY <1>2, <1>4, <1>5, <2>1, <2>2, <2>4, <2>5, <2>6
<1> QED BY <1>6, <1>7

(* A successful INSERT of register_user. *)
LEMMA InsertRegistered ==
  ASSUME UserInv, NEW maker \in Makers, NEW name \in Names,
         NEW email \in Emails, Free(name, email), users # {},
         Insert(maker, name, email, FALSE)
  PROVE  /\ users' \subseteq User
         /\ \A u, v \in users' : u.name = v.name \/ u.email = v.email => u = v
         /\ first' = first /\ early' = early
         /\ users' # {} /\ first # NobodyYet
         /\ \E u \in users' : u.superuser
         /\ \A u \in users' : u.superuser => u.maker \in early' \cup {first'}
<1> DEFINE new == [name |-> name, email |-> email, superuser |-> FALSE,
                   maker |-> maker]
<1>1. first # NobodyYet
  BY DEF UserInv, Lookers
<1>2. users' = users \cup {new} /\ first' = first /\ early' = early
  BY <1>1 DEF Insert
<1>3. new \in User
  BY DEF User
<1>4. users' \subseteq User
  BY <1>2, <1>3 DEF UserInv, UserTypeOK
<1>5. \A u, v \in users' : u.name = v.name \/ u.email = v.email => u = v
  <2>1. \A u \in users : u.name # new.name /\ u.email # new.email
    BY DEF Free
  <2>2. \A u, v \in users : u.name = v.name \/ u.email = v.email => u = v
    BY DEF UserInv, UserTypeOK
  <2> HIDE DEF new
  <2> QED
    BY <1>2, <2>1, <2>2
<1>6. /\ \E u \in users : u.superuser
      /\ \A u \in users : u.superuser => u.maker \in early \cup {first}
  BY DEF UserInv, SuperusersFoundNobody
<1> QED BY <1>1, <1>2, <1>4, <1>5, <1>6

(* ... and the invariant after it. *)
LEMMA AfterSuperuser ==
  ASSUME UserInv, NEW maker \in Inserting, NEW name \in Names,
         NEW email \in Emails, Free(name, email),
         Insert(maker, name, email, TRUE),
         process' \in
           [Processes -> {"starting", "seeding", "inserting", "up"}],
         caller' \in [Callers ->
           [pc : {"new"}]
             \cup [pc : {"bootstrap", "inserting", "register", "email",
                         "registering", "created", "refused"},
                   name : Names, email : Emails]],
         Inserting' \subseteq Inserting
  PROVE  UserInv'
<1>1. /\ users' \subseteq User
      /\ \A u, v \in users' : u.name = v.name \/ u.email = v.email => u = v
      /\ first' \in Makers /\ early' \subseteq Makers
      /\ users' # {}
      /\ Inserting \subseteq early' \cup {first'}
      /\ \E u \in users' : u.superuser
      /\ \A u \in users' : u.superuser => u.maker \in early' \cup {first'}
  BY InsertSuperuser
<1>2. NobodyYet \notin Makers
  BY ProvisioningAssumption DEF Makers
<1>3. UserTypeOK'
  BY <1>1 DEF UserTypeOK
<1>4. Lookers'
  BY <1>1, <1>2 DEF Lookers
<1>5. SuperusersFoundNobody'
  BY <1>1 DEF SuperusersFoundNobody
<1> QED BY <1>3, <1>4, <1>5 DEF UserInv

(* A step that changes no user keeps the invariant when it keeps the types *)
(* and nobody starts to insert, or the table is empty.                     *)
LEMMA OnlyControl ==
  ASSUME UserInv, UNCHANGED <<users, first, early>>,
         process' \in
           [Processes -> {"starting", "seeding", "inserting", "up"}],
         caller' \in [Callers ->
           [pc : {"new"}]
             \cup [pc : {"bootstrap", "inserting", "register", "email",
                         "registering", "created", "refused"},
                   name : Names, email : Emails]],
         users # {} => Inserting' \subseteq Inserting,
         \A q \in Callers :
           caller'[q].pc \in {"register", "email", "registering"} =>
             users # {}
  PROVE  UserInv'
<1>1. UserTypeOK'
  BY DEF UserInv, UserTypeOK
<1>2. Lookers'
  BY DEF UserInv, Lookers
<1>3. SuperusersFoundNobody'
  BY DEF UserInv, SuperusersFoundNobody
<1> QED BY <1>1, <1>2, <1>3 DEF UserInv

LEMMA ProcessSteps ==
  ASSUME UserInv, NEW p \in Processes,
         CreateTables(p) \/ StartWithoutSeed(p) \/ LookToSeed(p) \/ Restart(p)
  PROVE  UserInv'
<1> USE DEF UserInv, UserTypeOK
<1>1. UNCHANGED <<users, caller, first, early>>
  BY DEF CreateTables, StartWithoutSeed, LookToSeed, Restart
<1>2. \E to \in {"starting", "seeding", "inserting", "up"} :
        /\ process' = [process EXCEPT ![p] = to]
        /\ to = "inserting" => users = {}
  BY DEF CreateTables, StartWithoutSeed, LookToSeed, Restart
<1>3. process' \in [Processes -> {"starting", "seeding", "inserting", "up"}]
  BY <1>2
<1>4. users # {} => Inserting' \subseteq Inserting
  BY <1>1, <1>2 DEF Inserting
<1>5. \A q \in Callers :
        caller'[q].pc \in {"register", "email", "registering"} => users # {}
  BY <1>1 DEF Lookers
<1> HIDE DEF UserInv, UserTypeOK
<1> QED BY <1>1, <1>3, <1>4, <1>5, OnlyControl DEF UserInv, UserTypeOK

LEMMA SeedSteps ==
  ASSUME UserInv, NEW p \in Processes, Seed(p)
  PROVE  UserInv'
<1>1. /\ process[p] = "inserting" /\ process' = [process EXCEPT ![p] = "up"]
      /\ UNCHANGED caller
  BY DEF Seed
<1>2. /\ process \in
           [Processes -> {"starting", "seeding", "inserting", "up"}]
      /\ process' \in
           [Processes -> {"starting", "seeding", "inserting", "up"}]
      /\ process'[p] = "up"
      /\ \A r \in Processes \ {p} : process'[r] = process[r]
  BY <1>1 DEF UserInv, UserTypeOK
<1>3. Inserting' \subseteq Inserting /\ p \in Inserting
  BY <1>1, <1>2 DEF Inserting
<1>4. CASE ~Free(SeedName, SeedEmail)
  <2>1. UNCHANGED <<users, first, early>>
    BY <1>4 DEF Seed
  <2> QED
    BY <1>1, <1>2, <1>3, <2>1, OnlyControl DEF UserInv, UserTypeOK, Lookers
<1>5. CASE Free(SeedName, SeedEmail)
  <2>1. Insert(p, SeedName, SeedEmail, TRUE)
    BY <1>5 DEF Seed
  <2>2. SeedName \in Names /\ SeedEmail \in Emails
    BY ProvisioningAssumption
  <2> QED
    BY <1>1, <1>2, <1>3, <1>5, <2>1, <2>2, AfterSuperuser
       DEF UserInv, UserTypeOK
<1> QED BY <1>4, <1>5

LEMMA CallSteps ==
  ASSUME UserInv, NEW q \in Callers,
         \/ \E n \in Names, e \in Emails :
              CallBootstrap(q, n, e) \/ CallRegister(q, n, e)
         \/ LookForAnyUser(q) \/ LookForName(q) \/ LookForEmail(q)
         \/ Return(q)
  PROVE  UserInv'
<1> DEFINE Asking ==
             [pc : {"bootstrap", "inserting", "register", "email",
                    "registering", "created", "refused"},
              name : Names, email : Emails]
<1>1. UNCHANGED <<users, process, first, early>>
  BY DEF CallBootstrap, CallRegister, Call, LookForAnyUser, LookForName,
         LookForEmail, Look, Return
<1>2. caller \in [Callers -> [pc : {"new"}] \cup Asking]
  BY DEF UserInv, UserTypeOK
<1>3. \E to \in [pc : {"new"}] \cup Asking :
        /\ caller' = [caller EXCEPT ![q] = to]
        /\ to.pc = "inserting" => users = {}
        /\ to.pc \in {"register", "email", "registering"} => users # {}
  <2>1. CASE \E n \in Names, e \in Emails :
               CallBootstrap(q, n, e) \/ CallRegister(q, n, e)
    <3>1. PICK n \in Names, e \in Emails :
                 CallBootstrap(q, n, e) \/ CallRegister(q, n, e)
      BY <2>1
    <3>2. PICK pc \in {"bootstrap", "register"} :
            /\ caller' = [caller EXCEPT ![q] =
                            [pc |-> pc, name |-> n, email |-> e]]
            /\ pc = "register" => users # {}
      BY <3>1 DEF CallBootstrap, CallRegister, Call
    <3>3. [pc |-> pc, name |-> n, email |-> e] \in Asking
      OBVIOUS
    <3> QED
      BY <3>2, <3>3
  <2>2. CASE LookForAnyUser(q)
    <3>1. caller[q].pc = "bootstrap"
      BY <2>2 DEF LookForAnyUser, Look
    <3>2. caller[q] \in Asking
      BY <1>2, <3>1
    <3>3. PICK pc \in {"inserting", "refused"} :
            /\ caller' = [caller EXCEPT ![q] = [caller[q] EXCEPT !.pc = pc]]
            /\ pc = "inserting" => users = {}
      BY <2>2 DEF LookForAnyUser, Look
    <3>4. /\ [caller[q] EXCEPT !.pc = pc] \in Asking
          /\ [caller[q] EXCEPT !.pc = pc].pc = pc
      BY <3>2
    <3> QED
      BY <3>3, <3>4
  <2>3. CASE LookForName(q) \/ LookForEmail(q)
    <3>1. caller[q].pc \in {"register", "email"} /\ users # {}
      BY <2>3 DEF LookForName, LookForEmail, Look, UserInv, Lookers
    <3>2. caller[q] \in Asking
      BY <1>2, <3>1
    <3>3. PICK pc \in {"email", "registering", "refused"} :
            caller' = [caller EXCEPT ![q] = [caller[q] EXCEPT !.pc = pc]]
      BY <2>3 DEF LookForName, LookForEmail, Look
    <3>4. /\ [caller[q] EXCEPT !.pc = pc] \in Asking
          /\ [caller[q] EXCEPT !.pc = pc].pc = pc
      BY <3>2
    <3> QED
      BY <3>1, <3>3, <3>4
  <2>4. CASE Return(q)
    <3>1. caller' = [caller EXCEPT ![q] = NotYet]
      BY <2>4 DEF Return
    <3>2. NotYet \in [pc : {"new"}] /\ NotYet.pc = "new"
      BY DEF NotYet
    <3> QED
      BY <3>1, <3>2
  <2> QED BY <2>1, <2>2, <2>3, <2>4
<1>4. caller' \in [Callers -> [pc : {"new"}] \cup Asking]
  BY <1>2, <1>3
<1>5. users # {} => Inserting' \subseteq Inserting
  BY <1>1, <1>2, <1>3 DEF Inserting
<1>6. \A r \in Callers :
        caller'[r].pc \in {"register", "email", "registering"} => users # {}
  BY <1>2, <1>3 DEF UserInv, Lookers
<1>7. process' \in [Processes -> {"starting", "seeding", "inserting", "up"}]
  BY <1>1 DEF UserInv, UserTypeOK
<1> QED BY <1>1, <1>4, <1>5, <1>6, <1>7, OnlyControl

LEMMA CommitSteps ==
  ASSUME UserInv, NEW q \in Callers, BootstrapAdmin(q) \/ RegisterUser(q)
  PROVE  UserInv'
<1> DEFINE Asking ==
             [pc : {"bootstrap", "inserting", "register", "email",
                    "registering", "created", "refused"},
              name : Names, email : Emails]
           c == caller[q]
<1>1. /\ c.pc \in {"inserting", "registering"} /\ UNCHANGED process
      /\ c.pc = "inserting" => Commit(q, TRUE)
      /\ c.pc = "registering" => Commit(q, FALSE)
  BY DEF BootstrapAdmin, RegisterUser, Commit
<1>2. caller \in [Callers -> [pc : {"new"}] \cup Asking]
  BY DEF UserInv, UserTypeOK
<1>3. c \in Asking
  BY <1>1, <1>2
<1>4. \E pc \in {"created", "refused"} :
        caller' = [caller EXCEPT ![q].pc = pc]
  BY <1>1 DEF Commit
<1>5. caller' \in [Callers -> [pc : {"new"}] \cup Asking]
  BY <1>2, <1>3, <1>4
<1>6. /\ caller'[q].pc \in {"created", "refused"}
      /\ \A r \in Callers \ {q} : caller'[r] = caller[r]
  BY <1>2, <1>3, <1>4
<1>7. Inserting' \subseteq Inserting
  BY <1>1, <1>6 DEF Inserting
<1>8. process' \in [Processes -> {"starting", "seeding", "inserting", "up"}]
  BY <1>1 DEF UserInv, UserTypeOK
<1>9. \A r \in Callers :
        caller'[r].pc \in {"register", "email", "registering"} => users # {}
  BY <1>6 DEF UserInv, Lookers
<1>10. CASE ~Free(c.name, c.email)
  <2>1. UNCHANGED <<users, first, early>>
    BY <1>1, <1>10 DEF Commit
  <2> HIDE DEF c
  <2> QED
    BY <1>5, <1>7, <1>8, <1>9, <2>1, OnlyControl
<1>11. CASE Free(c.name, c.email) /\ c.pc = "inserting"
  <2>1. Insert(q, c.name, c.email, TRUE) /\ q \in Inserting
    BY <1>1, <1>11 DEF Commit, Inserting
  <2>2. c.name \in Names /\ c.email \in Emails
    BY <1>3
  <2> HIDE DEF c
  <2> QED
    BY <1>5, <1>7, <1>8, <1>11, <2>1, <2>2, AfterSuperuser
<1>12. CASE Free(c.name, c.email) /\ c.pc = "registering"
  <2>1. Insert(q, c.name, c.email, FALSE) /\ q \in Makers /\ users # {}
    BY <1>1, <1>12 DEF Commit, Makers, UserInv, Lookers
  <2>2. c.name \in Names /\ c.email \in Emails
    BY <1>3
  <2>3. /\ users' \subseteq User
        /\ \A u, v \in users' :
             u.name = v.name \/ u.email = v.email => u = v
        /\ first' = first /\ early' = early
        /\ users' # {} /\ first # NobodyYet
        /\ \E u \in users' : u.superuser
        /\ \A u \in users' : u.superuser =>
             u.maker \in early' \cup {first'}
    <3> HIDE DEF c
    <3> QED
      BY <1>12, <2>1, <2>2, InsertRegistered
  <2>4. UserTypeOK'
    BY <1>5, <1>8, <2>3 DEF UserInv, UserTypeOK
  <2>5. Lookers'
    BY <1>7, <2>1, <2>3 DEF UserInv, Lookers
  <2>6. SuperusersFoundNobody'
    BY <2>3 DEF SuperusersFoundNobody
  <2> QED
    BY <2>4, <2>5, <2>6 DEF UserInv
<1> QED BY <1>1, <1>10, <1>11, <1>12

LEMMA StepHolds == UserInv /\ [UserNext]_userVars => UserInv'
<1> SUFFICES ASSUME UserInv, [UserNext]_userVars PROVE UserInv'
  OBVIOUS
<1>1. CASE UNCHANGED userVars
  BY <1>1, OnlyControl
     DEF userVars, UserInv, UserTypeOK, Lookers, SuperusersFoundNobody,
         Inserting
<1>2. ASSUME NEW p \in Processes,
             \/ CreateTables(p) \/ StartWithoutSeed(p) \/ LookToSeed(p)
             \/ Seed(p) \/ Restart(p)
      PROVE  UserInv'
  BY <1>2, ProcessSteps, SeedSteps
<1>3. ASSUME NEW q \in Callers,
             \/ \E n \in Names, e \in Emails :
                  CallBootstrap(q, n, e) \/ CallRegister(q, n, e)
             \/ LookForAnyUser(q) \/ LookForName(q) \/ LookForEmail(q)
             \/ BootstrapAdmin(q) \/ RegisterUser(q)
             \/ Return(q)
      PROVE  UserInv'
  BY <1>3, CallSteps, CommitSteps
<1> QED
  BY <1>1, <1>2, <1>3 DEF UserNext

(* The table, the starting processes and the requests keep their types,    *)
(* and no two users share a name or an email (models/user.py).             *)
THEOREM UserTypeCorrect == UserSpec => []UserTypeOK
<1>1. UserSpec => []UserInv
  BY InitHolds, StepHolds, PTL DEF UserSpec
<1> QED BY <1>1, PTL DEF UserInv

(* However many processes start and bootstrap_admin and register_user are  *)
(* called, in any order and overlapping: once there is a user there is a   *)
(* superuser, and every superuser but the first user is of somebody who    *)
(* had found the table empty before the first was there.                   *)
THEOREM OnlyEarlySuperusers == UserSpec => []SuperusersFoundNobody
<1>1. UserSpec => []UserInv
  BY InitHolds, StepHolds, PTL DEF UserSpec
<1> QED BY <1>1, PTL DEF UserInv

-----------------------------------------------------------------------------
(* Lists of times. *)

Rising(s) ==
  /\ s \in Seq(Nat)
  /\ \A i, j \in 1..Len(s) : i <= j => s[i] <= s[j]

Spaced(s, max, span) ==
  \A i, j \in 1..Len(s) : j = i + max => s[j] >= s[i] + span

(* t is an end of the list s of all times up to now; what it lacks is at   *)
(* least a span old; and s keeps the limit.                                *)
Windowed(t, s, now, span, max) ==
  /\ Rising(s) /\ \A i \in 1..Len(s) : s[i] <= now
  /\ Spaced(s, max, span)
  /\ t \in Seq(Nat) /\ Len(t) <= Len(s)
  /\ \A i \in 1..Len(t) : t[i] = s[Len(s) - Len(t) + i]
  /\ \A i \in 1..(Len(s) - Len(t)) : s[i] + span <= now

(* What is left of a list of rising times is an end of it. *)
LEMMA WithinIsAnEnd ==
  ASSUME NEW s, Rising(s), NEW now \in Nat, NEW span \in Nat
  PROVE  \E n \in 0..Len(s) :
           /\ Within(s, now, span) \in Seq(Nat)
           /\ Len(Within(s, now, span)) = Len(s) - n
           /\ \A i \in 1..(Len(s) - n) : Within(s, now, span)[i] = s[n + i]
           /\ \A i \in 1..Len(s) : s[i] + span > now <=> i > n
<1> DEFINE P(n) == \A i \in DOMAIN s : s[i] + span > now <=> i > n
           old == CHOOSE n \in 0..Len(s) : P(n)
           T == {n \in 0..Len(s) :
                   \A i \in 1..Len(s) : i > n => s[i] + span > now}
<1>1. /\ Len(s) \in Nat /\ DOMAIN s = 1..Len(s)
      /\ \A i \in 1..Len(s) : s[i] \in Nat
  BY DEF Rising
<1>2. \E n \in 0..Len(s) : P(n)
  <2>1. T \subseteq Nat /\ Len(s) \in T
    BY <1>1
  <2>2. PICK n \in T : \A m \in T : n <= m
    BY <2>1, LeastNatural
  <2>3. n \in 0..Len(s) /\ n \in Nat
        /\ \A i \in 1..Len(s) : i > n => s[i] + span > now
    BY <1>1, <2>2
  <2>4. ASSUME NEW i \in 1..Len(s), i <= n, s[i] + span > now
        PROVE  FALSE
    <3>1. n - 1 \in 0..Len(s) /\ i \in Nat
      BY <1>1, <2>3, <2>4
    <3>2. ASSUME NEW j \in 1..Len(s), j > n - 1
          PROVE  s[j] + span > now
      <4>1. j \in Nat /\ i <= j
        BY <2>3, <2>4, <3>1, <3>2
      <4>2. s[i] <= s[j]
        BY <4>1 DEF Rising
      <4>3. s[i] \in Nat /\ s[j] \in Nat
        BY <1>1
      <4> QED BY <2>4, <4>2, <4>3
    <3>3. n - 1 \in T
      BY <3>1, <3>2
    <3>4. n <= n - 1
      BY <2>2, <3>3
    <3> QED BY <2>3, <3>4
  <2>5. ASSUME NEW i \in 1..Len(s)
        PROVE  s[i] + span > now <=> i > n
    <3>1. i \in Nat
      BY <1>1
    <3> QED BY <2>3, <2>4, <3>1
  <2> QED BY <1>1, <2>3, <2>5
<1>3. old \in 0..Len(s) /\ P(old)
  BY <1>2
<1>4. Within(s, now, span) = SubSeq(s, old + 1, Len(s))
  BY DEF Within
<1> HIDE DEF old
<1>5. \A i \in (old + 1)..Len(s) : s[i] \in Nat
  BY <1>1, <1>3
<1>6. /\ SubSeq(s, old + 1, Len(s)) \in Seq(Nat)
      /\ Len(SubSeq(s, old + 1, Len(s)))
           = IF old + 1 <= Len(s) THEN Len(s) - (old + 1) + 1 ELSE 0
      /\ \A i \in 1..(Len(s) - (old + 1) + 1) :
           SubSeq(s, old + 1, Len(s))[i] = s[old + 1 + i - 1]
  <2>1. old + 1 \in Int /\ Len(s) \in Int
    BY <1>1, <1>3
  <2> QED BY <1>5, <2>1, SubSeqProperties
<1>7. /\ Len(Within(s, now, span)) = Len(s) - old
      /\ \A i \in 1..(Len(s) - old) : Within(s, now, span)[i] = s[old + i]
  <2>1. Len(Within(s, now, span)) = Len(s) - old
    <3>1. CASE old + 1 <= Len(s)
      BY <1>1, <1>3, <1>4, <1>6, <3>1
    <3>2. CASE ~(old + 1 <= Len(s))
      <4>1. Len(s) - old = 0
        <5>1. old \in Nat /\ Len(s) \in Nat /\ old <= Len(s)
          BY <1>1, <1>3
        <5> QED BY <3>2, <5>1
      <4> QED BY <1>4, <1>6, <3>2, <4>1
    <3> QED BY <3>1, <3>2
  <2>2. ASSUME NEW i \in 1..(Len(s) - old)
        PROVE  Within(s, now, span)[i] = s[old + i]
    <3>1. i \in 1..(Len(s) - (old + 1) + 1) /\ old + 1 + i - 1 = old + i
      BY <1>1, <1>3
    <3> QED BY <1>4, <1>6, <3>1
  <2> QED BY <2>1, <2>2
<1> QED BY <1>1, <1>3, <1>4, <1>6, <1>7

LEMMA WindowedTypes ==
  ASSUME NEW t, NEW s, NEW now \in Nat, NEW span, NEW max,
         Windowed(t, s, now, span, max)
  PROVE  /\ s \in Seq(Nat) /\ t \in Seq(Nat)
         /\ Len(s) \in Nat /\ Len(t) \in Nat /\ Len(s) - Len(t) \in Nat
         /\ Len(t) <= Len(s)
         /\ \A i \in 1..Len(s) : s[i] \in Nat
         /\ \A i \in 1..Len(t) :
              /\ t[i] \in Nat /\ t[i] = s[Len(s) - Len(t) + i]
              /\ Len(s) - Len(t) + i \in 1..Len(s)
<1>1. s \in Seq(Nat) /\ t \in Seq(Nat) /\ Len(t) <= Len(s)
  BY DEF Windowed, Rising
<1>2. /\ Len(s) \in Nat /\ Len(t) \in Nat
      /\ \A i \in 1..Len(s) : s[i] \in Nat
      /\ \A i \in 1..Len(t) : t[i] \in Nat
  BY <1>1
<1>3. Len(s) - Len(t) \in Nat
  BY <1>1, <1>2
<1>4. \A i \in 1..Len(t) : Len(s) - Len(t) + i \in 1..Len(s)
  BY <1>2, <1>1
<1> QED BY <1>1, <1>2, <1>3, <1>4 DEF Windowed

LEMMA Pruned ==
  ASSUME NEW t, NEW s, NEW now \in Nat, NEW span \in Nat \ {0},
         NEW max \in Nat \ {0}, Windowed(t, s, now, span, max)
  PROVE  /\ Windowed(Within(t, now, span), s, now, span, max)
         /\ Len(Within(t, now, span)) <= max
<1> DEFINE w == Within(t, now, span)
<1>1. PICK n \in Nat, m \in Nat, k \in Nat :
        n = Len(s) /\ m = Len(t) /\ k = n - m
  BY WindowedTypes
<1>2. /\ t \in Seq(Nat) /\ m <= n /\ n = k + m
      /\ \A i \in 1..n : s[i] \in Nat
      /\ \A i \in 1..m : t[i] \in Nat /\ t[i] = s[k + i]
      /\ \A i \in 1..k : s[i] + span <= now
      /\ \A i \in 1..n : s[i] <= now
  <2>1. /\ t \in Seq(Nat) /\ s \in Seq(Nat) /\ Len(t) <= Len(s)
        /\ \A i \in 1..Len(s) : s[i] \in Nat
        /\ \A i \in 1..Len(t) :
             t[i] \in Nat /\ t[i] = s[Len(s) - Len(t) + i]
    BY WindowedTypes
  <2>2. /\ \A i \in 1..(Len(s) - Len(t)) : s[i] + span <= now
        /\ \A i \in 1..Len(s) : s[i] <= now
    BY DEF Windowed
  <2>3. n = k + m
    BY <1>1
  <2> QED BY <1>1, <2>1, <2>2, <2>3
<1>3. ASSUME NEW i \in 1..m, NEW j \in 1..m, i <= j
      PROVE  t[i] <= t[j]
  <2>1. k + i \in 1..n /\ k + j \in 1..n /\ k + i <= k + j
    BY <1>2, <1>3
  <2>2. s[k + i] <= s[k + j]
    BY <1>1, <2>1 DEF Windowed, Rising
  <2> QED BY <1>2, <2>2
<1>4. Rising(t)
  BY <1>1, <1>2, <1>3 DEF Rising
<1>5. PICK o \in 0..m :
           /\ w \in Seq(Nat)
           /\ Len(w) = m - o
           /\ \A i \in 1..(m - o) : w[i] = t[o + i]
           /\ \A i \in 1..m : t[i] + span > now <=> i > o
  BY <1>1, <1>4, WithinIsAnEnd
<1> HIDE DEF w
<1>6. o \in Nat /\ Len(w) <= n /\ n - Len(w) = k + o /\ k + o \in Nat
  BY <1>2, <1>5
<1>7. ASSUME NEW i \in 1..Len(w) PROVE w[i] = s[n - Len(w) + i]
  <2>1. i \in 1..(m - o) /\ o + i \in 1..m /\ k + (o + i) = (k + o) + i
    BY <1>2, <1>5, <1>6
  <2> QED BY <1>2, <1>5, <1>6, <2>1
<1>8. ASSUME NEW i \in 1..(n - Len(w)) PROVE s[i] + span <= now
  <2>1. i \in 1..(k + o) /\ i \in Nat
    BY <1>6
  <2>2. CASE i <= k
    <3>1. i \in 1..k
      BY <2>1, <2>2
    <3> QED BY <1>2, <3>1
  <2>3. CASE i > k
    <3>1. /\ i - k \in 1..m /\ ~(i - k > o) /\ k + (i - k) = i
      BY <1>5, <1>6, <2>1, <2>3
    <3>2. t[i - k] = s[i] /\ t[i - k] \in Nat /\ ~(t[i - k] + span > now)
      BY <1>2, <1>5, <3>1
    <3> QED BY <3>2
  <2> QED BY <2>1, <2>2, <2>3
<1>9. Windowed(w, s, now, span, max)
  BY <1>1, <1>5, <1>6, <1>7, <1>8 DEF Windowed
<1>10. ASSUME Len(w) > max PROVE FALSE
  <2> DEFINE i == k + o + 1
             j == i + max
  <2>1. /\ i \in 1..n /\ j \in 1..n /\ i - k = o + 1 /\ i - k \in 1..m
        /\ k + (i - k) = i
    BY <1>2, <1>5, <1>6, <1>10
  <2>2. s[j] >= s[i] + span /\ s[j] <= now
    BY <1>1, <1>2, <2>1 DEF Windowed, Spaced
  <2>3. t[i - k] + span > now /\ t[i - k] = s[i]
    <3>1. i - k > o
      BY <1>6, <2>1
    <3> QED BY <1>2, <1>5, <2>1, <3>1
  <2>4. s[i] \in Nat /\ s[j] \in Nat
    BY <1>2, <2>1
  <2> HIDE DEF i, j
  <2> QED BY <2>2, <2>3, <2>4
<1>11. Len(w) \in Nat
  BY <1>5
<1> QED BY <1>9, <1>10, <1>11 DEF w

LEMMA Later ==
  ASSUME NEW t, NEW s, NEW now \in Nat, NEW after \in Nat, now <= after,
         NEW span \in Nat, NEW max, Windowed(t, s, now, span, max)
  PROVE  Windowed(t, s, after, span, max)
<1>1. \A i \in 1..Len(s) : s[i] \in Nat /\ s[i] <= now
  BY WindowedTypes DEF Windowed
<1>2. \A i \in 1..Len(s) : s[i] <= after
  BY <1>1
<1>3. ASSUME NEW i \in 1..(Len(s) - Len(t)) PROVE s[i] + span <= after
  <2>1. i \in 1..Len(s)
    BY WindowedTypes
  <2>2. s[i] + span <= now /\ s[i] \in Nat
    BY <1>1, <2>1 DEF Windowed
  <2> QED BY <2>2
<1> QED BY <1>2, <1>3 DEF Windowed

LEMMA Added ==
  ASSUME NEW t, NEW s, NEW now \in Nat, NEW span \in Nat,
         NEW max \in Nat \ {0},
         Windowed(t, s, now, span, max),
         Len(t) < max \/ (Len(t) = max /\ t[1] + span <= now)
  PROVE  Windowed(Append(t, now), Append(s, now), now, span, max)
<1> DEFINE s2 == Append(s, now)
           t2 == Append(t, now)
<1>1. PICK n \in Nat, m \in Nat, k \in Nat :
        n = Len(s) /\ m = Len(t) /\ k = n - m
  BY WindowedTypes
<1>2. /\ s \in Seq(Nat) /\ t \in Seq(Nat) /\ m <= n /\ n = k + m
      /\ \A i \in 1..n : s[i] \in Nat
      /\ \A i \in 1..m : t[i] \in Nat /\ t[i] = s[k + i]
      /\ \A i \in 1..k : s[i] + span <= now
      /\ \A i \in 1..n : s[i] <= now
  <2>1. /\ t \in Seq(Nat) /\ s \in Seq(Nat) /\ Len(t) <= Len(s)
        /\ \A i \in 1..Len(s) : s[i] \in Nat
        /\ \A i \in 1..Len(t) :
             t[i] \in Nat /\ t[i] = s[Len(s) - Len(t) + i]
    BY WindowedTypes
  <2>2. /\ \A i \in 1..(Len(s) - Len(t)) : s[i] + span <= now
        /\ \A i \in 1..Len(s) : s[i] <= now
    BY DEF Windowed
  <2>3. n = k + m
    BY <1>1
  <2> QED BY <1>1, <2>1, <2>2, <2>3
<1>3. /\ s2 \in Seq(Nat) /\ Len(s2) = n + 1 /\ s2[n + 1] = now
      /\ \A i \in 1..n : s2[i] = s[i]
      /\ t2 \in Seq(Nat) /\ Len(t2) = m + 1 /\ t2[m + 1] = now
      /\ \A i \in 1..m : t2[i] = t[i]
  BY <1>1, <1>2, AppendProperties
<1> HIDE DEF s2, t2
<1>4. ASSUME NEW i \in 1..(n + 1)
      PROVE  /\ i \in 1..n \/ i = n + 1
             /\ s2[i] \in Nat /\ s2[i] <= now
  <2>1. i \in 1..n \/ i = n + 1
    OBVIOUS
  <2>2. CASE i \in 1..n
    BY <1>2, <1>3, <2>2
  <2>3. CASE i = n + 1
    BY <1>3, <2>3
  <2> QED BY <2>1, <2>2, <2>3
<1>5. ASSUME NEW i \in 1..(n + 1), NEW j \in 1..(n + 1), i <= j
      PROVE  s2[i] <= s2[j]
  <2>1. CASE j = n + 1
    BY <1>3, <1>4, <2>1
  <2>2. CASE j \in 1..n
    <3>1. i \in 1..n
      BY <1>5, <2>2
    <3>2. s[i] <= s[j]
      BY <1>1, <1>5, <2>2, <3>1 DEF Windowed, Rising
    <3> QED BY <1>3, <2>2, <3>1, <3>2
  <2> QED BY <1>4, <2>1, <2>2
<1>6. ASSUME NEW i \in 1..(n + 1), NEW j \in 1..(n + 1), j = i + max
      PROVE  s2[j] >= s2[i] + span
  <2>1. i \in 1..n /\ s2[i] = s[i] /\ s[i] \in Nat
    <3>1. i \in 1..n
      BY <1>6
    <3> QED BY <1>2, <1>3, <3>1
  <2>2. CASE j \in 1..n
    <3>1. s[j] >= s[i] + span
      BY <1>1, <1>6, <2>1, <2>2 DEF Windowed, Spaced
    <3> QED BY <1>3, <2>1, <2>2, <3>1
  <2>3. CASE j = n + 1
    <3>1. s[i] + span <= now
      <4>1. CASE m < max
        <5>1. i \in 1..k
          BY <1>2, <1>6, <2>3, <4>1
        <5> QED BY <1>2, <5>1
      <4>2. CASE m = max /\ t[1] + span <= now
        <5>1. i = k + 1 /\ 1 \in 1..m
          BY <1>2, <1>6, <2>3, <4>2
        <5> QED BY <1>2, <4>2, <5>1
      <4> QED BY <1>1, <4>1, <4>2
    <3> QED BY <1>3, <2>1, <2>3, <3>1
  <2> QED BY <1>4, <2>2, <2>3
<1>7. ASSUME NEW i \in 1..(m + 1)
      PROVE  t2[i] = s2[(n + 1) - (m + 1) + i]
  <2>0. (n + 1) - (m + 1) = k
    BY <1>2
  <2>1. CASE i \in 1..m
    <3>1. k + i \in 1..n
      BY <1>2, <2>1
    <3> QED BY <1>2, <1>3, <2>0, <2>1, <3>1
  <2>2. CASE i = m + 1
    <3>1. k + i = n + 1
      BY <1>2, <2>2
    <3> QED BY <1>3, <2>0, <2>2, <3>1
  <2> QED BY <2>1, <2>2
<1>8. ASSUME NEW i \in 1..((n + 1) - (m + 1)) PROVE s2[i] + span <= now
  <2>1. i \in 1..k /\ i \in 1..n
    BY <1>2
  <2> QED BY <1>2, <1>3, <2>1
<1>9. Rising(s2) /\ Spaced(s2, max, span)
  BY <1>3, <1>5, <1>6 DEF Rising, Spaced
<1>10. /\ m + 1 <= n + 1 /\ \A i \in 1..Len(s2) : s2[i] <= now
  BY <1>2, <1>3, <1>4
<1>11. /\ \A i \in 1..Len(t2) : t2[i] = s2[Len(s2) - Len(t2) + i]
       /\ \A i \in 1..(Len(s2) - Len(t2)) : s2[i] + span <= now
       /\ Len(t2) <= Len(s2)
  BY <1>3, <1>7, <1>8, <1>10
<1>12. Windowed(t2, s2, now, span, max)
  BY <1>3, <1>9, <1>10, <1>11 DEF Windowed
<1> QED BY <1>12 DEF s2, t2

LEMMA NoTimes ==
  ASSUME NEW now \in Nat, NEW span, NEW max
  PROVE  Windowed(<< >>, << >>, now, span, max)
BY DEF Windowed, Rising, Spaced

-----------------------------------------------------------------------------
(* The tools. *)

AgentShape ==
  agent # NoAgent =>
    agent = [pc |-> agent.pc, task |-> agent.task, raw |-> agent.raw,
             asked |-> agent.asked, wake |-> agent.wake]

ToolWindows ==
  \A t \in ToolNames :
    Windowed(callTimes[t], starts[t], clock, Minute, RateLimit[t])

(* When a call that found the limit reached wakes up, the first of the     *)
(* RateLimit calls before it is a minute old.                              *)
Throttled ==
  agent.pc = "throttled" /\ tool \in ToolNames =>
    /\ Len(callTimes[tool]) = RateLimit[tool]
    /\ agent.wake = callTimes[tool][1] + Minute

ToolInv ==
  /\ clock \in Nat
  /\ callTimes = [t \in ToolNames |-> callTimes[t]]
  /\ starts = [t \in ToolNames |-> starts[t]]
  /\ AgentShape /\ ToolWindows /\ Throttled

LEMMA ToolInit == AgentInit => ToolInv
<1> SUFFICES ASSUME AgentInit PROVE ToolInv
  OBVIOUS
<1>1. ToolWindows
  <2> SUFFICES ASSUME NEW t \in ToolNames
               PROVE  Windowed(callTimes[t], starts[t], clock, Minute,
                               RateLimit[t])
    BY DEF ToolWindows
  <2>1. callTimes[t] = << >> /\ starts[t] = << >> /\ clock = 0
    BY DEF AgentInit
  <2> QED BY <2>1, NoTimes
<1> QED BY <1>1 DEF AgentInit, ToolInv, AgentShape, Throttled, NoAgent

(* A step after which nobody waits, at no tool's limit. *)
LEMMA NoToolStep ==
  ASSUME ToolInv, UNCHANGED <<clock, callTimes, starts>>,
         agent' = NoAgent \/ (AgentShape' /\ agent'.pc # "throttled")
  PROVE  ToolInv'
<1>1. ToolWindows'
  BY DEF ToolInv, ToolWindows
<1>2. agent'.pc # "throttled" /\ AgentShape'
  BY DEF NoAgent, AgentShape
<1> QED BY <1>1, <1>2 DEF ToolInv, Throttled

LEMMA TakeKeeps ==
  ASSUME ToolInv, agent # NoAgent, NEW answer, Take(answer),
         answer.end \in {"success", "failure", "raised"},
         UNCHANGED <<clock, callTimes, starts>>
  PROVE  ToolInv'
<1> DEFINE asked2 == Append(agent.asked, Note(answer))
<1>1. AgentShape
  BY DEF ToolInv
<1>2. CASE answer.end = "success"
  <2>1. agent' = [agent EXCEPT !.pc = "ready", !.asked = asked2,
                               !.raw = Append(@, Note(answer))]
    BY <1>2 DEF Take
  <2> HIDE DEF asked2
  <2>2. AgentShape' /\ agent'.pc = "ready"
    BY <1>1, <2>1 DEF AgentShape
  <2> QED BY <2>2, NoToolStep
<1>3. CASE answer.end = "failure"
  <2>1. agent' = [agent EXCEPT !.pc = "ready", !.asked = asked2]
    BY <1>3 DEF Take
  <2> HIDE DEF asked2
  <2>2. AgentShape' /\ agent'.pc = "ready"
    BY <1>1, <2>1 DEF AgentShape
  <2> QED BY <2>2, NoToolStep
<1>4. CASE answer.end = "raised"
  <2>1. agent' = NoAgent
    BY <1>4 DEF Take, Nothing, Finish
  <2> QED BY <2>1, NoToolStep
<1> QED BY <1>2, <1>3, <1>4

(* A call of the tool t gets past its limit. *)
LEMMA PassKeeps ==
  ASSUME ToolInv, agent # NoAgent, NEW times, Pass(times),
         UNCHANGED <<clock>>,
         tool \in ToolNames =>
           /\ Windowed(times, starts[tool], clock, Minute, RateLimit[tool])
           /\ \/ Len(times) < RateLimit[tool]
              \/ Len(times) = RateLimit[tool] /\ times[1] + Minute <= clock
  PROVE  ToolInv'
<1>1. PICK t : t = tool
  OBVIOUS
<1>2. /\ callTimes' = [callTimes EXCEPT ![t] = Append(times, clock)]
      /\ starts' = [starts EXCEPT ![t] = Append(starts[t], clock)]
      /\ agent' = [agent EXCEPT !.pc = "calling"]
  BY <1>1 DEF Pass
<1>3. ASSUME NEW u \in ToolNames
      PROVE  Windowed(callTimes'[u], starts'[u], clock, Minute, RateLimit[u])
  <2>1. CASE u # t
    BY <1>2, <2>1 DEF ToolInv, ToolWindows
  <2>2. CASE u = t
    <3>1. /\ callTimes'[u] = Append(times, clock)
          /\ starts'[u] = Append(starts[u], clock)
      BY <1>2, <2>2 DEF ToolInv
    <3>2. RateLimit[u] \in Nat \ {0} /\ Minute \in Nat /\ clock \in Nat
      BY AgentsAssumption DEF ToolInv
    <3> QED BY <1>1, <2>2, <3>1, <3>2, Added
  <2> QED BY <2>1, <2>2
<1>4. ToolWindows'
  BY <1>3 DEF ToolWindows
<1>5. AgentShape' /\ agent'.pc = "calling"
  BY <1>2 DEF ToolInv, AgentShape
<1>6. /\ callTimes' = [u \in ToolNames |-> callTimes'[u]]
      /\ starts' = [u \in ToolNames |-> starts'[u]]
  BY <1>2 DEF ToolInv
<1> QED BY <1>4, <1>5, <1>6 DEF ToolInv, Throttled

LEMMA CallKeeps ==
  ASSUME ToolInv, CallTool
  PROVE  ToolInv'
<1>1. PICK t : t = tool
  OBVIOUS
<1>2. PICK w : w = Recent
  OBVIOUS
<1>3. agent # NoAgent /\ UNCHANGED clock
  BY DEF CallTool, Calling, Ready
<1>4. ASSUME t \in ToolNames
      PROVE  /\ Windowed(w, starts[t], clock, Minute, RateLimit[t])
             /\ Len(w) \in Nat /\ Len(w) <= RateLimit[t]
             /\ RateLimit[t] \in Nat \ {0}
  <2>1. /\ Windowed(callTimes[t], starts[t], clock, Minute, RateLimit[t])
        /\ clock \in Nat
    BY <1>4 DEF ToolInv, ToolWindows
  <2>2. RateLimit[t] \in Nat \ {0} /\ Minute \in Nat \ {0}
    BY <1>4, AgentsAssumption
  <2>3. w = Within(callTimes[t], clock, Minute)
    BY <1>1, <1>2 DEF Recent
  <2>4. /\ Windowed(w, starts[t], clock, Minute, RateLimit[t])
        /\ Len(w) <= RateLimit[t]
    BY <2>1, <2>2, <2>3, Pruned
  <2>5. Len(w) \in Nat
    BY <2>1, <2>4, WindowedTypes
  <2> QED BY <2>2, <2>4, <2>5
<1>5. CASE AtLimit
  <2>1. /\ agent' = [agent EXCEPT !.pc = "throttled",
                                  !.wake = Head(w) + Minute]
        /\ callTimes' = [callTimes EXCEPT ![t] = w] /\ starts' = starts
        /\ Len(w) >= RateLimit[t]
    BY <1>1, <1>2, <1>5 DEF CallTool, AtLimit
  <2>2. /\ AgentShape' /\ agent'.wake = Head(w) + Minute
        /\ agent'.task = agent.task /\ agent'.asked = agent.asked
    BY <2>1, <1>3 DEF ToolInv, AgentShape
  <2>3. tool' = t
    BY <2>2, <1>1 DEF tool
  <2>4. ASSUME NEW u \in ToolNames
        PROVE  Windowed(callTimes'[u], starts'[u], clock, Minute, RateLimit[u])
    BY <2>1, <1>4 DEF ToolInv, ToolWindows
  <2>5. ToolWindows'
    BY <2>4, <1>3 DEF ToolWindows
  <2>6. ASSUME t \in ToolNames
        PROVE  /\ Len(w) = RateLimit[t] /\ Head(w) = w[1]
               /\ callTimes'[t] = w
    <3>1. Len(w) = RateLimit[t]
      BY <1>4, <2>1, <2>6
    <3>2. w \in Seq(Nat)
      BY <1>4, <2>6 DEF Windowed
    <3>3. Head(w) = w[1]
      BY <3>2, <3>1, <1>4, <2>6
    <3>4. callTimes'[t] = w
      BY <2>1, <2>6 DEF ToolInv
    <3> QED BY <3>1, <3>3, <3>4
  <2>7. Throttled'
    BY <2>2, <2>3, <2>6 DEF Throttled
  <2>8. /\ callTimes' = [u \in ToolNames |-> callTimes'[u]]
        /\ starts' = [u \in ToolNames |-> starts'[u]]
    BY <2>1 DEF ToolInv
  <2> QED BY <1>3, <2>2, <2>5, <2>7, <2>8 DEF ToolInv
<1>6. CASE ~AtLimit
  <2>1. Pass(w)
    BY <1>2, <1>6 DEF CallTool
  <2>2. ~(Len(w) >= RateLimit[t])
    BY <1>1, <1>2, <1>6 DEF AtLimit
  <2>3. t \in ToolNames => Len(w) < RateLimit[t]
    BY <1>4, <2>2
  <2> QED BY <1>1, <1>3, <1>4, <2>1, <2>3, PassKeeps
<1> QED BY <1>5, <1>6

LEMMA WakeKeeps ==
  ASSUME ToolInv, WakeUp
  PROVE  ToolInv'
<1>1. PICK t : t = tool
  OBVIOUS
<1>2. /\ agent # NoAgent /\ agent.pc = "throttled" /\ clock >= agent.wake
      /\ Pass(callTimes[t]) /\ UNCHANGED clock
  BY <1>1 DEF WakeUp
<1>3. ASSUME t \in ToolNames
      PROVE  /\ Windowed(callTimes[t], starts[t], clock, Minute, RateLimit[t])
             /\ Len(callTimes[t]) = RateLimit[t]
             /\ callTimes[t][1] + Minute <= clock
  <2>1. /\ Len(callTimes[t]) = RateLimit[t]
        /\ agent.wake = callTimes[t][1] + Minute
    BY <1>1, <1>2, <1>3 DEF ToolInv, Throttled
  <2>2. Windowed(callTimes[t], starts[t], clock, Minute, RateLimit[t])
    BY <1>3 DEF ToolInv, ToolWindows
  <2> QED BY <1>2, <2>1, <2>2
<1> QED BY <1>1, <1>2, <1>3, PassKeeps

LEMMA AgentStepKeeps == ToolInv /\ [AgentNext]_agentVars => ToolInv'
<1> SUFFICES ASSUME ToolInv, [AgentNext]_agentVars PROVE ToolInv'
  OBVIOUS
<1>1. CASE UNCHANGED agentVars
  BY <1>1 DEF agentVars, ToolInv, ToolWindows, Throttled, AgentShape, tool
<1>2. ASSUME NEW task,
             RaiseOnInput(task) \/ NothingToDo(task) \/ Begin(task)
      PROVE  ToolInv'
  <2>1. /\ UNCHANGED <<clock, callTimes, starts>>
        /\ \/ agent' = NoAgent
           \/ agent' = [pc |-> "ready", task |-> task, raw |-> << >>,
                        asked |-> << >>, wake |-> 0]
    BY <1>2 DEF RaiseOnInput, NothingToDo, Begin, Nothing, Finish
  <2>2. agent' = NoAgent \/ (AgentShape' /\ agent'.pc # "throttled")
    BY <2>1 DEF AgentShape
  <2> QED BY <2>1, <2>2, NoToolStep
<1>3. CASE BlockFetch
  <2>1. Fail.end = "failure"
    BY DEF Fail
  <2> QED BY <1>3, <2>1, TakeKeeps DEF BlockFetch, Calling, Ready
<1>4. ASSUME NEW answer \in UNION {Execute[t] : t \in ToolNames},
             GetAnswer(answer)
      PROVE  ToolInv'
  <2>1. answer.end \in {"success", "failure", "raised"}
    <3>1. PICK t \in ToolNames : answer \in Execute[t]
      OBVIOUS
    <3>2. Execute[t] \in {DnsLookup, WhoisQuery, CertSearch, WebFetch,
                          WebSearch, DocumentExtract, ArchiveLookup,
                          IpGeolocation, SocialProfileFetch}
      BY DEF Execute, ToolNames
    <3>3. answer \in {Fail, Raise} \cup
                     {Succeed(names) : names \in SUBSET Subdomains}
      BY <3>1, <3>2 DEF DnsLookup, WhoisQuery, CertSearch, WebFetch,
           WebSearch, DocumentExtract, ArchiveLookup, IpGeolocation,
           SocialProfileFetch
    <3> QED BY <3>3 DEF Fail, Raise, Succeed
  <2> QED BY <1>4, <2>1, TakeKeeps DEF GetAnswer
<1>5. CASE \/ Collected \/ ResolveEntities \/ ValidateSources \/ Report
           \/ DrawTimeline
  BY <1>5, NoToolStep DEF Collected, ResolveEntities, ValidateSources, Report,
                          DrawTimeline, Nothing, Finish
<1>6. CASE Tick
  <2>1. /\ clock' = clock + 1 /\ clock \in Nat /\ clock' \in Nat
        /\ UNCHANGED <<callTimes, agent, starts>>
    BY <1>6 DEF Tick, ToolInv
  <2>2. ASSUME NEW t \in ToolNames
        PROVE  Windowed(callTimes[t], starts[t], clock', Minute, RateLimit[t])
    <3>1. clock <= clock' /\ Minute \in Nat
      BY <2>1, AgentsAssumption
    <3> QED BY <2>1, <3>1, Later DEF ToolInv, ToolWindows
  <2>3. ToolWindows'
    BY <2>1, <2>2 DEF ToolWindows
  <2> QED
    BY <2>1, <2>3 DEF ToolInv, Throttled, AgentShape, tool
<1>7. ASSUME NEW type \in ReportTypes, ReportElsewhere(type) PROVE ToolInv'
  BY <1>7 DEF ReportElsewhere, ToolInv, ToolWindows, Throttled, AgentShape,
              tool
<1> QED
  BY <1>1, <1>2, <1>3, <1>4, <1>5, <1>6, <1>7, CallKeeps, WakeKeeps
  DEF AgentNext

LEMMA WindowsKeepRate == ToolInv => ToolRateKept
<1> SUFFICES ASSUME ToolInv, NEW t \in ToolNames,
                    NEW i \in DOMAIN starts[t], NEW j \in DOMAIN starts[t],
                    j = i + RateLimit[t]
             PROVE  starts[t][j] >= starts[t][i] + Minute
  BY DEF ToolRateKept
<1>1. Windowed(callTimes[t], starts[t], clock, Minute, RateLimit[t])
  BY DEF ToolInv, ToolWindows
<1>2. DOMAIN starts[t] = 1..Len(starts[t])
  BY <1>1 DEF Windowed, Rising
<1> QED BY <1>1, <1>2 DEF Windowed, Spaced

(* For any limits and any plan of calls: a tool of a job never starts more *)
(* than rate_limit_per_minute calls within a minute, although              *)
(* _rate_limit_check does not look again after its sleep.                  *)
THEOREM ToolRateAlwaysKept == AgentSpec => []ToolRateKept
BY ToolInit, AgentStepKeeps, WindowsKeepRate, PTL DEF AgentSpec

-----------------------------------------------------------------------------
(* The window in Redis. *)

(* Of the requests let through in g, each that is in the window at last    *)
(* has a member of its own in z.                                           *)
Backs(f, g, z, last) ==
  /\ \A i \in 1..Len(g) :
       g[i] + Window > last => f[i] \in z /\ f[i].stamp = g[i]
  /\ \A i, j \in 1..Len(g) :
       g[i] + Window > last /\ g[j] + Window > last /\ i # j => f[i] # f[j]

Shared(z, g, last, now, drop) ==
  /\ IsFiniteSet(z) /\ z \subseteq Member
  /\ \A m \in z : m.stamp + Window + 1 <= drop
  /\ last \in Nat /\ now \in Nat /\ drop \in Nat /\ last <= now
  /\ Rising(g) /\ \A i \in 1..Len(g) : g[i] <= last
  /\ Spaced(g, MaxRequests, Window)
  /\ \E f : Backs(f, g, z, last)

LEMMA SharedTypes ==
  ASSUME NEW z, NEW g, NEW last, NEW now, NEW drop,
         Shared(z, g, last, now, drop)
  PROVE  /\ Len(g) \in Nat /\ g \in Seq(Nat)
         /\ \A i \in 1..Len(g) : g[i] \in Nat /\ g[i] <= last
         /\ \A m \in z : m.stamp \in Nat
         /\ last \in Nat /\ now \in Nat /\ drop \in Nat /\ last <= now
         /\ Window \in Nat \ {0} /\ MaxRequests \in Nat \ {0}
<1>1. /\ Len(g) \in Nat /\ g \in Seq(Nat)
      /\ \A i \in 1..Len(g) : g[i] \in Nat /\ g[i] <= last
  BY DEF Shared, Rising
<1>2. \A m \in z : m.stamp \in Nat
  BY RateWindowAssumption DEF Shared, Member, Stamps
<1> QED BY <1>1, <1>2, RateWindowAssumption DEF Shared

(* The window moves on: what it still has to know of is in z2. *)
LEMMA MovesOn ==
  ASSUME NEW z, NEW z2, NEW g, NEW last, NEW last2, NEW now, NEW now2,
         NEW drop, NEW drop2,
         Shared(z, g, last, now, drop),
         IsFiniteSet(z2), z2 \subseteq Member,
         \A m \in z2 : m.stamp + Window + 1 <= drop2,
         last2 \in Nat, now2 \in Nat, drop2 \in Nat,
         last <= last2, last2 <= now2,
         \A m \in z : m.stamp + Window > last2 => m \in z2
  PROVE  Shared(z2, g, last2, now2, drop2)
<1>1. /\ Len(g) \in Nat /\ last \in Nat /\ Window \in Nat
      /\ \A i \in 1..Len(g) : g[i] \in Nat /\ g[i] <= last
  BY SharedTypes
<1>2. PICK f : Backs(f, g, z, last)
  BY DEF Shared
<1>3. \A i \in 1..Len(g) : g[i] + Window > last2 => g[i] + Window > last
  BY <1>1
<1>4. Backs(f, g, z2, last2)
  BY <1>2, <1>3 DEF Backs
<1>5. \A i \in 1..Len(g) : g[i] <= last2
  BY <1>1
<1> QED BY <1>4, <1>5 DEF Shared

(* With room in the window the request MaxRequests before is out of it. *)
LEMMA RoomMeansOld ==
  ASSUME NEW z, NEW g, NEW last, NEW now, NEW drop,
         Shared(z, g, last, now, drop), NEW stamp \in Nat, last <= stamp,
         Cardinality({m \in z : m.stamp + Window > stamp}) < MaxRequests,
         NEW i \in 1..Len(g), i + MaxRequests = Len(g) + 1
  PROVE  g[i] + Window <= stamp
<1> DEFINE kept == {m \in z : m.stamp + Window > stamp}
           n == Len(g)
<1>1. /\ n \in Nat /\ last \in Nat
      /\ Window \in Nat /\ MaxRequests \in Nat \ {0} /\ i \in Nat
      /\ \A k \in 1..n : g[k] \in Nat /\ g[k] <= last
  BY SharedTypes
<1>2. SUFFICES ASSUME g[i] + Window > stamp PROVE FALSE
  BY <1>1
<1>3. PICK f : Backs(f, g, z, last)
  BY DEF Shared
<1>4. ASSUME NEW k \in i..n
      PROVE  /\ k \in 1..n /\ g[k] + Window > stamp /\ g[k] + Window > last
             /\ f[k] \in kept
  <2>1. k \in 1..n /\ i \in 1..n /\ i <= k
    BY <1>1
  <2>2. g[i] <= g[k]
    BY <2>1 DEF Shared, Rising
  <2>3. g[k] + Window > stamp /\ g[k] + Window > last
    BY <1>1, <1>2, <2>1, <2>2
  <2>4. f[k] \in z /\ f[k].stamp = g[k]
    BY <1>3, <2>1, <2>3 DEF Backs
  <2> QED BY <2>1, <2>3, <2>4
<1> DEFINE h == [k \in i..n |-> f[k]]
<1>5. h \in Injection(i..n, kept)
  <2>1. h \in [i..n -> kept]
    BY <1>4
  <2>2. ASSUME NEW a \in i..n, NEW b \in i..n, a # b
        PROVE  h[a] # h[b]
    BY <1>3, <1>4, <2>2 DEF Backs
  <2> HIDE DEF h, kept
  <2>3. DOMAIN h = i..n
    BY <2>1
  <2> QED BY <2>1, <2>2, <2>3 DEF Injection, IsInjective
<1>6. IsFiniteSet(kept) /\ Cardinality(kept) \in Nat
  <2>1. IsFiniteSet(z) /\ kept \in SUBSET z
    BY DEF Shared
  <2> HIDE DEF kept
  <2>2. IsFiniteSet(kept)
    BY <2>1, FS_Subset
  <2> QED BY <2>2, FS_CardinalityType
<1> HIDE DEF h
<1>7. Cardinality(i..n) <= Cardinality(kept)
  <2> HIDE DEF kept
  <2> QED BY <1>5, <1>6, FS_Injection
<1>8. Cardinality(i..n) = n - i + 1 /\ n - i + 1 = MaxRequests
  <2>1. i \in Int /\ n \in Int /\ ~(i > n)
    BY <1>1
  <2>2. Cardinality(i..n) = IF i > n THEN 0 ELSE n - i + 1
    BY <2>1, FS_Interval
  <2>3. n - i + 1 = MaxRequests
    BY <1>1
  <2> QED BY <2>1, <2>2, <2>3
<1>9. Cardinality(kept) < MaxRequests
  OBVIOUS
<1> HIDE DEF kept
<1> QED BY <1>1, <1>6, <1>7, <1>8, <1>9

(* One more request is let through. *)
LEMMA OneMore ==
  ASSUME NEW z, NEW g, NEW last, NEW now, NEW drop,
         Shared(z, g, last, now, drop), NEW m \in Member, m \notin z,
         last <= m.stamp, m.stamp <= now, NEW drop2 \in Nat,
         drop <= drop2, m.stamp + Window + 1 <= drop2,
         Cardinality({k \in z : k.stamp + Window > m.stamp}) < MaxRequests
  PROVE  Shared({k \in z : k.stamp + Window > m.stamp} \cup {m},
                Append(g, m.stamp), m.stamp, now, drop2)
<1> DEFINE kept == {k \in z : k.stamp + Window > m.stamp}
           z2 == kept \cup {m}
           g2 == Append(g, m.stamp)
<1>1. PICK n \in Nat, s \in Nat : n = Len(g) /\ s = m.stamp
  BY SharedTypes, RateWindowAssumption DEF Member, Stamps
<1>2. /\ last \in Nat /\ now \in Nat /\ drop \in Nat /\ g \in Seq(Nat)
      /\ Window \in Nat \ {0} /\ MaxRequests \in Nat \ {0}
      /\ last <= s /\ s <= now /\ s + Window + 1 <= drop2
      /\ \A k \in 1..n : g[k] \in Nat /\ g[k] <= last
      /\ \A k \in z : k.stamp \in Nat
  BY <1>1, SharedTypes
<1>3. /\ g2 \in Seq(Nat) /\ Len(g2) = n + 1 /\ g2[n + 1] = s
      /\ \A k \in 1..n : g2[k] = g[k]
  BY <1>1, <1>2, AppendProperties
<1>4. IsFiniteSet(z2) /\ z2 \subseteq Member
  <2>1. IsFiniteSet(z) /\ kept \in SUBSET z /\ z \subseteq Member
    BY DEF Shared
  <2> HIDE DEF kept
  <2>2. IsFiniteSet(kept)
    BY <2>1, FS_Subset
  <2> QED BY <2>1, <2>2, FS_AddElement
<1>5. ASSUME NEW k \in z2 PROVE k.stamp + Window + 1 <= drop2
  <2>1. CASE k = m
    BY <1>1, <1>2, <2>1
  <2>2. CASE k \in z
    <3>1. k.stamp + Window + 1 <= drop /\ k.stamp \in Nat
      BY <1>2, <2>2 DEF Shared
    <3> QED BY <1>2, <3>1
  <2> QED BY <2>1, <2>2
<1> HIDE DEF g2
<1>6. ASSUME NEW i \in 1..(n + 1)
      PROVE  /\ i \in 1..n \/ i = n + 1
             /\ g2[i] \in Nat /\ g2[i] <= s
  <2>1. i \in 1..n \/ i = n + 1
    OBVIOUS
  <2>2. CASE i \in 1..n
    <3>1. g[i] \in Nat /\ g[i] <= last /\ g2[i] = g[i]
      BY <1>2, <1>3, <2>2
    <3>2. g[i] <= s
      BY <1>2, <3>1
    <3> QED BY <2>1, <3>1, <3>2
  <2>3. CASE i = n + 1
    BY <1>3, <2>3
  <2> QED BY <2>1, <2>2, <2>3
<1>7. ASSUME NEW i \in 1..(n + 1), NEW j \in 1..(n + 1), i <= j
      PROVE  g2[i] <= g2[j]
  <2>1. CASE j = n + 1
    BY <1>3, <1>6, <2>1
  <2>2. CASE j \in 1..n
    <3>1. i \in 1..n
      BY <1>7, <2>2
    <3>2. g[i] <= g[j]
      BY <1>1, <1>7, <2>2, <3>1 DEF Shared, Rising
    <3> QED BY <1>3, <2>2, <3>1, <3>2
  <2> QED BY <1>6, <2>1, <2>2
<1>8. ASSUME NEW i \in 1..(n + 1), NEW j \in 1..(n + 1), j = i + MaxRequests
      PROVE  g2[j] >= g2[i] + Window
  <2>1. i \in 1..n /\ g2[i] = g[i] /\ g[i] \in Nat
    <3>1. i \in 1..n
      BY <1>2, <1>8
    <3> QED BY <1>2, <1>3, <3>1
  <2>2. CASE j \in 1..n
    <3>1. g[j] >= g[i] + Window
      BY <1>1, <1>8, <2>1, <2>2 DEF Shared, Spaced
    <3> QED BY <1>3, <2>1, <2>2, <3>1
  <2>3. CASE j = n + 1
    <3>1. i \in 1..Len(g) /\ i + MaxRequests = Len(g) + 1
      BY <1>1, <1>8, <2>1, <2>3
    <3>2. m.stamp \in Nat
      BY <1>1
    <3>3. g[i] + Window <= m.stamp
      BY <3>1, <3>2, RoomMeansOld
    <3> QED BY <1>1, <1>2, <1>3, <2>1, <2>3, <3>3
  <2> QED BY <1>6, <2>2, <2>3
<1>9. PICK f : Backs(f, g, z, last)
  BY DEF Shared
<1> DEFINE f2 == [i \in 1..(n + 1) |-> IF i = n + 1 THEN m ELSE f[i]]
<1>10. ASSUME NEW i \in 1..(n + 1), g2[i] + Window > s
       PROVE  /\ f2[i] \in z2 /\ f2[i].stamp = g2[i]
              /\ i \in 1..n =>
                   f2[i] = f[i] /\ f[i] \in z /\ g[i] + Window > last
              /\ i = n + 1 => f2[i] = m
  <2>1. CASE i \in 1..n
    <3>1. i # n + 1 /\ f2[i] = f[i] /\ g2[i] = g[i]
      BY <1>3, <2>1
    <3>2. g[i] + Window > last /\ g[i] \in Nat
      BY <1>2, <1>10, <2>1, <3>1
    <3>3. f[i] \in z /\ f[i].stamp = g[i]
      BY <1>1, <1>9, <2>1, <3>2 DEF Backs
    <3>4. f[i] \in z2
      BY <1>1, <1>10, <3>1, <3>3
    <3> HIDE DEF f2, z2
    <3> QED BY <3>1, <3>2, <3>3, <3>4
  <2>2. CASE i = n + 1
    <3>1. f2[i] = m /\ g2[i] = s /\ m \in z2
      BY <1>3, <2>2
    <3>2. i \notin 1..n
      BY <2>2
    <3> HIDE DEF f2, z2
    <3> QED BY <1>1, <3>1, <3>2
  <2> QED BY <1>6, <2>1, <2>2
<1>11. ASSUME NEW i \in 1..(n + 1), NEW j \in 1..(n + 1), i # j,
              g2[i] + Window > s, g2[j] + Window > s
       PROVE  f2[i] # f2[j]
  <2> HIDE DEF f2
  <2>1. CASE i \in 1..n /\ j \in 1..n
    BY <1>1, <1>9, <1>10, <1>11, <2>1 DEF Backs
  <2>2. CASE i = n + 1 /\ j \in 1..n
    BY <1>10, <1>11, <2>2
  <2>3. CASE j = n + 1 /\ i \in 1..n
    BY <1>10, <1>11, <2>3
  <2> QED BY <1>6, <1>11, <2>1, <2>2, <2>3
<1> HIDE DEF f2, z2
<1>12. Backs(f2, g2, z2, s)
  BY <1>3, <1>10, <1>11 DEF Backs
<1>13. Rising(g2) /\ Spaced(g2, MaxRequests, Window)
       /\ \A i \in 1..Len(g2) : g2[i] <= s
  BY <1>3, <1>6, <1>7, <1>8 DEF Rising, Spaced
<1>14. Shared(z2, g2, s, now, drop2)
  BY <1>2, <1>4, <1>5, <1>12, <1>13 DEF Shared
<1> QED BY <1>1, <1>14 DEF z2, g2

-----------------------------------------------------------------------------
(* Requests. *)

LocalWindows ==
  \A s \in Servers :
    Windowed(window[s], granted[s], second, Window, MaxRequests)

(* The commands on their way were stamped before now. *)
AskedBefore ==
  \A c \in Clients : asked[c] # Unasked =>
    asked[c] \in Member /\ asked[c].stamp <= second

RateInv ==
  /\ second \in Nat /\ second <= Horizon
  /\ window = [s \in Servers |-> window[s]]
  /\ granted = [k \in Stores |-> granted[k]]
  /\ asked = [c \in Clients |-> asked[c]]
  /\ LocalWindows /\ AskedBefore
  /\ Shared(zset, granted["redis"], latest, second, expires)
  /\ expires <= second + Window + 1

LEMMA RateWindowInit == RateInit => RateInv
<1> SUFFICES ASSUME RateInit PROVE RateInv
  OBVIOUS
<1>1. /\ second = 0 /\ latest = 0 /\ expires = 0 /\ zset = {}
      /\ Window \in Nat
  BY RateWindowAssumption DEF RateInit
<1>2. ASSUME NEW s \in Servers
      PROVE  Windowed(window[s], granted[s], second, Window, MaxRequests)
  <2>1. window[s] = << >> /\ granted[s] = << >> /\ second \in Nat
    BY DEF RateInit, Stores
  <2> QED BY <2>1, NoTimes
<1>3. granted["redis"] = << >>
  BY DEF RateInit, Stores
<1>4. Shared({}, << >>, 0, 0, 0)
  <2>1. Backs(<< >>, << >>, {}, 0)
    BY DEF Backs
  <2>2. Rising(<< >>) /\ Spaced(<< >>, MaxRequests, Window)
    BY DEF Rising, Spaced
  <2> QED BY <2>1, <2>2, FS_EmptySet DEF Shared
<1> QED
  BY <1>1, <1>2, <1>3, <1>4, RateWindowAssumption
  DEF RateInit, RateInv, LocalWindows, AskedBefore

LEMMA AskRedisKeeps ==
  ASSUME RateInv, NEW c \in Clients, NEW s \in Servers, NEW id \in KeyIds,
         AskRedis(c, s, id)
  PROVE  RateInv'
<1>1. asked' = [asked EXCEPT ![c] = [stamp |-> second, id |-> id]]
  BY DEF AskRedis
<1>2. AskedBefore'
  <2>1. second \in Stamps /\ second <= second /\ second' = second
    BY RateWindowAssumption DEF AskRedis, RateInv, Stamps
  <2>2. [stamp |-> second, id |-> id] \in Member
    BY <2>1 DEF Member
  <2>3. ASSUME NEW d \in Clients, asked'[d] # Unasked
        PROVE  asked'[d] \in Member /\ asked'[d].stamp <= second
    BY <1>1, <2>1, <2>2, <2>3 DEF RateInv, AskedBefore
  <2> QED BY <2>1, <2>3 DEF AskedBefore
<1>3. LocalWindows'
  BY DEF AskRedis, RateInv, LocalWindows
<1> QED BY <1>1, <1>2, <1>3 DEF AskRedis, RateInv

LEMMA CheckRedisKeeps ==
  ASSUME RateInv, NEW c \in Clients, CheckRedis(c)
  PROVE  RateInv'
<1>1. PICK m \in Member : m = asked[c]
  BY DEF CheckRedis, RateInv, AskedBefore
<1>2. PICK kept : kept = {k \in zset : k.stamp + Window > m.stamp}
  OBVIOUS
<1>3. /\ zset' = kept \cup {m} /\ expires' = second + Window + 1
      /\ latest' = IF m.stamp > latest THEN m.stamp ELSE latest
      /\ asked' = [asked EXCEPT ![c] = Unasked]
      /\ UNCHANGED <<second, window>>
  BY <1>1, <1>2 DEF CheckRedis, Kept
<1>4. /\ m.stamp \in Nat /\ m.stamp <= second /\ second \in Nat
      /\ latest \in Nat /\ latest <= second
      /\ expires \in Nat /\ expires <= second + Window + 1
      /\ Window \in Nat \ {0}
  <2>1. m.stamp <= second
    BY <1>1 DEF CheckRedis, RateInv, AskedBefore
  <2> QED
    BY <2>1, RateWindowAssumption DEF RateInv, Shared, Member, Stamps
<1>5. /\ expires' \in Nat /\ expires <= expires' /\ second' = second
      /\ m.stamp + Window + 1 <= expires'
      /\ expires' <= second' + Window + 1
  BY <1>3, <1>4
<1>6. AskedBefore'
  BY <1>3 DEF RateInv, AskedBefore
<1>7. /\ granted' = [k \in Stores |-> granted'[k]]
      /\ \A s \in Servers : granted'[s] = granted[s]
  BY RateWindowAssumption DEF CheckRedis, RateInv, Stores, Grant
<1>8. LocalWindows'
  BY <1>3, <1>7 DEF RateInv, LocalWindows
<1>9. CASE /\ Allows(Cardinality(kept)) /\ m.stamp >= latest /\ m \notin zset
  <2>1. granted' = [granted EXCEPT !["redis"] = Append(@, m.stamp)]
    BY <1>1, <1>2, <1>9 DEF CheckRedis, Kept, Grant
  <2>2. granted'["redis"] = Append(granted["redis"], m.stamp)
    BY <2>1 DEF RateInv, Stores
  <2>3. latest' = m.stamp
    BY <1>3, <1>4, <1>9
  <2>4. Cardinality(kept) < MaxRequests /\ latest <= m.stamp
    BY <1>4, <1>9 DEF Allows
  <2>5. Shared(zset, granted["redis"], latest, second, expires)
    BY DEF RateInv
  <2>6. Shared(kept \cup {m}, Append(granted["redis"], m.stamp), m.stamp,
               second, expires')
    BY <1>2, <1>4, <1>5, <1>9, <2>4, <2>5, OneMore
  <2>7. Shared(zset', granted'["redis"], latest', second', expires')
    BY <1>3, <2>2, <2>3, <2>6
  <2> QED BY <1>3, <1>4, <1>5, <1>6, <1>7, <1>8, <2>7 DEF RateInv
<1>10. CASE ~ (/\ Allows(Cardinality(kept)) /\ m.stamp >= latest
               /\ m \notin zset)
  <2>1. granted' = granted
    BY <1>1, <1>2, <1>10 DEF CheckRedis, Kept
  <2>2. Shared(zset, granted["redis"], latest, second, expires)
    BY DEF RateInv
  <2>3. IsFiniteSet(zset') /\ zset' \subseteq Member
    <3>1. IsFiniteSet(zset) /\ kept \in SUBSET zset /\ zset \subseteq Member
      BY <1>2, <2>2 DEF Shared
    <3>2. IsFiniteSet(kept)
      BY <3>1, FS_Subset
    <3> QED BY <1>3, <3>1, <3>2, FS_AddElement
  <2>4. ASSUME NEW k \in zset' PROVE k.stamp + Window + 1 <= expires'
    <3>1. CASE k = m
      BY <1>5, <3>1
    <3>2. CASE k \in zset
      <4>1. k.stamp + Window + 1 <= expires /\ k.stamp \in Nat
        BY <2>2, <3>2, SharedTypes DEF Shared
      <4> QED BY <1>4, <1>5, <4>1
    <3> QED BY <1>2, <1>3, <3>1, <3>2
  <2>5. /\ latest' \in Nat /\ latest <= latest' /\ latest' <= second
        /\ m.stamp <= latest'
    BY <1>3, <1>4
  <2>6. ASSUME NEW k \in zset, k.stamp + Window > latest'
        PROVE  k \in zset'
    <3>1. k.stamp \in Nat
      BY <2>2, SharedTypes
    <3>2. k.stamp + Window > m.stamp
      BY <1>4, <2>5, <2>6, <3>1
    <3> QED BY <1>2, <1>3, <3>2
  <2>7. Shared(zset', granted["redis"], latest', second, expires')
    BY <1>4, <1>5, <2>2, <2>3, <2>4, <2>5, <2>6, MovesOn
  <2>8. Shared(zset', granted'["redis"], latest', second', expires')
    BY <1>5, <2>1, <2>7
  <2> QED BY <1>3, <1>4, <1>5, <1>6, <1>7, <1>8, <2>8 DEF RateInv
<1> QED BY <1>9, <1>10

LEMMA ExpireSetKeeps ==
  ASSUME RateInv, ExpireSet
  PROVE  RateInv'
<1>1. /\ zset' = {} /\ latest' = second /\ second >= expires
      /\ UNCHANGED <<second, expires, window, asked, granted>>
  BY DEF ExpireSet
<1>2. Shared(zset, granted["redis"], latest, second, expires)
  BY DEF RateInv
<1>3. /\ latest \in Nat /\ latest <= second /\ second \in Nat
      /\ expires \in Nat /\ Window \in Nat
  BY <1>2, SharedTypes
<1>4. ASSUME NEW k \in zset PROVE ~(k.stamp + Window > second)
  <2>1. k.stamp + Window + 1 <= expires /\ k.stamp \in Nat
    BY <1>2, SharedTypes DEF Shared
  <2> QED BY <1>1, <1>3, <2>1
<1>5. Shared({}, granted["redis"], second, second, expires)
  <2>1. IsFiniteSet({}) /\ {} \subseteq Member
    BY FS_EmptySet
  <2>2. second <= second
    BY <1>3
  <2> QED BY <1>2, <1>3, <1>4, <2>1, <2>2, MovesOn
<1>6. Shared(zset', granted'["redis"], latest', second', expires')
  BY <1>1, <1>5
<1> QED BY <1>1, <1>6 DEF RateInv, LocalWindows, AskedBefore

LEMMA CheckLocalKeeps ==
  ASSUME RateInv, NEW s \in Servers, CheckLocal(s)
  PROVE  RateInv'
<1>1. PICK w : w = Within(window[s], second, Window)
  OBVIOUS
<1>2. /\ second \in Nat /\ Window \in Nat \ {0} /\ MaxRequests \in Nat \ {0}
      /\ Windowed(window[s], granted[s], second, Window, MaxRequests)
  BY RateWindowAssumption DEF RateInv, LocalWindows
<1>3. Windowed(w, granted[s], second, Window, MaxRequests)
  BY <1>1, <1>2, Pruned
<1>4. UNCHANGED <<second, zset, expires, asked, latest>>
  BY DEF CheckLocal
<1>5. \/ /\ Len(w) < MaxRequests
         /\ window' = [window EXCEPT ![s] = Append(w, second)]
         /\ granted' = [granted EXCEPT ![s] = Append(@, second)]
      \/ /\ window' = [window EXCEPT ![s] = w]
         /\ granted' = granted
  BY <1>1 DEF CheckLocal, Allows, Grant
<1>6. s \in Stores /\ s # "redis"
  BY RateWindowAssumption DEF Stores
<1>7. /\ window' = [t \in Servers |-> window'[t]]
      /\ granted' = [k \in Stores |-> granted'[k]]
      /\ granted'["redis"] = granted["redis"]
      /\ \A t \in Servers \ {s} :
           window'[t] = window[t] /\ granted'[t] = granted[t]
  <2>1. \E v : window' = [window EXCEPT ![s] = v]
    BY <1>5
  <2>2. \/ granted' = granted
        \/ \E g : granted' = [granted EXCEPT ![s] = g]
    BY <1>5
  <2>3. /\ window' = [t \in Servers |-> window'[t]]
        /\ \A t \in Servers \ {s} : window'[t] = window[t]
    BY <2>1 DEF RateInv
  <2>4. /\ granted' = [k \in Stores |-> granted'[k]]
        /\ \A k \in Stores \ {s} : granted'[k] = granted[k]
    BY <2>2 DEF RateInv
  <2> QED BY <1>6, <2>3, <2>4 DEF Stores
<1>8. Windowed(window'[s], granted'[s], second, Window, MaxRequests)
  <2>1. CASE /\ Len(w) < MaxRequests
             /\ window' = [window EXCEPT ![s] = Append(w, second)]
             /\ granted' = [granted EXCEPT ![s] = Append(@, second)]
    <3>1. /\ window'[s] = Append(w, second)
          /\ granted'[s] = Append(granted[s], second)
      BY <1>6, <2>1 DEF RateInv
    <3>2. Windowed(Append(w, second), Append(granted[s], second), second,
                   Window, MaxRequests)
      BY <1>2, <1>3, <2>1, Added
    <3> QED BY <3>1, <3>2
  <2>2. CASE window' = [window EXCEPT ![s] = w] /\ granted' = granted
    <3>1. window'[s] = w /\ granted'[s] = granted[s]
      BY <2>2 DEF RateInv
    <3> QED BY <1>3, <3>1
  <2> QED BY <1>5, <2>1, <2>2
<1>9. LocalWindows'
  BY <1>4, <1>7, <1>8 DEF RateInv, LocalWindows
<1> QED BY <1>4, <1>7, <1>9 DEF RateInv, AskedBefore

LEMMA RestartServerKeeps ==
  ASSUME RateInv, NEW s \in Servers, NEW m, RestartServer(s, m)
  PROVE  RateInv'
<1>1. /\ window' = [window EXCEPT ![s] = << >>]
      /\ granted' = [granted EXCEPT ![s] = << >>]
      /\ UNCHANGED <<second, zset, expires, asked, latest>>
  BY DEF RestartServer
<1>2. s \in Stores /\ s # "redis" /\ second \in Nat
  BY RateWindowAssumption DEF Stores, RateInv
<1>3. /\ window' = [t \in Servers |-> window'[t]]
      /\ granted' = [k \in Stores |-> granted'[k]]
      /\ granted'["redis"] = granted["redis"]
      /\ window'[s] = << >> /\ granted'[s] = << >>
      /\ \A t \in Servers \ {s} :
           window'[t] = window[t] /\ granted'[t] = granted[t]
  BY <1>1, <1>2 DEF RateInv
<1>4. Windowed(<< >>, << >>, second, Window, MaxRequests)
  BY <1>2, NoTimes
<1>5. ASSUME NEW t \in Servers
      PROVE  Windowed(window'[t], granted'[t], second, Window, MaxRequests)
  <2>1. CASE t = s
    BY <1>3, <1>4, <2>1
  <2>2. CASE t # s
    <3>1. window'[t] = window[t] /\ granted'[t] = granted[t]
      BY <1>3, <2>2
    <3>2. Windowed(window[t], granted[t], second, Window, MaxRequests)
      BY DEF RateInv, LocalWindows
    <3> QED BY <3>1, <3>2
  <2> QED BY <2>1, <2>2
<1>6. LocalWindows'
  BY <1>1, <1>5 DEF LocalWindows
<1> QED BY <1>1, <1>3, <1>6 DEF RateInv, AskedBefore

LEMMA SecondPassesKeeps ==
  ASSUME RateInv, SecondPasses
  PROVE  RateInv'
<1>1. /\ second' = second + 1
      /\ UNCHANGED <<zset, expires, window, asked, latest, granted>>
  BY DEF SecondPasses
<1>2. Shared(zset, granted["redis"], latest, second, expires)
  BY DEF RateInv
<1>3. /\ second \in Nat /\ second' \in Nat /\ second <= second'
      /\ Window \in Nat /\ expires \in Nat
      /\ latest \in Nat /\ latest <= second' /\ second' <= Horizon
      /\ expires' <= second' + Window + 1
  <2>1. second < Horizon /\ second \in Nat /\ Horizon \in Nat
        /\ expires <= second + Window + 1
    BY RateWindowAssumption DEF SecondPasses, RateInv
  <2> QED BY <1>1, <1>2, <2>1, SharedTypes
<1>4. Shared(zset, granted["redis"], latest, second', expires)
  BY <1>2, <1>3 DEF Shared
<1>5. ASSUME NEW s \in Servers
      PROVE  Windowed(window[s], granted[s], second', Window, MaxRequests)
  <2>1. Windowed(window[s], granted[s], second, Window, MaxRequests)
    BY DEF RateInv, LocalWindows
  <2> QED BY <1>3, <2>1, Later
<1>6. LocalWindows'
  BY <1>1, <1>5 DEF LocalWindows
<1>7. AskedBefore'
  <2> SUFFICES ASSUME NEW c \in Clients, asked[c] # Unasked
               PROVE  asked[c] \in Member /\ asked[c].stamp <= second'
    BY <1>1 DEF AskedBefore
  <2>1. asked[c] \in Member /\ asked[c].stamp <= second
    BY DEF RateInv, AskedBefore
  <2>2. asked[c].stamp \in Nat
    BY <2>1, RateWindowAssumption DEF Member, Stamps
  <2> QED BY <1>3, <2>1, <2>2
<1> QED BY <1>1, <1>3, <1>4, <1>6, <1>7 DEF RateInv

LEMMA RateStepKeeps == RateInv /\ [RateNext]_rateVars => RateInv'
<1> SUFFICES ASSUME RateInv, [RateNext]_rateVars PROVE RateInv'
  OBVIOUS
<1>1. CASE UNCHANGED rateVars
  BY <1>1 DEF rateVars, RateInv, LocalWindows, AskedBefore
<1>2. ASSUME NEW c \in Clients, LoseRedis(c) PROVE RateInv'
  BY <1>2 DEF LoseRedis, RateInv, LocalWindows, AskedBefore
<1> QED
  BY <1>1, <1>2, AskRedisKeeps, CheckRedisKeeps, CheckLocalKeeps,
     RestartServerKeeps, ExpireSetKeeps, SecondPassesKeeps DEF RateNext

LEMMA WindowsRespectLimit == RateInv => WindowRespected
<1> SUFFICES ASSUME RateInv, NEW k \in Stores,
                    NEW i \in DOMAIN granted[k], NEW j \in DOMAIN granted[k],
                    j = i + MaxRequests
             PROVE  granted[k][j] >= granted[k][i] + Window
  BY DEF WindowRespected
<1>1. Rising(granted[k]) /\ Spaced(granted[k], MaxRequests, Window)
  BY DEF RateInv, LocalWindows, Windowed, Shared, Stores
<1>2. DOMAIN granted[k] = 1..Len(granted[k])
  BY <1>1 DEF Rising
<1> QED BY <1>1, <1>2 DEF Spaced

(* For any limit, window and number of processes: however the commands of  *)
(* RateLimiter overtake each other, get lost or are refused, and whenever  *)
(* a process restarts or Redis drops the set, no store lets more through   *)
(* within a window than it may.                                            *)
THEOREM WindowAlwaysRespected == RateSpec => []WindowRespected
BY RateWindowInit, RateStepKeeps, WindowsRespectLimit, PTL DEF RateSpec

-----------------------------------------------------------------------------
LEMMA BoundedSeq ==
  ASSUME NEW s \in Seq(Nat), NEW top \in Nat,
         \A i \in 1..Len(s) : s[i] <= top
  PROVE  s \in Seq(0..top)
<1>1. s \in [1..Len(s) -> Nat] /\ Len(s) \in Nat
  OBVIOUS
<1>2. s \in [1..Len(s) -> 0..top]
  BY <1>1
<1> QED BY <1>1, <1>2, SeqDef

LEMMA WindowTypes ==
  ASSUME NEW t, NEW s, NEW now \in Nat, NEW span, NEW max, NEW top \in Nat,
         now <= top, Windowed(t, s, now, span, max)
  PROVE  s \in Seq(0..top) /\ t \in Seq(0..top)
<1>1. /\ s \in Seq(Nat) /\ t \in Seq(Nat)
      /\ \A i \in 1..Len(s) : s[i] \in Nat /\ s[i] <= now
      /\ \A i \in 1..Len(t) : t[i] \in Nat /\ t[i] <= now
  BY WindowedTypes DEF Windowed
<1>2. /\ \A i \in 1..Len(s) : s[i] <= top
      /\ \A i \in 1..Len(t) : t[i] <= top
  BY <1>1
<1> QED BY <1>1, <1>2, BoundedSeq

-----------------------------------------------------------------------------
(* What agents return. *)

Answers == UNION {Execute[t] : t \in ToolNames}

LEMMA AnswerTypes ==
  ASSUME NEW answer \in Answers \cup {Fail}
  PROVE  /\ answer.end \in {"success", "failure", "raised"}
         /\ answer.names \in SUBSET Subdomains
<1>1. CASE answer = Fail
  BY <1>1 DEF Fail
<1>2. CASE answer \in Answers
  <2>1. PICK t \in ToolNames : answer \in Execute[t]
    BY <1>2 DEF Answers
  <2>2. Execute[t] \in {DnsLookup, WhoisQuery, CertSearch, WebFetch,
                        WebSearch, DocumentExtract, ArchiveLookup,
                        IpGeolocation, SocialProfileFetch}
    BY DEF Execute, ToolNames
  <2>3. answer \in {Fail, Raise} \cup
                   {Succeed(names) : names \in SUBSET Subdomains}
    BY <2>1, <2>2 DEF DnsLookup, WhoisQuery, CertSearch, WebFetch,
         WebSearch, DocumentExtract, ArchiveLookup, IpGeolocation,
         SocialProfileFetch
  <2> QED BY <2>3 DEF Fail, Raise, Succeed
<1> QED BY <1>1, <1>2

(* A task of a collector that it can begin with. *)
Plan(t) ==
  /\ t \in AgentTasks /\ t.agent \in Collectors
  /\ t.kind \notin {"EMPTY", "UNREADABLE"}

LEMMA CallsAreTools ==
  ASSUME NEW t, Plan(t)
  PROVE  Calls(t) \in Seq(ToolNames)
<1>1. /\ "dns_lookup" \in ToolNames /\ "whois_query" \in ToolNames
      /\ "cert_search" \in ToolNames /\ "web_fetch" \in ToolNames
      /\ "web_search" \in ToolNames /\ "document_extract" \in ToolNames
      /\ "archive_lookup" \in ToolNames /\ "ip_geolocation" \in ToolNames
      /\ "social_profile_fetch" \in ToolNames
  BY DEF ToolNames
<1> HIDE DEF ToolNames
<1>2. /\ << >> \in Seq(ToolNames)
      /\ <<"web_search">> \in Seq(ToolNames)
      /\ <<"social_profile_fetch">> \in Seq(ToolNames)
      /\ <<"archive_lookup", "archive_lookup">> \in Seq(ToolNames)
  BY <1>1
<1>3. InvestigateDomain \in Seq(ToolNames)
  BY <1>1 DEF InvestigateDomain
<1>4. CASE t.agent = "osint_agent"
  <2>1. t.kind \in {"DOMAIN", "IP", "EMAIL", "URL", "GENERIC"}
    <3>1. t.kind \in Kinds["osint_agent"]
      BY <1>4 DEF Plan, AgentTasks
    <3>2. Kinds["osint_agent"] =
            {"DOMAIN", "IP", "EMAIL", "URL", "GENERIC", "EMPTY", "UNREADABLE"}
      BY DEF Kinds
    <3> QED BY <3>1, <3>2 DEF Plan
  <2>2. /\ InvestigateIp \in Seq(ToolNames)
        /\ InvestigateUrl \in Seq(ToolNames)
        /\ InvestigateGeneric \in Seq(ToolNames)
    BY <1>1 DEF InvestigateIp, InvestigateUrl, InvestigateGeneric
  <2>3. InvestigateEmail \in Seq(ToolNames)
    BY <1>2, <1>3, ConcatProperties DEF InvestigateEmail
  <2> QED BY <1>3, <1>4, <2>1, <2>2, <2>3 DEF Calls, Osint
<1>5. CASE t.agent = "socmint_agent"
  <2> DEFINE a == IF t.kind = "QUERY ONLY" THEN << >>
                  ELSE <<"social_profile_fetch">>
             b == IF t.kind = "HANDLE ONLY" THEN << >> ELSE <<"web_search">>
             c == IF t.kind = "QUERY ONLY" THEN << >>
                  ELSE <<"archive_lookup", "archive_lookup">>
  <2>1. a \in Seq(ToolNames) /\ b \in Seq(ToolNames) /\ c \in Seq(ToolNames)
    BY <1>2
  <2>2. Calls(t) = a \o b \o c
    BY <1>5 DEF Calls, Socmint
  <2> HIDE DEF a, b, c
  <2> QED BY <2>1, <2>2, ConcatProperties
<1> QED BY <1>4, <1>5 DEF Plan, Collectors

LEMMA SucceededFacts ==
  ASSUME NEW T, NEW given \in Seq(T)
  PROVE  /\ IsFiniteSet(Succeeded(given))
         /\ Cardinality(Succeeded(given)) \in Nat
         /\ Succeeded(given) \subseteq 1..Len(given) /\ Len(given) \in Nat
<1>1. Succeeded(given) \subseteq 1..Len(given) /\ Len(given) \in Nat
  BY DEF Succeeded
<1>2. IsFiniteSet(1..Len(given))
  BY <1>1, FS_Interval
<1> QED BY <1>1, <1>2, FS_Subset, FS_CardinalityType

LEMMA OneMoreAnswer ==
  ASSUME NEW S, NEW T, NEW findings \in Seq(S), NEW given \in Seq(T),
         InOrder(findings, given), NEW a \in T, a.tool \in S
  PROVE  InOrder(IF a.end = "success" THEN Append(findings, a.tool)
                 ELSE findings, Append(given, a))
<1> DEFINE good == Succeeded(given)
           more == Append(given, a)
           new == Succeeded(more)
           n == Len(given)
           UpTo(g, k) == {j \in g : j <= k}
           list == IF a.end = "success" THEN Append(findings, a.tool)
                   ELSE findings
<1>1. /\ IsFiniteSet(good) /\ Cardinality(good) \in Nat
      /\ good \subseteq 1..n /\ n \in Nat
  BY SucceededFacts
<1>2. /\ more \in Seq(T) /\ Len(more) = n + 1 /\ more[n + 1] = a
      /\ \A k \in 1..n : more[k] = given[k]
      /\ DOMAIN more = 1..(n + 1) /\ DOMAIN given = 1..n
  OBVIOUS
<1>3. new = IF a.end = "success" THEN good \cup {n + 1} ELSE good
  BY <1>1, <1>2 DEF Succeeded
<1>4. /\ findings \in Seq(S) /\ Len(findings) = Cardinality(good)
      /\ \A k \in good : findings[Cardinality(UpTo(good, k))] = given[k].tool
  BY DEF InOrder
<1> HIDE DEF good, more, new, n
<1>5. ASSUME NEW k \in good
      PROVE  /\ UpTo(new, k) = UpTo(good, k)
             /\ Cardinality(UpTo(good, k)) \in 1..Cardinality(good)
             /\ list[Cardinality(UpTo(good, k))] = more[k].tool
  <2>1. k \in 1..n /\ k < n + 1 /\ k <= k
    BY <1>1
  <2>2. UpTo(new, k) = UpTo(good, k)
    <3>1. ~(n + 1 <= k)
      BY <1>1, <2>1
    <3>2. good \subseteq new /\ \A j \in new : j \in good \/ j = n + 1
      BY <1>3
    <3> QED BY <3>1, <3>2
  <2> DEFINE U == UpTo(good, k)
  <2>3. U \in SUBSET good /\ U # {}
    BY <2>1
  <2> HIDE DEF U
  <2>4. IsFiniteSet(U) /\ Cardinality(U) <= Cardinality(good)
    BY <1>1, <2>3, FS_Subset
  <2>5. Cardinality(U) \in Nat /\ Cardinality(U) # 0
    BY <2>3, <2>4, FS_CardinalityType, FS_EmptySet
  <2>6. Cardinality(U) \in 1..Cardinality(good)
    BY <1>1, <2>4, <2>5
  <2>7. list[Cardinality(U)] = findings[Cardinality(U)]
    BY <1>4, <2>6
  <2>8. findings[Cardinality(U)] = given[k].tool
    BY <1>4 DEF U
  <2>9. given[k].tool = more[k].tool
    BY <1>2, <2>1
  <2> QED BY <2>2, <2>6, <2>7, <2>8, <2>9 DEF U
<1>6. CASE a.end = "success"
  <2>1. new = good \cup {n + 1} /\ n + 1 \notin good
    BY <1>1, <1>3, <1>6
  <2>2. Cardinality(new) = Cardinality(good) + 1
    BY <1>1, <2>1, FS_AddElement
  <2>3. /\ Len(list) = Cardinality(good) + 1
        /\ list[Cardinality(good) + 1] = a.tool
    BY <1>4, <1>6
  <2>4. UpTo(new, n + 1) = new
    <3>1. \A j \in new : j \in 1..(n + 1)
      BY <1>1, <2>1
    <3>2. \A j \in new : j <= n + 1
      BY <1>1, <3>1
    <3> QED BY <3>2
  <2>5. list[Cardinality(UpTo(new, n + 1))] = more[n + 1].tool
    BY <1>2, <2>2, <2>3, <2>4
  <2>6. \A k \in new : list[Cardinality(UpTo(new, k))] = more[k].tool
    BY <1>5, <2>1, <2>5
  <2> HIDE DEF list
  <2>7. InOrder(list, more)
    BY <2>2, <2>3, <2>6 DEF InOrder, new
  <2> QED BY <2>7 DEF list, more
<1>7. CASE a.end # "success"
  <2>1. new = good /\ list = findings
    BY <1>3, <1>7
  <2>2. \A k \in new : list[Cardinality(UpTo(new, k))] = more[k].tool
    BY <1>5, <2>1
  <2> HIDE DEF list
  <2>3. InOrder(list, more)
    BY <1>4, <2>1, <2>2 DEF InOrder, new
  <2> QED BY <2>3 DEF list, more
<1> QED BY <1>6, <1>7

LEMMA OneMoreShown ==
  ASSUME NEW T, NEW given \in Seq(T), NEW a \in T
  PROVE  Shown(Append(given, a)) = Shown(given) \cup a.names
<1> DEFINE more == Append(given, a)
           n == Len(given)
<1>1. /\ Len(more) = n + 1 /\ more[n + 1] = a /\ n \in Nat
      /\ \A k \in 1..n : more[k] = given[k]
      /\ DOMAIN more = 1..(n + 1) /\ DOMAIN given = 1..n
  OBVIOUS
<1> HIDE DEF more, n
<1>2. DOMAIN more = DOMAIN given \cup {n + 1}
  BY <1>1
<1>3. Shown(more) = Shown(given) \cup a.names
  BY <1>1, <1>2 DEF Shown
<1> QED BY <1>3 DEF more

LEMMA FindingsAreTools ==
  ASSUME NEW s \in Seq(ToolAnswer)
  PROVE  /\ Findings(s) \in Seq(ToolNames) /\ Len(Findings(s)) = Len(s)
         /\ \A i \in 1..Len(s) : Findings(s)[i] = s[i].tool
<1>1. Len(s) \in Nat /\ DOMAIN s = 1..Len(s)
  OBVIOUS
<1>2. ASSUME NEW i \in 1..Len(s) PROVE s[i].tool \in ToolNames
  <2>1. s[i] \in ToolAnswer
    BY ElementOfSeq
  <2> QED BY <2>1 DEF ToolAnswer
<1>3. Findings(s) = [i \in 1..Len(s) |-> s[i].tool]
  BY <1>1 DEF Findings
<1>4. Findings(s) \in [1..Len(s) -> ToolNames]
  BY <1>2, <1>3
<1>5. Findings(s) \in Seq(ToolNames)
  BY <1>1, <1>4, SeqDef
<1>6. Len(Findings(s)) = Len(s)
  BY <1>1, <1>3, <1>5
<1>7. \A i \in 1..Len(s) : Findings(s)[i] = s[i].tool
  BY <1>3
<1> QED BY <1>5, <1>6, <1>7

LEMMA OneMoreFinding ==
  ASSUME NEW raw \in Seq(ToolAnswer), NEW a \in ToolAnswer
  PROVE  Findings(Append(raw, a)) = Append(Findings(raw), a.tool)
<1> DEFINE f == Findings(raw)
           g == Findings(Append(raw, a))
<1>1. a.tool \in ToolNames
  BY DEF ToolAnswer
<1>2. /\ f \in Seq(ToolNames) /\ g \in Seq(ToolNames)
      /\ Len(g) = Len(raw) + 1 /\ Len(f) = Len(raw)
      /\ \A i \in 1..Len(raw) : f[i] = raw[i].tool
      /\ \A i \in 1..(Len(raw) + 1) : g[i] = Append(raw, a)[i].tool
  <2>1. /\ Append(raw, a) \in Seq(ToolAnswer)
        /\ Len(Append(raw, a)) = Len(raw) + 1
    OBVIOUS
  <2> QED BY <2>1, FindingsAreTools
<1> HIDE DEF f, g
<1>3. /\ Append(f, a.tool) \in Seq(ToolNames)
      /\ Len(Append(f, a.tool)) = Len(g)
      /\ \A i \in 1..Len(g) : Append(f, a.tool)[i] = g[i]
  BY <1>1, <1>2
<1>4. Append(f, a.tool) = g
  BY <1>2, <1>3, SeqEqual
<1> QED BY <1>4 DEF f, g

-----------------------------------------------------------------------------
(* The agent at work keeps what it collected apart from what it asked.     *)
Working ==
  agent # NoAgent =>
    /\ agent \in [pc : {"ready", "throttled", "calling"}, task : AgentTasks,
                  raw : Seq(ToolAnswer), asked : Seq(ToolAnswer),
                  wake : 0..(LastTick + Minute)]
    /\ Len(results) < MaxRuns
    /\ agent.task.kind \notin {"EMPTY", "UNREADABLE"}
    /\ agent.pc \in {"throttled", "calling"} =>
         /\ agent.task.agent \in Collectors
         /\ Len(agent.asked) < Len(Calls(agent.task))
    /\ InOrder(Findings(agent.raw), agent.asked)
    /\ Shown(agent.raw) \subseteq Shown(agent.asked)

(* A result that tells of a saved report, and what its file may be.        *)
Announced(i, rs) ==
  i \in DOMAIN rs /\ rs[i].task.agent = "reporter" /\ rs[i].outcome = "success"

Excused(i, rs, j) ==
  \/ j \in {i, Another}
  \/ /\ j \in DOMAIN rs /\ j > i
     /\ rs[j].at = rs[i].at /\ rs[j].task = rs[i].task
     /\ rs[j].outcome # "failure"

ResultsInv ==
  /\ clock \in 0..LastTick
  /\ Working
  /\ results \in Seq(Result)
  /\ reports \in [0..LastTick -> [ReportTypes -> 0..Another]]
  /\ \A i \in DOMAIN results :
       Announced(i, results) => results[i].task.kind \in ReportTypes
  /\ ResultsAreWhole

LEMMA ResultsInit == AgentInit => ResultsInv
<1> SUFFICES ASSUME AgentInit PROVE ResultsInv
  OBVIOUS
<1>1. /\ clock = 0 /\ agent = NoAgent /\ results = << >>
      /\ reports = [s \in 0..LastTick |-> [type \in ReportTypes |-> 0]]
  BY DEF AgentInit
<1>2. LastTick \in Nat /\ MaxRuns \in Nat
  BY AgentsAssumption
<1>3. /\ clock \in 0..LastTick /\ results \in Seq(Result)
      /\ reports \in [0..LastTick -> [ReportTypes -> 0..Another]] /\ Working
  BY <1>1, <1>2 DEF Working, Another
<1>4. DOMAIN results = {}
  BY <1>1
<1> QED
  BY <1>3, <1>4
  DEF ResultsInv, ResultsAreWhole, CollectedWholeOrNotAtAll, ReportsKept,
      Announced

(* ReportsKept, announced report by announced report. *)
LEMMA KeptAreExcused ==
  ReportsKept <=>
    \A i \in DOMAIN results : Announced(i, results) =>
      Excused(i, results, reports[results[i].at][results[i].task.kind])
BY DEF ReportsKept, Announced, Excused

LEMMA AgentTypes == ToolInv /\ ResultsInv => AgentTypeOK
<1> SUFFICES ASSUME ToolInv, ResultsInv PROVE AgentTypeOK
  OBVIOUS
<1>1. clock \in 0..LastTick /\ LastTick \in Nat
  BY AgentsAssumption DEF ResultsInv
<1>2. ASSUME NEW t \in ToolNames
      PROVE  /\ callTimes[t] \in Seq(0..LastTick)
             /\ starts[t] \in Seq(0..LastTick)
  <2>1. Windowed(callTimes[t], starts[t], clock, Minute, RateLimit[t])
    BY DEF ToolInv, ToolWindows
  <2>2. clock \in Nat /\ clock <= LastTick
    BY <1>1
  <2> QED BY <1>1, <2>1, <2>2, WindowTypes
<1>3. callTimes \in [ToolNames -> Seq(0..LastTick)]
  BY <1>2 DEF ToolInv
<1>4. starts \in [ToolNames -> Seq(0..LastTick)]
  BY <1>2 DEF ToolInv
<1> QED BY <1>3, <1>4 DEF AgentTypeOK, ResultsInv, Working

(* A step that returns nothing. *)
LEMMA NothingReturned ==
  ASSUME ResultsInv, UNCHANGED <<results, reports>>,
         clock' \in 0..LastTick, Working'
  PROVE  ResultsInv'
<1>1. ResultsAreWhole'
  BY DEF ResultsInv, ResultsAreWhole, CollectedWholeOrNotAtAll, ReportsKept
<1>2. \A i \in DOMAIN results' :
        Announced(i, results') => results'[i].task.kind \in ReportTypes
  BY DEF ResultsInv
<1> QED BY <1>1, <1>2 DEF ResultsInv

(* The name of an announced report, and its file after one was opened.     *)
LEMMA OpenedFile ==
  ASSUME ResultsInv, NEW type \in ReportTypes, NEW who \in 0..Another,
         OpenFile(type, who)
  PROVE  /\ reports' \in [0..LastTick -> [ReportTypes -> 0..Another]]
         /\ \A s \in 0..LastTick, t \in ReportTypes :
              reports'[s][t] =
                IF s = clock /\ t = type THEN who ELSE reports[s][t]
BY DEF ResultsInv, OpenFile

LEMMA AnnouncedName ==
  ASSUME ResultsInv, NEW i, Announced(i, results)
  PROVE  /\ results[i].at \in 0..LastTick
         /\ results[i].task.kind \in ReportTypes
         /\ results[i].task \in AgentTasks
         /\ Excused(i, results, reports[results[i].at][results[i].task.kind])
<1>1. i \in DOMAIN results /\ results[i] \in Result
  BY DEF ResultsInv, Announced
<1>2. results[i].at \in 0..LastTick /\ results[i].task \in AgentTasks
  BY <1>1 DEF Result
<1> QED BY <1>1, <1>2, KeptAreExcused DEF ResultsInv, ResultsAreWhole

(* The reporter of another job takes what it may. *)
LEMMA ElsewhereKeeps ==
  ASSUME ResultsInv, NEW type \in ReportTypes, ReportElsewhere(type)
  PROVE  ResultsInv'
<1>1. /\ OpenFile(type, Another) /\ UNCHANGED <<clock, agent, results>>
      /\ Another \in 0..Another
  BY AgentsAssumption DEF ReportElsewhere, Another
<1>2. /\ reports' \in [0..LastTick -> [ReportTypes -> 0..Another]]
      /\ \A s \in 0..LastTick, t \in ReportTypes :
           reports'[s][t] =
             IF s = clock /\ t = type THEN Another ELSE reports[s][t]
  BY <1>1, OpenedFile
<1>3. ASSUME NEW i \in DOMAIN results', Announced(i, results')
      PROVE  Excused(i, results',
                     reports'[results'[i].at][results'[i].task.kind])
  <2>1. /\ results[i].at \in 0..LastTick
        /\ results[i].task.kind \in ReportTypes
        /\ Excused(i, results, reports[results[i].at][results[i].task.kind])
    BY <1>1, <1>3, AnnouncedName
  <2> QED BY <1>1, <1>2, <2>1 DEF Excused
<1>4. ReportsKept'
  BY <1>3 DEF ReportsKept, Announced, Excused
<1>5. CollectedWholeOrNotAtAll'
  BY <1>1 DEF ResultsInv, ResultsAreWhole, CollectedWholeOrNotAtAll
<1>6. Working'
  BY <1>1 DEF ResultsInv, Working
<1> QED BY <1>1, <1>2, <1>4, <1>5, <1>6 DEF ResultsInv, ResultsAreWhole

(* A step that returns a result. *)
LEMMA OneReturned ==
  ASSUME ResultsInv, UNCHANGED clock, NEW r \in Result, r.at = clock,
         r.task.agent \in Collectors => Whole(r),
         results' = Append(results, r), agent' = NoAgent,
         Len(results) < MaxRuns,
         \/ reports' = reports /\ ~(r.task.agent = "reporter"
                                    /\ r.outcome = "success")
         \/ /\ r.task.agent = "reporter" /\ r.task.kind \in ReportTypes
            /\ r.outcome # "failure"
            /\ OpenFile(r.task.kind, Len(results) + 1)
  PROVE  ResultsInv'
<1> DEFINE n == Len(results)
<1>1. /\ n \in Nat /\ results \in Seq(Result)
      /\ DOMAIN results = 1..n /\ DOMAIN results' = 1..(n + 1)
      /\ results' \in Seq(Result) /\ results'[n + 1] = r
      /\ \A i \in 1..n : results'[i] = results[i]
  BY DEF ResultsInv
<1>2. /\ MaxRuns \in Nat /\ clock \in 0..LastTick /\ n < MaxRuns
      /\ n + 1 \in 0..Another
  BY <1>1, AgentsAssumption DEF ResultsInv, Another
<1>3. \/ reports' = reports /\ ~(r.task.agent = "reporter"
                                 /\ r.outcome = "success")
      \/ /\ r.task.agent = "reporter" /\ r.task.kind \in ReportTypes
         /\ r.outcome # "failure"
         /\ \A s \in 0..LastTick, t \in ReportTypes :
              reports'[s][t] = IF s = clock /\ t = r.task.kind THEN n + 1
                               ELSE reports[s][t]
  BY <1>2, OpenedFile
<1>5. reports' \in [0..LastTick -> [ReportTypes -> 0..Another]]
  BY <1>2, OpenedFile DEF ResultsInv
<1> HIDE DEF n
<1>6. CollectedWholeOrNotAtAll'
  <2>1. ASSUME NEW i \in 1..(n + 1), results'[i].task.agent \in Collectors
        PROVE  Whole(results'[i])
    <3>1. CASE i = n + 1
      BY <1>1, <2>1, <3>1
    <3>2. CASE i # n + 1
      <4>1. i \in 1..n /\ results'[i] = results[i]
        BY <1>1, <3>2
      <4> QED
        BY <1>1, <2>1, <4>1
        DEF ResultsInv, ResultsAreWhole, CollectedWholeOrNotAtAll
    <3> QED BY <3>1, <3>2
  <2>2. \A i \in DOMAIN results' :
          results'[i].task.agent \in Collectors => Whole(results'[i])
    BY <1>1, <2>1
  <2> QED BY <2>2 DEF CollectedWholeOrNotAtAll, Whole
<1>7. ASSUME NEW i \in 1..(n + 1), Announced(i, results')
      PROVE  /\ results'[i].task.kind \in ReportTypes
             /\ Excused(i, results',
                        reports'[results'[i].at][results'[i].task.kind])
  <2>1. CASE i = n + 1
    BY <1>1, <1>2, <1>3, <1>7, <2>1 DEF Announced, Excused
  <2>2. CASE i # n + 1
    <3>1. i \in 1..n /\ results'[i] = results[i]
      BY <1>1, <2>2
    <3> DEFINE s == results[i].at
               t == results[i].task.kind
    <3>2. Announced(i, results)
      BY <1>1, <1>7, <3>1 DEF Announced
    <3>3. /\ s \in 0..LastTick /\ t \in ReportTypes
          /\ results[i].task \in AgentTasks
          /\ Excused(i, results, reports[s][t])
      BY <3>2, AnnouncedName
    <3> HIDE DEF s, t
    <3>4. ASSUME reports'[s][t] = reports[s][t]
          PROVE  Excused(i, results', reports'[s][t])
      <4>1. \A j \in DOMAIN results :
              j \in DOMAIN results' /\ results'[j] = results[j]
        BY <1>1
      <4>2. Excused(i, results', reports[s][t])
        BY <3>1, <3>3, <4>1 DEF Excused
      <4> QED BY <3>4, <4>2
    <3>5. ASSUME reports'[s][t] # reports[s][t]
          PROVE  Excused(i, results', reports'[s][t])
      <4>1. /\ r.task.agent = "reporter" /\ r.task.kind = t
            /\ r.outcome # "failure" /\ s = clock /\ reports'[s][t] = n + 1
        BY <1>3, <3>3, <3>5
      <4>2. r.task \in AgentTasks
        BY DEF Result
      <4>3. results[i].task = r.task
        BY <3>2, <3>3, <4>1, <4>2 DEF AgentTasks, Announced, t
      <4>4. n + 1 \in DOMAIN results' /\ n + 1 > i
        BY <1>1, <3>1
      <4>5. results'[n + 1] = r /\ r.at = results[i].at
        BY <1>1, <4>1 DEF s
      <4>6. Excused(i, results', n + 1)
        BY <3>1, <4>1, <4>3, <4>4, <4>5 DEF Excused
      <4> QED BY <4>1, <4>6
    <3>6. Excused(i, results', reports'[s][t])
      BY <3>4, <3>5
    <3> QED BY <3>1, <3>3, <3>6 DEF s, t
  <2> QED BY <2>1, <2>2
<1>8. ReportsKept'
  BY <1>1, <1>7 DEF ReportsKept, Announced, Excused
<1> QED
  BY <1>1, <1>2, <1>5, <1>6, <1>7, <1>8
  DEF ResultsInv, ResultsAreWhole, Working

(* An answer that the agent takes. *)
LEMMA TakeWhole ==
  ASSUME ResultsInv, agent # NoAgent, Plan(agent.task),
         Len(agent.asked) < Len(Calls(agent.task)),
         NEW answer \in Answers \cup {Fail}, Take(answer),
         UNCHANGED <<clock, callTimes, reports, starts>>
  PROVE  ResultsInv'
<1> DEFINE a == Note(answer)
           asked2 == Append(agent.asked, a)
           AgentType ==
             [pc : {"ready", "throttled", "calling"}, task : AgentTasks,
              raw : Seq(ToolAnswer), asked : Seq(ToolAnswer),
              wake : 0..(LastTick + Minute)]
<1>1. /\ agent \in AgentType /\ Len(results) < MaxRuns
      /\ InOrder(Findings(agent.raw), agent.asked)
      /\ Shown(agent.raw) \subseteq Shown(agent.asked)
      /\ agent.raw \in Seq(ToolAnswer) /\ agent.asked \in Seq(ToolAnswer)
      /\ clock \in 0..LastTick
      /\ agent.task.kind \notin {"EMPTY", "UNREADABLE"}
  BY DEF ResultsInv, Working
<1>2. a \in ToolAnswer /\ a.end = answer.end
  <2>1. Calls(agent.task) \in Seq(ToolNames)
    BY CallsAreTools
  <2>2. Len(agent.asked) + 1 \in 1..Len(Calls(agent.task))
    BY <1>1, <2>1
  <2>3. tool \in ToolNames
    BY <2>1, <2>2, ElementOfSeq DEF tool
  <2>4. /\ answer.end \in {"success", "failure", "raised"}
        /\ answer.names \in SUBSET Subdomains
    BY AnswerTypes
  <2> QED BY <2>3, <2>4 DEF Note, ToolAnswer
<1>3. /\ asked2 \in Seq(ToolAnswer) /\ Len(asked2) = Len(agent.asked) + 1
      /\ asked2[Len(asked2)] = a /\ DOMAIN asked2 = 1..Len(asked2)
      /\ Append(agent.raw, a) \in Seq(ToolAnswer)
      /\ Len(agent.asked) \in Nat
  BY <1>1, <1>2
<1>4. /\ Findings(agent.raw) \in Seq(ToolNames)
      /\ Findings(Append(agent.raw, a)) = Append(Findings(agent.raw), a.tool)
  BY <1>1, <1>2, FindingsAreTools, OneMoreFinding
<1>5. InOrder(IF a.end = "success" THEN Findings(Append(agent.raw, a))
              ELSE Findings(agent.raw), asked2)
  <2>1. a.tool \in ToolNames
    BY <1>2 DEF ToolAnswer
  <2> HIDE DEF a
  <2>2. InOrder(IF a.end = "success" THEN Append(Findings(agent.raw), a.tool)
                ELSE Findings(agent.raw), Append(agent.asked, a))
    BY <1>1, <1>2, <1>4, <2>1, OneMoreAnswer
  <2> QED BY <1>4, <2>2
<1>6. /\ Shown(asked2) = Shown(agent.asked) \cup a.names
      /\ Shown(Append(agent.raw, a)) = Shown(agent.raw) \cup a.names
  BY <1>1, <1>2, OneMoreShown
<1>7. CASE answer.end \in {"success", "failure"}
  <2>1. PICK raw2 : raw2 = IF answer.end = "success"
                           THEN Append(agent.raw, a) ELSE agent.raw
    OBVIOUS
  <2>2. /\ agent' = [agent EXCEPT !.pc = "ready", !.asked = asked2,
                                  !.raw = raw2]
        /\ results' = results
    <3>1. CASE answer.end = "success"
      BY <2>1, <3>1 DEF Take
    <3>2. CASE answer.end = "failure"
      <4>1. /\ agent' = [agent EXCEPT !.pc = "ready", !.asked = asked2]
            /\ raw2 = agent.raw /\ results' = results
        BY <2>1, <3>2 DEF Take
      <4> HIDE DEF asked2
      <4> QED BY <1>1, <4>1
    <3> QED BY <1>7, <3>1, <3>2
  <2>3. raw2 \in Seq(ToolAnswer) /\ InOrder(Findings(raw2), asked2)
        /\ Shown(raw2) \subseteq Shown(asked2)
    BY <1>1, <1>2, <1>3, <1>5, <1>6, <2>1
  <2> HIDE DEF asked2
  <2>4. /\ agent' \in AgentType /\ agent'.pc = "ready"
        /\ agent'.task = agent.task /\ agent'.raw = raw2
        /\ agent'.asked = asked2
    BY <1>1, <1>3, <2>2, <2>3
  <2>5. Working'
    BY <1>1, <2>2, <2>3, <2>4 DEF Working
  <2> QED BY <1>1, <2>2, <2>5, NothingReturned
<1>8. CASE answer.end = "raised"
  <2>1. PICK outcome \in {"failure", "raised"} :
          Nothing(agent.task, outcome, asked2)
    BY <1>8 DEF Take
  <2> DEFINE r == [task |-> agent.task, outcome |-> outcome,
                   findings |-> << >>, entities |-> {}, at |-> clock,
                   asked |-> asked2]
  <2>2. results' = Append(results, r) /\ agent' = NoAgent
    BY <2>1 DEF Nothing, Finish
  <2>3. r \in Result
    BY <1>1, <1>3 DEF Result
  <2>4. Whole(r)
    <3>1. Len(asked2) \in DOMAIN asked2 /\ asked2[Len(asked2)].end = "raised"
      BY <1>2, <1>3, <1>8
    <3> HIDE DEF asked2
    <3> QED BY <3>1 DEF Whole
  <2>5. /\ r.at = clock /\ r.task.agent # "reporter" /\ reports' = reports
        /\ clock' = clock
    BY DEF Plan, Collectors
  <2> HIDE DEF r
  <2> QED BY <1>1, <2>2, <2>3, <2>4, <2>5, OneReturned
<1> QED BY <1>2, <1>7, <1>8 DEF ToolAnswer

LEMMA WorkingType ==
  ASSUME ResultsInv, agent # NoAgent
  PROVE  /\ agent \in [pc : {"ready", "throttled", "calling"},
                       task : AgentTasks, raw : Seq(ToolAnswer),
                       asked : Seq(ToolAnswer),
                       wake : 0..(LastTick + Minute)]
         /\ agent.task.agent \in Collectors => Plan(agent.task)
  BY DEF ResultsInv, Working, Plan

(* While a collector waits or calls only pc and wake change. *)
LEMMA WaitingKeeps ==
  ASSUME ResultsInv, agent # NoAgent, agent.task.agent \in Collectors,
         Len(agent.asked) < Len(Calls(agent.task)),
         NEW pc \in {"throttled", "calling"},
         NEW wake \in 0..(LastTick + Minute),
         agent' = [agent EXCEPT !.pc = pc, !.wake = wake],
         UNCHANGED <<clock, results, reports>>
  PROVE  ResultsInv'
<1>1. /\ agent' \in [pc : {"ready", "throttled", "calling"},
                     task : AgentTasks, raw : Seq(ToolAnswer),
                     asked : Seq(ToolAnswer), wake : 0..(LastTick + Minute)]
      /\ agent'.task = agent.task /\ agent'.raw = agent.raw
      /\ agent'.asked = agent.asked
  BY WorkingType
<1>2. Working'
  BY <1>1 DEF ResultsInv, Working
<1> QED BY <1>2, NothingReturned DEF ResultsInv

LEMMA CallWhole ==
  ASSUME ToolInv, ResultsInv, CallTool
  PROVE  ResultsInv'
<1>1. /\ agent # NoAgent /\ agent.task.agent \in Collectors
      /\ Len(agent.asked) < Len(Calls(agent.task))
      /\ UNCHANGED <<clock, results, reports>>
  BY DEF CallTool, Calling, Ready
<1>2. /\ Plan(agent.task)
      /\ agent \in [pc : {"ready", "throttled", "calling"},
                    task : AgentTasks, raw : Seq(ToolAnswer),
                    asked : Seq(ToolAnswer), wake : 0..(LastTick + Minute)]
  BY <1>1, WorkingType
<1>3. PICK t : t = tool
  OBVIOUS
<1>4. t \in ToolNames
  <2>1. Calls(agent.task) \in Seq(ToolNames) /\ agent.asked \in Seq(ToolAnswer)
    BY <1>2, CallsAreTools
  <2>2. Len(agent.asked) + 1 \in 1..Len(Calls(agent.task))
    BY <1>1, <2>1
  <2> QED BY <1>3, <2>1, <2>2, ElementOfSeq DEF tool
<1>5. PICK w : w = Recent
  OBVIOUS
<1>6. CASE AtLimit
  <2>1. /\ RateLimit[t] \in Nat \ {0} /\ Minute \in Nat \ {0}
        /\ LastTick \in Nat /\ clock \in Nat /\ clock <= LastTick
    BY <1>4, AgentsAssumption DEF ResultsInv
  <2>2. Windowed(callTimes[t], starts[t], clock, Minute, RateLimit[t])
    BY <1>4 DEF ToolInv, ToolWindows
  <2>3. w = Within(callTimes[t], clock, Minute)
    BY <1>3, <1>5 DEF Recent
  <2>4. Windowed(w, starts[t], clock, Minute, RateLimit[t])
    BY <2>1, <2>2, <2>3, Pruned
  <2>5. w \in Seq(0..LastTick)
    BY <2>1, <2>4, WindowTypes
  <2>6. Len(w) >= RateLimit[t]
    BY <1>3, <1>5, <1>6 DEF AtLimit
  <2>7. Len(w) \in Nat /\ 1 \in 1..Len(w)
    BY <2>1, <2>5, <2>6
  <2>8. Head(w) \in 0..LastTick
    <3>1. Head(w) = w[1]
      BY <2>5, <2>7
    <3>2. w[1] \in 0..LastTick
      BY <2>5, <2>7, ElementOfSeq
    <3> QED BY <3>1, <3>2
  <2>9. Head(w) + Minute \in 0..(LastTick + Minute)
    BY <2>1, <2>8
  <2>10. agent' = [agent EXCEPT !.pc = "throttled", !.wake = Head(w) + Minute]
    BY <1>5, <1>6 DEF CallTool
  <2> QED BY <1>1, <2>9, <2>10, WaitingKeeps
<1>7. CASE ~AtLimit
  <2>1. agent' = [agent EXCEPT !.pc = "calling"]
    BY <1>7 DEF CallTool, Pass
  <2>2. agent' = [agent EXCEPT !.pc = "calling", !.wake = agent.wake]
    BY <1>2, <2>1
  <2> QED BY <1>1, <1>2, <2>2, WaitingKeeps
<1> QED BY <1>6, <1>7

LEMMA WakeWhole ==
  ASSUME ResultsInv, WakeUp
  PROVE  ResultsInv'
<1>1. /\ agent # NoAgent /\ agent.pc = "throttled"
      /\ agent' = [agent EXCEPT !.pc = "calling"]
      /\ UNCHANGED <<clock, results, reports>>
  BY DEF WakeUp, Pass
<1>2. /\ agent.task.agent \in Collectors
      /\ Len(agent.asked) < Len(Calls(agent.task))
  BY <1>1 DEF ResultsInv, Working
<1>3. /\ agent.wake \in 0..(LastTick + Minute)
      /\ agent' = [agent EXCEPT !.pc = "calling", !.wake = agent.wake]
  BY <1>1, WorkingType
<1> QED BY <1>1, <1>2, <1>3, WaitingKeeps

LEMMA ReporterKinds ==
  ASSUME NEW t \in AgentTasks, t.agent = "reporter"
  PROVE  t.kind \in ReportTypes \cup {"UNREADABLE"}
<1>1. Kinds["reporter"] = ReportTypes \cup {"UNREADABLE"}
  BY DEF Kinds
<1> QED BY <1>1 DEF AgentTasks

LEMMA StartWhole ==
  ASSUME ResultsInv, NEW t \in Inputs,
         RaiseOnInput(t) \/ NothingToDo(t) \/ Begin(t)
  PROVE  ResultsInv'
<1>1. /\ t \in AgentTasks /\ Len(results) < MaxRuns /\ agent = NoAgent
      /\ clock \in 0..LastTick /\ UNCHANGED <<clock, reports>>
  BY AgentsAssumption
  DEF ResultsInv, RaiseOnInput, NothingToDo, Begin, Startable
<1>2. CASE RaiseOnInput(t) \/ NothingToDo(t)
  <2>1. PICK outcome \in {"raised", "failure", "success"} :
          /\ Nothing(t, outcome, << >>)
          /\ t.kind \in {"EMPTY", "UNREADABLE"}
          /\ outcome = "success" => t.agent \notin Collectors
          /\ t.agent = "reporter" => t.kind = "UNREADABLE"
          /\ t.kind = "UNREADABLE" => outcome = "raised"
    <3>1. t.agent = "reporter" => t.kind \in ReportTypes \cup {"UNREADABLE"}
      BY <1>1, ReporterKinds
    <3>2. CASE RaiseOnInput(t)
      BY <3>2 DEF RaiseOnInput
    <3>3. CASE NothingToDo(t)
      BY <3>1, <3>3 DEF NothingToDo, ReportTypes
    <3> QED BY <1>2, <3>2, <3>3
  <2> DEFINE r == [task |-> t, outcome |-> outcome, findings |-> << >>,
                   entities |-> {}, at |-> clock, asked |-> << >>]
  <2>2. results' = Append(results, r) /\ agent' = NoAgent
    BY <2>1 DEF Nothing, Finish
  <2>3. r \in Result
    BY <1>1 DEF Result
  <2>4. r.task.agent \in Collectors => Whole(r)
    BY <2>1 DEF Whole
  <2>5. /\ r.at = clock /\ reports' = reports /\ clock' = clock
        /\ ~(r.task.agent = "reporter" /\ r.outcome = "success")
    BY <1>1, <2>1
  <2> HIDE DEF r
  <2> QED BY <1>1, <2>2, <2>3, <2>4, <2>5, OneReturned
<1>3. CASE Begin(t)
  <2> DEFINE new == [pc |-> "ready", task |-> t, raw |-> << >>,
                     asked |-> << >>, wake |-> 0]
  <2>1. /\ agent' = new /\ UNCHANGED <<results, reports>>
        /\ t.kind \notin {"EMPTY", "UNREADABLE"}
    BY <1>3 DEF Begin
  <2>2. 0 \in 0..(LastTick + Minute)
    BY AgentsAssumption
  <2>3. new \in [pc : {"ready", "throttled", "calling"}, task : AgentTasks,
                 raw : Seq(ToolAnswer), asked : Seq(ToolAnswer),
                 wake : 0..(LastTick + Minute)]
    BY <1>1, <2>2
  <2>4. InOrder(Findings(<< >>), << >>)
    <3>1. Succeeded(<< >>) = {}
      BY DEF Succeeded
    <3>2. Findings(<< >>) = << >> /\ Len(<< >>) = 0
      BY DEF Findings
    <3> QED BY <3>1, <3>2, FS_EmptySet DEF InOrder
  <2>5. Shown(<< >>) \subseteq Shown(<< >>)
    OBVIOUS
  <2>6. /\ new.pc = "ready" /\ new.task = t /\ new.raw = << >>
        /\ new.asked = << >>
    OBVIOUS
  <2> HIDE DEF new
  <2>7. Working'
    BY <1>1, <2>1, <2>3, <2>4, <2>5, <2>6 DEF Working
  <2> QED BY <1>1, <2>1, <2>7, NothingReturned
<1> QED BY <1>2, <1>3

LEMMA EndWhole ==
  ASSUME ResultsInv,
         Collected \/ ResolveEntities \/ ValidateSources \/ Report
           \/ DrawTimeline
  PROVE  ResultsInv'
<1>1. /\ agent # NoAgent /\ UNCHANGED clock
      /\ clock \in 0..LastTick /\ Len(results) < MaxRuns
      /\ agent.task \in AgentTasks /\ agent.asked \in Seq(ToolAnswer)
      /\ agent.raw \in Seq(ToolAnswer)
      /\ InOrder(Findings(agent.raw), agent.asked)
      /\ Shown(agent.raw) \subseteq Shown(agent.asked)
  BY DEF Collected, ResolveEntities, ValidateSources, Report, DrawTimeline,
         Ready, ResultsInv, Working
<1>2. CASE Collected
  <2> DEFINE r == [task |-> agent.task, outcome |-> "success",
                   findings |-> Findings(agent.raw),
                   entities |-> Entities(agent.task, agent.raw),
                   at |-> clock, asked |-> agent.asked]
  <2>1. /\ results' = Append(results, r) /\ agent' = NoAgent
        /\ agent.task.agent \in Collectors /\ reports' = reports
        /\ Len(agent.asked) = Len(Calls(agent.task))
    BY <1>2 DEF Collected, Finish, Ready
  <2>2. /\ Entities(agent.task, agent.raw) \subseteq
             {Target} \cup Shown(agent.raw)
        /\ Shown(agent.raw) \subseteq Subdomains
    <3>1. \A i \in DOMAIN agent.raw : agent.raw[i].names \in SUBSET Subdomains
      <4> TAKE i \in DOMAIN agent.raw
      <4>1. agent.raw[i] \in ToolAnswer
        BY <1>1
      <4> QED BY <4>1 DEF ToolAnswer
    <3>2. Shown(agent.raw) \subseteq Subdomains
      BY <3>1 DEF Shown
    <3> QED BY <2>1, <3>2 DEF Entities, Collectors
  <2>3. Findings(agent.raw) \in Seq(ToolNames \cup {"timeline"})
    <3>1. Findings(agent.raw) \in Seq(ToolNames)
      BY <1>1, FindingsAreTools
    <3> QED BY <3>1, SeqMonotonic
  <2>4. r \in Result
    BY <1>1, <2>2, <2>3 DEF Result
  <2>5. Whole(r)
    BY <1>1, <2>1, <2>2 DEF Whole
  <2>6. r.at = clock /\ r.task.agent # "reporter" /\ clock' = clock
    BY <1>1, <2>1 DEF Collectors
  <2> HIDE DEF r
  <2> QED BY <1>1, <2>1, <2>4, <2>5, <2>6, OneReturned
<1>3. CASE ResolveEntities \/ ValidateSources \/ Report \/ DrawTimeline
  <2>1. PICK outcome \in {"success", "failure", "raised"},
             findings \in {<< >>, <<"timeline">>} :
          /\ Finish(agent.task, outcome, findings, {}, << >>)
          /\ agent.task.agent \notin Collectors
          /\ \/ reports' = reports /\ ~(agent.task.agent = "reporter"
                                        /\ outcome = "success")
             \/ /\ agent.task.agent = "reporter" /\ outcome # "failure"
                /\ OpenFile(agent.task.kind, Len(results) + 1)
    <3>1. CASE ResolveEntities \/ ValidateSources
      BY <3>1 DEF ResolveEntities, ValidateSources, Nothing, Ready, Collectors
    <3>2. CASE Report
      BY <3>2 DEF Report, Nothing, Ready, Collectors
    <3>3. CASE DrawTimeline
      BY <3>3 DEF DrawTimeline, Nothing, Ready, Collectors
    <3> QED BY <1>3, <3>1, <3>2, <3>3
  <2> DEFINE r == [task |-> agent.task, outcome |-> outcome,
                   findings |-> findings, entities |-> {}, at |-> clock,
                   asked |-> << >>]
  <2>2. results' = Append(results, r) /\ agent' = NoAgent
    BY <2>1 DEF Finish
  <2>3. findings \in Seq(ToolNames \cup {"timeline"})
    <3>1. "timeline" \in ToolNames \cup {"timeline"}
      OBVIOUS
    <3> HIDE DEF ToolNames
    <3>2. <<"timeline">> \in Seq(ToolNames \cup {"timeline"})
      BY <3>1
    <3>3. << >> \in Seq(ToolNames \cup {"timeline"})
      BY EmptySeq
    <3> QED BY <2>1, <3>2, <3>3
  <2>4. r \in Result
    BY <1>1, <2>3 DEF Result
  <2>5. /\ r.at = clock /\ r.task = agent.task /\ r.outcome = outcome
    OBVIOUS
  <2> HIDE DEF r
  <2>6. agent.task.agent = "reporter" => agent.task.kind \in ReportTypes
    <3>1. agent.task.kind # "UNREADABLE"
      BY <1>1 DEF ResultsInv, Working
    <3> QED BY <1>1, <3>1, ReporterKinds
  <2> QED BY <1>1, <2>1, <2>2, <2>4, <2>5, <2>6, OneReturned
<1> QED BY <1>2, <1>3

LEMMA ResultsStep ==
  ToolInv /\ ResultsInv /\ [AgentNext]_agentVars => ResultsInv'
<1> SUFFICES ASSUME ToolInv, ResultsInv, [AgentNext]_agentVars
             PROVE  ResultsInv'
  OBVIOUS
<1>1. CASE UNCHANGED agentVars
  BY <1>1, NothingReturned DEF agentVars, ResultsInv, Working
<1>2. CASE BlockFetch
  <2>1. /\ agent # NoAgent /\ agent.task.agent \in Collectors
        /\ Len(agent.asked) < Len(Calls(agent.task)) /\ Take(Fail)
        /\ UNCHANGED <<clock, callTimes, reports, starts>>
    BY <1>2 DEF BlockFetch, Calling, Ready
  <2> QED BY <2>1, WorkingType, TakeWhole
<1>3. ASSUME NEW answer \in UNION {Execute[t] : t \in ToolNames},
             GetAnswer(answer)
      PROVE  ResultsInv'
  <2>1. /\ agent # NoAgent /\ agent.pc = "calling" /\ Take(answer)
        /\ UNCHANGED <<clock, callTimes, reports, starts>>
    BY <1>3 DEF GetAnswer
  <2>2. /\ agent.task.agent \in Collectors
        /\ Len(agent.asked) < Len(Calls(agent.task))
    BY <2>1 DEF ResultsInv, Working
  <2>3. answer \in Answers \cup {Fail}
    BY DEF Answers
  <2> QED BY <2>1, <2>2, <2>3, WorkingType, TakeWhole
<1>4. CASE Tick
  <2>1. /\ clock' \in 0..LastTick /\ UNCHANGED <<agent, results, reports>>
    BY <1>4, AgentsAssumption DEF Tick, ResultsInv
  <2>2. Working'
    BY <2>1 DEF ResultsInv, Working
  <2> QED BY <2>1, <2>2, NothingReturned
<1> QED
  BY <1>1, <1>2, <1>3, <1>4, CallWhole, WakeWhole, StartWhole, EndWhole,
     ElsewhereKeeps
  DEF AgentNext

(* For any plan, tools, answers and number of agents: an agent returns all *)
(* that it collected, in order, or nothing; and the file of a report that  *)
(* the reporter announced holds it, unless a later run that got as far as  *)
(* opening a file opened the one of that very name.                        *)
THEOREM AgentsReturnWhole == AgentSpec => []ResultsAreWhole
<1>1. ToolInv /\ ResultsInv /\ [AgentNext]_agentVars =>
        (ToolInv /\ ResultsInv)'
  BY AgentStepKeeps, ResultsStep
<1>2. AgentInit => ToolInv /\ ResultsInv
  BY ToolInit, ResultsInit
<1>3. ResultsInv => ResultsAreWhole
  BY DEF ResultsInv
<1> QED BY <1>1, <1>2, <1>3, PTL DEF AgentSpec

-----------------------------------------------------------------------------
(* Types of RateWindow follow from its invariant, but for the mode. *)

LEMMA RateTypes ==
  ASSUME RateInv, mode \in [Servers -> {"redis", "local"}]
  PROVE  RateTypeOK
<1>1. /\ second \in Stamps /\ second \in Nat /\ Horizon \in Nat
      /\ Window \in Nat /\ second <= Horizon
  BY RateWindowAssumption DEF RateInv, Stamps
<1>2. Shared(zset, granted["redis"], latest, second, expires)
  BY DEF RateInv
<1>3. /\ zset \subseteq Member /\ latest \in Stamps
      /\ expires \in 0..(Horizon + Window + 1)
  <2>1. /\ latest \in Nat /\ latest <= second /\ expires \in Nat
        /\ expires <= second + Window + 1
    BY <1>2, SharedTypes DEF RateInv
  <2> QED BY <1>1, <1>2, <2>1 DEF Shared, Stamps
<1>4. ASSUME NEW s \in Servers
      PROVE  window[s] \in Seq(Stamps) /\ granted[s] \in Seq(Stamps)
  <2>1. Windowed(window[s], granted[s], second, Window, MaxRequests)
    BY DEF RateInv, LocalWindows
  <2> QED BY <1>1, <2>1, WindowTypes DEF Stamps
<1>5. granted["redis"] \in Seq(Stamps)
  <2>1. /\ granted["redis"] \in Seq(Nat)
        /\ \A i \in 1..Len(granted["redis"]) :
             granted["redis"][i] \in Nat /\ granted["redis"][i] <= latest
        /\ latest \in Nat /\ latest <= second
    BY <1>2, SharedTypes
  <2>2. \A i \in 1..Len(granted["redis"]) : granted["redis"][i] <= Horizon
    BY <1>1, <2>1
  <2> QED BY <1>1, <2>1, <2>2, BoundedSeq DEF Stamps
<1>6. window \in [Servers -> Seq(Stamps)]
  BY <1>4 DEF RateInv
<1>7. granted \in [Stores -> Seq(Stamps)]
  BY <1>4, <1>5 DEF RateInv, Stores
<1>8. asked \in [Clients -> Member \cup {Unasked}]
  BY DEF RateInv, AskedBefore
<1> QED BY <1>1, <1>3, <1>6, <1>7, <1>8 DEF RateTypeOK

LEMMA ModeKept ==
  ASSUME mode \in [Servers -> {"redis", "local"}], [RateNext]_rateVars
  PROVE  mode' \in [Servers -> {"redis", "local"}]
  BY DEF RateNext, rateVars, AskRedis, CheckRedis, LoseRedis, ExpireSet,
         CheckLocal, RestartServer, SecondPasses

-----------------------------------------------------------------------------
(* Fusion. *)

LabelOf(target, item) == IF item.kind = "OSINT" THEN target ELSE item.name

DrawnGraphs ==
  [labels : UNION {[D -> STRING \cup Targets] : D \in SUBSET NodeIds},
   edges : Seq(Edge)]

(* Nothing of the graph x is missing or renamed in y. *)
Grows(x, y) ==
  /\ DOMAIN x.labels \subseteq DOMAIN y.labels
  /\ \A id \in DOMAIN x.labels : y.labels[id] = x.labels[id]
  /\ Len(x.edges) <= Len(y.edges)
  /\ \A e \in 1..Len(x.edges) : y.edges[e] = x.edges[e]

LEMMA GraphTypes ==
  ASSUME NEW x \in DrawnGraphs
  PROVE  /\ DOMAIN x.labels \subseteq NodeIds
         /\ x.labels = [id \in DOMAIN x.labels |-> x.labels[id]]
         /\ \A id \in DOMAIN x.labels : x.labels[id] \in STRING \cup Targets
         /\ x.edges \in Seq(Edge) /\ Len(x.edges) \in Nat
         /\ DOMAIN x.edges = 1..Len(x.edges)
         /\ x = [labels |-> x.labels, edges |-> x.edges]
<1>1. PICK D \in SUBSET NodeIds : x.labels \in [D -> STRING \cup Targets]
  BY DEF DrawnGraphs
<1>2. x.edges \in Seq(Edge)
  BY DEF DrawnGraphs
<1>3. x = [labels |-> x.labels, edges |-> x.edges]
  BY DEF DrawnGraphs
<1> QED BY <1>1, <1>2, <1>3

LEMMA GraphOf ==
  ASSUME NEW l, NEW D \in SUBSET NodeIds, l \in [D -> STRING \cup Targets],
         NEW list \in Seq(Edge)
  PROVE  [labels |-> l, edges |-> list] \in DrawnGraphs
  BY DEF DrawnGraphs

LEMMA ItemTypes ==
  ASSUME NEW item \in Items
  PROVE  /\ item.id \in NodeIds /\ item.name \in STRING
         /\ item.kind = "LINK" => item.name \in NodeIds
<1>1. item \in Item /\ (item.kind = "LINK" => item.name \in NodeIds)
  BY FusionAssumption
<1> QED BY <1>1 DEF Item

LEMMA AddEntityFacts ==
  ASSUME NEW x \in DrawnGraphs, NEW id \in NodeIds,
         NEW label \in STRING \cup Targets
  PROVE  LET l == AddEntity(x.labels, id, label) IN
         /\ l \in [DOMAIN x.labels \cup {id} -> STRING \cup Targets]
         /\ DOMAIN x.labels \cup {id} \in SUBSET NodeIds
         /\ DOMAIN l = DOMAIN x.labels \cup {id}
         /\ \A n \in DOMAIN x.labels : l[n] = x.labels[n]
         /\ id \notin DOMAIN x.labels => l[id] = label
  BY GraphTypes DEF AddEntity

LEMMA AddRelationshipFacts ==
  ASSUME NEW x \in DrawnGraphs, NEW a \in NodeIds, NEW b \in NodeIds
  PROVE  LET y == AddRelationship(x.edges, a, b) IN
         /\ y \in Seq(Edge) /\ Len(y) = Len(x.edges) + 1
         /\ \A e \in 1..Len(x.edges) : y[e] = x.edges[e]
         /\ y[Len(y)] = <<a, b>> /\ Len(y) \in 1..Len(y)
<1>1. <<a, b>> \in Edge
  BY DEF Edge
<1>2. x.edges \in Seq(Edge) /\ Len(x.edges) \in Nat
  BY GraphTypes
<1> HIDE DEF Edge
<1> QED BY <1>1, <1>2 DEF AddRelationship

(* What drawing one item makes of the graph x is y. *)
DrawsOne(target, item, x, y) ==
  /\ y \in DrawnGraphs /\ Grows(x, y)
  /\ \A id \in DOMAIN y.labels :
       \/ id \in DOMAIN x.labels
       \/ id = item.id /\ y.labels[id] = LabelOf(target, item)
  /\ Linked(item) =>
       /\ item.id \in DOMAIN y.labels
       /\ \E e \in 1..Len(y.edges) : y.edges[e] = <<target, item.id>>

LEMMA DrawOne ==
  ASSUME NEW target \in Targets, NEW item \in Items, NEW x \in DrawnGraphs
  PROVE  DrawsOne(target, item, x, Draw(target, item, x))
<1> DEFINE y == Draw(target, item, x)
           label == LabelOf(target, item)
           more == AddEntity(x.labels, item.id, label)
<1>1. /\ target \in NodeIds /\ item.id \in NodeIds
      /\ label \in STRING \cup Targets
      /\ item.kind = "LINK" => item.name \in NodeIds
  BY ItemTypes, FusionAssumption DEF LabelOf
<1>2. /\ more \in [DOMAIN x.labels \cup {item.id} -> STRING \cup Targets]
      /\ DOMAIN x.labels \cup {item.id} \in SUBSET NodeIds
      /\ DOMAIN more = DOMAIN x.labels \cup {item.id}
      /\ \A n \in DOMAIN x.labels : more[n] = x.labels[n]
      /\ item.id \notin DOMAIN x.labels => more[item.id] = label
  <2> HIDE DEF label
  <2> QED BY <1>1, AddEntityFacts
<1>0. \A id \in DOMAIN more :
        id \in DOMAIN x.labels \/ (id = item.id /\ more[id] = label)
  <2> HIDE DEF more, label
  <2> TAKE id \in DOMAIN more
  <2>1. id \in DOMAIN x.labels \/ id = item.id
    BY <1>2
  <2> QED BY <1>2, <2>1
<1>3. /\ x.labels \in [DOMAIN x.labels -> STRING \cup Targets]
      /\ DOMAIN x.labels \in SUBSET NodeIds
      /\ x.edges \in Seq(Edge) /\ Len(x.edges) \in Nat
      /\ x = [labels |-> x.labels, edges |-> x.edges]
  BY GraphTypes
<1>4. CASE item.kind \in {"OSINT", "SOCMINT"}
  <2>1. y = [x EXCEPT !.labels = more] /\ ~Linked(item)
    BY <1>4 DEF Draw, LabelOf, Linked
  <2> HIDE DEF more, y
  <2>2. y = [labels |-> more, edges |-> x.edges]
    BY <1>3, <2>1
  <2>3. y \in DrawnGraphs /\ y.labels = more /\ y.edges = x.edges
    BY <1>2, <1>3, <2>2, GraphOf
  <2> HIDE DEF label
  <2>4. Grows(x, y)
    BY <1>2, <1>3, <2>3 DEF Grows
  <2>5. \A id \in DOMAIN y.labels :
          id \in DOMAIN x.labels \/ (id = item.id /\ y.labels[id] = label)
    BY <1>0, <2>3
  <2> QED BY <2>1, <2>3, <2>4, <2>5 DEF y, label, DrawsOne
<1>5. CASE item.kind = "LINK"
  <2> DEFINE list == AddRelationship(x.edges, item.id, item.name)
  <2>1. y = [x EXCEPT !.edges = list] /\ ~Linked(item)
    BY <1>5 DEF Draw, Linked
  <2>2. /\ list \in Seq(Edge) /\ Len(list) = Len(x.edges) + 1
        /\ \A e \in 1..Len(x.edges) : list[e] = x.edges[e]
    BY <1>1, <1>5, AddRelationshipFacts
  <2> HIDE DEF list, y
  <2>3. y = [labels |-> x.labels, edges |-> list]
    BY <1>3, <2>1
  <2>4. y \in DrawnGraphs /\ y.labels = x.labels /\ y.edges = list
    BY <1>3, <2>2, <2>3, GraphOf
  <2>5. Grows(x, y)
    BY <1>3, <2>2, <2>4 DEF Grows
  <2> QED BY <2>1, <2>4, <2>5 DEF y, DrawsOne
<1>6. CASE Linked(item)
  <2> DEFINE list == AddRelationship(x.edges, target, item.id)
  <2>1. y = [x EXCEPT !.labels = more, !.edges = list]
    BY <1>6 DEF Draw, Linked, LabelOf
  <2>2. /\ list \in Seq(Edge) /\ Len(list) = Len(x.edges) + 1
        /\ \A e \in 1..Len(x.edges) : list[e] = x.edges[e]
        /\ list[Len(list)] = <<target, item.id>> /\ Len(list) \in 1..Len(list)
    BY <1>1, AddRelationshipFacts
  <2> HIDE DEF list, more, y
  <2>3. y = [labels |-> more, edges |-> list]
    BY <1>3, <2>1
  <2>4. y \in DrawnGraphs /\ y.labels = more /\ y.edges = list
    BY <1>2, <2>2, <2>3, GraphOf
  <2> HIDE DEF label
  <2>5. Grows(x, y)
    BY <1>2, <1>3, <2>2, <2>4 DEF Grows
  <2>6. \A id \in DOMAIN y.labels :
          id \in DOMAIN x.labels \/ (id = item.id /\ y.labels[id] = label)
    BY <1>0, <2>4
  <2>7. item.id \in DOMAIN y.labels
    BY <1>2, <2>4
  <2>8. \E e \in 1..Len(y.edges) : y.edges[e] = <<target, item.id>>
    BY <2>2, <2>4
  <2> QED BY <2>4, <2>5, <2>6, <2>7, <2>8 DEF y, label, DrawsOne
<1>7. CASE item.kind \notin {"OSINT", "SOCMINT", "LINK"} /\ ~Linked(item)
  <2>1. y = x
    BY <1>7 DEF Draw
  <2>2. Grows(x, x)
    BY <1>3 DEF Grows
  <2> QED BY <1>7, <2>1, <2>2 DEF DrawsOne
<1> QED BY <1>4, <1>5, <1>6, <1>7

LEMMA DrawnStepByStep ==
  ASSUME NEW target \in Targets, NEW given \in Seq(Items),
         NEW graph \in DrawnGraphs
  PROVE  \E after \in [0..Len(given) -> DrawnGraphs] :
           /\ after[0] = graph
           /\ \A n \in 1..Len(given) :
                after[n] = Draw(target, given[n], after[n - 1])
           /\ Drawn(target, given, graph) = after[Len(given)]
<1> DEFINE m == Len(given)
           D(n, x) == Draw(target, given[n], x)
           rule == [n \in 1..m |-> [x \in DrawnGraphs |-> D(n, x)]]
           body(f) == [n \in 0..m |-> IF n = 0 THEN graph ELSE D(n, f[n - 1])]
           after == CHOOSE f : f = body(f)
<1>1. m \in Nat
  OBVIOUS
<1>2. rule \in Rules(1..m, DrawnGraphs)
  <2>1. ASSUME NEW n \in 1..m, NEW x \in DrawnGraphs
        PROVE  D(n, x) \in DrawnGraphs
    <3>1. given[n] \in Items
      BY ElementOfSeq
    <3> QED BY <3>1, DrawOne DEF DrawsOne
  <2> HIDE DEF D
  <2> QED BY <2>1 DEF Rules
<1>3. Drawn(target, given, graph) = after[m]
  BY DEF Drawn
<1>4. \A n \in 1..m, x \in DrawnGraphs : rule[n][x] = D(n, x)
  <2> HIDE DEF D
  <2> QED OBVIOUS
<1> HIDE DEF rule, m
<1>5. PICK f \in [0..m -> DrawnGraphs] : FollowsUpTo(f, m, graph, rule)
  BY <1>1, <1>2, RecursiveUpTo
<1>6. ASSUME NEW n \in 1..m
      PROVE  f[n] = D(n, f[n - 1])
  <2>1. n - 1 \in 0..m
    BY <1>1
  <2>2. f[n - 1] \in DrawnGraphs
    BY <2>1
  <2> HIDE DEF D
  <2> QED BY <1>4, <1>5, <2>2 DEF FollowsUpTo
<1>7. f[0] = graph
  BY <1>5 DEF FollowsUpTo
<1>8. ASSUME NEW n \in 0..m
      PROVE  f[n] = IF n = 0 THEN graph ELSE D(n, f[n - 1])
  <2>1. n # 0 => n \in 1..m
    BY <1>1
  <2> HIDE DEF D
  <2> QED BY <1>6, <1>7, <2>1
<1>9. f = body(f)
  <2> HIDE DEF D
  <2> QED BY <1>8
<1>10. after = body(after)
  <2> HIDE DEF body
  <2> QED BY <1>9, Zenon
<1> DEFINE same == {n \in 0..m : after[n] = f[n]}
<1>11. /\ after[0] = graph /\ DOMAIN after = 0..m
       /\ \A n \in 1..m : after[n] = D(n, after[n - 1])
  <2> DEFINE g == after
  <2>1. g = body(g)
    BY <1>10
  <2> HIDE DEF g, D
  <2>2. g[0] = graph /\ DOMAIN g = 0..m
    BY <1>1, <2>1
  <2>3. \A n \in 1..m : g[n] = D(n, g[n - 1])
    BY <1>1, <2>1
  <2> QED BY <2>2, <2>3 DEF g
<1> HIDE DEF after, D
<1>12. 0 \in same
  BY <1>1, <1>7, <1>11
<1>13. ASSUME NEW n \in 0..m, n # m, n \in same PROVE n + 1 \in same
  <2>1. n + 1 \in 1..m /\ n + 1 - 1 = n
    BY <1>1, <1>13
  <2> QED BY <1>6, <1>11, <1>13, <2>1
<1> HIDE DEF same
<1>14. 0..m \subseteq same
  BY <1>1, <1>12, <1>13, BoundedInduction
<1>15. after[m] = f[m]
  BY <1>1, <1>14 DEF same
<1>16. \A n \in 1..m : f[n] = Draw(target, given[n], f[n - 1])
  BY <1>6 DEF D
<1> QED BY <1>3, <1>7, <1>15, <1>16 DEF m

(* What drawing the first n items of given made of graph is x: a label is  *)
(* one that graph had, or comes from an item, and whatever is linked has   *)
(* its edge and its node, labelled with its name or before its turn.       *)
LabelFrom(target, given, n, id, label) ==
  \E j \in 1..n : given[j].id = id /\ label = LabelOf(target, given[j])

HadLabel(graph, id, label) ==
  id \in DOMAIN graph.labels /\ label = graph.labels[id]

DrawnUpTo(target, given, graph, n, x) ==
  /\ x \in DrawnGraphs /\ Grows(graph, x)
  /\ \A id \in DOMAIN x.labels :
       \/ HadLabel(graph, id, x.labels[id])
       \/ LabelFrom(target, given, n, id, x.labels[id])
  /\ \A j \in 1..n : Linked(given[j]) =>
       /\ \E e \in 1..Len(x.edges) : x.edges[e] = <<target, given[j].id>>
       /\ given[j].id \in DOMAIN x.labels
       /\ \/ x.labels[given[j].id] = LabelOf(target, given[j])
          \/ HadLabel(graph, given[j].id, x.labels[given[j].id])
          \/ LabelFrom(target, given, j - 1, given[j].id,
                       x.labels[given[j].id])

LEMMA GrowsOn ==
  ASSUME NEW x \in DrawnGraphs, NEW y \in DrawnGraphs, NEW z \in DrawnGraphs,
         Grows(x, y), Grows(y, z)
  PROVE  Grows(x, z)
<1>1. /\ Len(x.edges) \in Nat /\ Len(y.edges) \in Nat /\ Len(z.edges) \in Nat
  BY GraphTypes
<1>2. Len(x.edges) <= Len(z.edges)
  BY <1>1 DEF Grows
<1>3. \A e \in 1..Len(x.edges) : e \in 1..Len(y.edges)
  BY <1>1 DEF Grows
<1> QED BY <1>2, <1>3 DEF Grows

LEMMA DrawnOneMore ==
  ASSUME NEW target \in Targets, NEW given \in Seq(Items),
         NEW graph \in DrawnGraphs, NEW n \in Nat, n + 1 <= Len(given),
         NEW x, DrawnUpTo(target, given, graph, n, x)
  PROVE  DrawnUpTo(target, given, graph, n + 1,
                   Draw(target, given[n + 1], x))
<1> DEFINE item == given[n + 1]
           y == Draw(target, item, x)
           m == n + 1
<1>1. item \in Items
  <2>1. n + 1 \in 1..Len(given)
    OBVIOUS
  <2> QED BY <2>1, ElementOfSeq
<1>2. x \in DrawnGraphs /\ Grows(graph, x)
  BY DEF DrawnUpTo
<1>3. /\ y \in DrawnGraphs /\ Grows(x, y)
      /\ \A id \in DOMAIN y.labels :
           \/ id \in DOMAIN x.labels
           \/ id = item.id /\ y.labels[id] = LabelOf(target, item)
      /\ Linked(item) =>
           /\ item.id \in DOMAIN y.labels
           /\ \E e \in 1..Len(y.edges) : y.edges[e] = <<target, item.id>>
  <2>1. DrawsOne(target, item, x, y)
    BY <1>1, <1>2, DrawOne
  <2> HIDE DEF y, item
  <2> QED BY <2>1 DEF DrawsOne
<1>4. Grows(graph, y)
  <2> HIDE DEF y
  <2> QED BY <1>2, <1>3, GrowsOn
<1>5. /\ \A j \in 1..m : j \in 1..n \/ j = m
      /\ 1..n \subseteq 1..m /\ m \in 1..m /\ m - 1 = n
  OBVIOUS
<1>6. /\ \A id \in DOMAIN x.labels :
           \/ HadLabel(graph, id, x.labels[id])
           \/ LabelFrom(target, given, n, id, x.labels[id])
      /\ \A j \in 1..n : Linked(given[j]) =>
           /\ \E e \in 1..Len(x.edges) : x.edges[e] = <<target, given[j].id>>
           /\ given[j].id \in DOMAIN x.labels
           /\ \/ x.labels[given[j].id] = LabelOf(target, given[j])
              \/ HadLabel(graph, given[j].id, x.labels[given[j].id])
              \/ LabelFrom(target, given, j - 1, given[j].id,
                           x.labels[given[j].id])
  BY DEF DrawnUpTo
<1>7. /\ Len(x.edges) \in Nat /\ Len(y.edges) \in Nat
  BY <1>2, <1>3, GraphTypes
<1>8. item = given[m]
  OBVIOUS
<1> HIDE DEF y, m, item
<1>9. \A id \in DOMAIN y.labels :
        \/ HadLabel(graph, id, y.labels[id])
        \/ LabelFrom(target, given, m, id, y.labels[id])
  <2> TAKE id \in DOMAIN y.labels
  <2>1. CASE id \in DOMAIN x.labels
    <3>1. y.labels[id] = x.labels[id]
      BY <1>3, <2>1 DEF Grows
    <3> QED BY <1>5, <1>6, <2>1, <3>1 DEF LabelFrom
  <2>2. CASE id = item.id /\ y.labels[id] = LabelOf(target, item)
    BY <1>5, <1>8, <2>2 DEF LabelFrom
  <2> QED BY <1>3, <2>1, <2>2
<1>10. ASSUME NEW j \in 1..m, Linked(given[j])
       PROVE  /\ \E e \in 1..Len(y.edges) :
                   y.edges[e] = <<target, given[j].id>>
              /\ given[j].id \in DOMAIN y.labels
              /\ \/ y.labels[given[j].id] = LabelOf(target, given[j])
                 \/ HadLabel(graph, given[j].id, y.labels[given[j].id])
                 \/ LabelFrom(target, given, j - 1, given[j].id,
                              y.labels[given[j].id])
  <2>1. CASE j \in 1..n
    <3>1. PICK e \in 1..Len(x.edges) : x.edges[e] = <<target, given[j].id>>
      BY <1>6, <1>10, <2>1
    <3>2. e \in 1..Len(y.edges) /\ y.edges[e] = x.edges[e]
      BY <1>3, <1>7 DEF Grows
    <3>3. given[j].id \in DOMAIN x.labels
      BY <1>6, <1>10, <2>1
    <3>4. /\ given[j].id \in DOMAIN y.labels
          /\ y.labels[given[j].id] = x.labels[given[j].id]
      BY <1>3, <3>3 DEF Grows
    <3> QED BY <1>6, <1>10, <2>1, <3>1, <3>2, <3>4
  <2>2. CASE j = m
    <3>1. given[j] = item /\ j - 1 = n
      BY <1>5, <1>8, <2>2
    <3>2. /\ item.id \in DOMAIN y.labels
          /\ \E e \in 1..Len(y.edges) : y.edges[e] = <<target, item.id>>
      BY <1>3, <1>10, <3>1
    <3>3. CASE item.id \in DOMAIN x.labels
      <4>1. y.labels[item.id] = x.labels[item.id]
        BY <1>3, <3>3 DEF Grows
      <4> QED BY <1>6, <3>1, <3>2, <3>3, <4>1
    <3>4. CASE item.id \notin DOMAIN x.labels
      BY <1>3, <3>1, <3>2, <3>4
    <3> QED BY <3>3, <3>4
  <2> QED BY <1>5, <2>1, <2>2
<1> HIDE DEF DrawnGraphs
<1>11. DrawnUpTo(target, given, graph, m, y)
  BY <1>3, <1>4, <1>9, <1>10 DEF DrawnUpTo
<1> QED BY <1>11 DEF y, m, item

LEMMA DrawnFacts ==
  ASSUME NEW target \in Targets, NEW given \in Seq(Items),
         NEW graph \in DrawnGraphs
  PROVE  DrawnUpTo(target, given, graph, Len(given),
                   Drawn(target, given, graph))
<1> DEFINE m == Len(given)
<1>1. PICK after \in [0..m -> DrawnGraphs] :
        /\ after[0] = graph
        /\ \A n \in 1..m : after[n] = Draw(target, given[n], after[n - 1])
        /\ Drawn(target, given, graph) = after[m]
  BY DrawnStepByStep
<1> DEFINE good ==
             {n \in 0..m : DrawnUpTo(target, given, graph, n, after[n])}
<1>2. m \in Nat
  OBVIOUS
<1>3. 0 \in good
  <2>1. Grows(graph, graph)
    <3>1. Len(graph.edges) \in Nat
      BY GraphTypes
    <3> QED BY <3>1 DEF Grows
  <2>2. DrawnUpTo(target, given, graph, 0, graph)
    BY <2>1 DEF DrawnUpTo, HadLabel
  <2> QED BY <1>1, <1>2, <2>2
<1>4. ASSUME NEW n \in 0..m, n # m, n \in good PROVE n + 1 \in good
  <2>1. /\ n \in Nat /\ n + 1 <= Len(given) /\ n + 1 \in 1..m
        /\ n + 1 - 1 = n /\ n + 1 \in 0..m
    BY <1>2, <1>4
  <2>2. DrawnUpTo(target, given, graph, n, after[n])
    BY <1>4
  <2>3. after[n + 1] = Draw(target, given[n + 1], after[n])
    BY <1>1, <2>1
  <2>4. DrawnUpTo(target, given, graph, n + 1, after[n + 1])
    BY <2>1, <2>2, <2>3, DrawnOneMore
  <2> QED BY <2>1, <2>4
<1> HIDE DEF good
<1>5. 0..m \subseteq good
  BY <1>2, <1>3, <1>4, BoundedInduction
<1>6. DrawnUpTo(target, given, graph, m, after[m])
  BY <1>2, <1>5 DEF good
<1> QED BY <1>1, <1>6

-----------------------------------------------------------------------------
(* LabelledBefore and FusionsAreSound say the same of a list of fusions. *)

LabelledIn(f, i, k, label) ==
  \E m \in 1..i : \E n \in DOMAIN f[m].given :
    /\ m < i \/ n < k
    /\ f[m].given[n].id = f[i].given[k].id
    /\ label = LabelOf(f[m].target, f[m].given[n])

Reports(f, i) ==
  \A r \in f[i].relationships : \E k \in DOMAIN f[i].given :
    LET id == f[i].given[k].id IN
      /\ f[i].given[k].name = r[2]
      /\ \E e \in DOMAIN f[i].graph.edges : f[i].graph.edges[e] = <<r[1], id>>
      /\ id \in DOMAIN f[i].graph.labels
      /\ \/ f[i].graph.labels[id] = r[2]
         \/ LabelledIn(f, i, k, f[i].graph.labels[id])

Escalates(g) ==
  "escalate" \in g.advice <=>
    \E k \in DOMAIN g.given :
      /\ <<g.target, g.given[k].name>> \in g.relationships
      /\ g.given[k].kind = "FININT" /\ "sanctioned" \in g.given[k].marks

Fused ==
  [target : Targets, given : Given, graph : DrawnGraphs,
   relationships : SUBSET (Targets \X STRING),
   advice : SUBSET {"escalate", "block", "locate", "forensics"}]

SoundFusions(f) ==
  \A i \in 1..Len(f) :
    /\ Reports(f, i) /\ Escalates(f[i])
    /\ \A j \in 1..(i - 1) : Grows(f[j].graph, f[i].graph)

LEMMA LabelledBeforeIs ==
  ASSUME NEW i, NEW k, NEW label
  PROVE  LabelledBefore(i, k, label) <=> LabelledIn(fusions, i, k, label)
<1>1. ASSUME LabelledBefore(i, k, label)
      PROVE  LabelledIn(fusions, i, k, label)
  <2>1. PICK b \in Before(i, k) :
          /\ b.item.id = fusions[i].given[k].id
          /\ label = LabelOf(b.target, b.item)
    BY <1>1 DEF LabelledBefore, LabelOf
  <2>2. PICK m \in 1..i : \E n \in DOMAIN fusions[m].given :
          /\ m < i \/ n < k
          /\ b = [target |-> fusions[m].target, item |-> fusions[m].given[n]]
    BY DEF Before
  <2> QED BY <2>1, <2>2 DEF LabelledIn
<1>2. ASSUME LabelledIn(fusions, i, k, label)
      PROVE  LabelledBefore(i, k, label)
  <2>1. PICK m \in 1..i : \E n \in DOMAIN fusions[m].given :
          /\ m < i \/ n < k
          /\ fusions[m].given[n].id = fusions[i].given[k].id
          /\ label = LabelOf(fusions[m].target, fusions[m].given[n])
    BY <1>2 DEF LabelledIn
  <2>2. PICK n \in DOMAIN fusions[m].given :
          /\ m < i \/ n < k
          /\ fusions[m].given[n].id = fusions[i].given[k].id
          /\ label = LabelOf(fusions[m].target, fusions[m].given[n])
    BY <2>1
  <2> DEFINE b == [target |-> fusions[m].target, item |-> fusions[m].given[n]]
  <2>3. b \in Before(i, k)
    BY <2>2 DEF Before
  <2>4. b.item = fusions[m].given[n] /\ b.target = fusions[m].target
    OBVIOUS
  <2> HIDE DEF b
  <2> QED BY <2>2, <2>3, <2>4 DEF LabelledBefore, LabelOf
<1> QED BY <1>1, <1>2

LEMMA GivenTypes ==
  ASSUME NEW given \in Given
  PROVE  /\ given \in Seq(Items) /\ Len(given) \in Nat
         /\ DOMAIN given = 1..Len(given)
         /\ \A k \in 1..Len(given) : given[k] \in Items
<1>1. PICK n \in 0..MaxItems : given \in [1..n -> Items]
  BY DEF Given
<1>2. n \in Nat
  BY FusionAssumption
<1>3. given \in Seq(Items)
  BY <1>1, <1>2, SeqDef
<1> QED BY <1>1, <1>3

LEMMA FusedTypes ==
  ASSUME NEW g \in Fused
  PROVE  /\ g.target \in Targets /\ g.given \in Given
         /\ g.graph \in DrawnGraphs
         /\ g.relationships \subseteq Targets \X STRING
  BY DEF Fused

LEMMA SoundMeans ==
  ASSUME fusions \in Seq(Fused), SoundFusions(fusions)
  PROVE  FusionsAreSound
<1>1. DOMAIN fusions = 1..Len(fusions) /\ Len(fusions) \in Nat
  OBVIOUS
<1>2. ASSUME NEW i \in DOMAIN fusions, NEW r \in fusions[i].relationships
      PROVE  \E k \in DOMAIN fusions[i].given :
               LET id == fusions[i].given[k].id IN
               /\ fusions[i].given[k].name = r[2]
               /\ \E e \in DOMAIN fusions[i].graph.edges :
                    fusions[i].graph.edges[e] = <<r[1], id>>
               /\ id \in DOMAIN fusions[i].graph.labels
               /\ \/ fusions[i].graph.labels[id] = r[2]
                  \/ LabelledBefore(i, k, fusions[i].graph.labels[id])
  <2>1. Reports(fusions, i)
    BY <1>1, <1>2 DEF SoundFusions
  <2> QED BY <1>2, <2>1, LabelledBeforeIs DEF Reports
<1>3. ASSUME NEW i \in DOMAIN fusions, NEW j \in 1..(i - 1)
      PROVE  /\ \A n \in DOMAIN fusions[j].graph.labels :
                  /\ n \in DOMAIN fusions[i].graph.labels
                  /\ fusions[i].graph.labels[n] = fusions[j].graph.labels[n]
             /\ \A e \in DOMAIN fusions[j].graph.edges :
                  /\ e \in DOMAIN fusions[i].graph.edges
                  /\ fusions[i].graph.edges[e] = fusions[j].graph.edges[e]
  <2>1. Grows(fusions[j].graph, fusions[i].graph)
    BY <1>1, <1>3 DEF SoundFusions
  <2>2. j \in 1..Len(fusions) /\ i \in 1..Len(fusions)
    BY <1>1, <1>3
  <2>3. fusions[j].graph \in DrawnGraphs /\ fusions[i].graph \in DrawnGraphs
    BY <2>2, FusedTypes, ElementOfSeq
  <2> DEFINE x == fusions[j].graph
             y == fusions[i].graph
  <2> HIDE DEF x, y
  <2>4. x \in DrawnGraphs /\ y \in DrawnGraphs /\ Grows(x, y)
    BY <2>1, <2>3 DEF x, y
  <2>5. /\ Len(x.edges) \in Nat /\ Len(y.edges) \in Nat
        /\ DOMAIN x.edges = 1..Len(x.edges) /\ DOMAIN y.edges = 1..Len(y.edges)
    BY <2>4, GraphTypes
  <2>6. /\ \A n \in DOMAIN x.labels :
             n \in DOMAIN y.labels /\ y.labels[n] = x.labels[n]
        /\ \A e \in DOMAIN x.edges :
             e \in DOMAIN y.edges /\ y.edges[e] = x.edges[e]
    BY <2>4, <2>5 DEF Grows
  <2> QED BY <2>6 DEF x, y
<1>4. ASSUME NEW i \in DOMAIN fusions PROVE Escalates(fusions[i])
  BY <1>1, <1>4 DEF SoundFusions
<1> QED BY <1>2, <1>3, <1>4 DEF FusionsAreSound, Escalates

-----------------------------------------------------------------------------
(* Every label of the graph was given by an item of some fusion, and the   *)
(* graph of every fusion is still a part of it.                            *)
FusionInv ==
  /\ [labels |-> labels, edges |-> edges] \in DrawnGraphs
  /\ fusions \in Seq(Fused)
  /\ \A id \in DOMAIN labels : \E m \in 1..Len(fusions) :
       LabelFrom(fusions[m].target, fusions[m].given, Len(fusions[m].given),
                 id, labels[id])
  /\ \A i \in 1..Len(fusions) :
       Grows(fusions[i].graph, [labels |-> labels, edges |-> edges])
  /\ SoundFusions(fusions)

LEMMA FusionInitHolds == FusionInit => FusionInv
<1> SUFFICES ASSUME FusionInit PROVE FusionInv
  OBVIOUS
<1>1. labels = << >> /\ edges = << >> /\ fusions = << >>
  BY DEF FusionInit
<1>2. << >> \in [{} -> STRING \cup Targets] /\ << >> \in Seq(Edge)
  OBVIOUS
<1>3. [labels |-> labels, edges |-> edges] \in DrawnGraphs
  BY <1>1, <1>2, GraphOf
<1>4. fusions \in Seq(Fused) /\ 1..Len(fusions) = {} /\ DOMAIN labels = {}
  BY <1>1
<1> QED BY <1>3, <1>4 DEF FusionInv, SoundFusions

(* The new fusion is about graph, and found old. *)
NewFusion(target, given, old) ==
  [target |-> target, given |-> given, graph |-> Drawn(target, given, old),
   relationships |-> Relationships(target, given),
   advice |-> GenerateRecommendations(given)]

FusesTo(target, given, old, g) ==
  /\ g \in Fused /\ Escalates(g) /\ Grows(old, g.graph)
  /\ g.target = target /\ g.given = given
  /\ g.relationships = Relationships(target, given)
  /\ DrawnUpTo(target, given, old, Len(given), g.graph)

LEMMA NewFusionFacts ==
  ASSUME NEW target \in Targets, NEW given \in Given, NEW old \in DrawnGraphs
  PROVE  FusesTo(target, given, old, NewFusion(target, given, old))
<1> DEFINE g == NewFusion(target, given, old)
<1>1. /\ given \in Seq(Items) /\ Len(given) \in Nat
      /\ DOMAIN given = 1..Len(given)
      /\ \A k \in 1..Len(given) : given[k] \in Items
  BY GivenTypes
<1>2. DrawnUpTo(target, given, old, Len(given), Drawn(target, given, old))
  BY <1>1, DrawnFacts
<1>3. /\ Drawn(target, given, old) \in DrawnGraphs
      /\ Grows(old, Drawn(target, given, old))
  BY <1>2 DEF DrawnUpTo
<1>4. Relationships(target, given) \subseteq Targets \X STRING
  BY <1>1, ItemTypes DEF Relationships
<1>5. GenerateRecommendations(given) \subseteq
        {"escalate", "block", "locate", "forensics"}
  BY DEF GenerateRecommendations
<1>6. g \in Fused
  BY <1>3, <1>4, <1>5 DEF Fused, NewFusion
<1>7. "escalate" \in GenerateRecommendations(given) <=>
        Marked(given, "FININT", "sanctioned") # {}
  <2>1. "sanctions" \in AssessThreat(given) <=>
          Marked(given, "FININT", "sanctioned") # {}
    BY DEF AssessThreat
  <2> QED BY <2>1 DEF GenerateRecommendations
<1>8. \A k \in DOMAIN given :
        given[k].kind = "FININT" /\ "sanctioned" \in given[k].marks =>
          <<target, given[k].name>> \in Relationships(target, given)
  BY DEF Relationships, Linked
<1>9. Escalates(g)
  BY <1>7, <1>8 DEF Escalates, NewFusion, Marked
<1>10. /\ g.graph = Drawn(target, given, old) /\ g.target = target
       /\ g.given = given
  BY DEF NewFusion
<1> HIDE DEF g
<1>11. /\ DrawnUpTo(target, given, old, Len(given), g.graph)
       /\ Grows(old, g.graph)
  BY <1>2, <1>3, <1>10
<1>12. g.relationships = Relationships(target, given)
  BY DEF g, NewFusion
<1> QED BY <1>6, <1>9, <1>10, <1>11, <1>12 DEF g, FusesTo

LEMMA FuseKeeps ==
  ASSUME FusionInv, NEW target \in Targets, NEW given \in Given,
         Fuse(target, given)
  PROVE  FusionInv'
<1> DEFINE old == [labels |-> labels, edges |-> edges]
           g == NewFusion(target, given, old)
           n == Len(fusions)
<1>1. /\ old \in DrawnGraphs /\ fusions \in Seq(Fused) /\ n \in Nat
      /\ \A i \in 1..n : Grows(fusions[i].graph, old)
      /\ SoundFusions(fusions)
  BY DEF FusionInv
<1>2. /\ labels' = g.graph.labels /\ edges' = g.graph.edges
      /\ fusions' = Append(fusions, g)
  BY DEF Fuse, NewFusion
<1>3. FusesTo(target, given, old, g)
  <2> HIDE DEF old
  <2> QED BY <1>1, NewFusionFacts
<1> HIDE DEF g
<1>4. /\ g \in Fused /\ Escalates(g) /\ Grows(old, g.graph)
      /\ g.target = target /\ g.given = given
      /\ g.relationships = Relationships(target, given)
      /\ DrawnUpTo(target, given, old, Len(given), g.graph)
      /\ g.graph \in DrawnGraphs
  BY <1>3 DEF FusesTo, DrawnUpTo
<1>5. [labels |-> labels', edges |-> edges'] = g.graph
  BY <1>2, <1>4, GraphTypes
<1>6. /\ fusions' \in Seq(Fused) /\ Len(fusions') = n + 1
      /\ fusions'[n + 1] = g
      /\ \A i \in 1..n : fusions'[i] = fusions[i]
  BY <1>1, <1>2, <1>4
<1>7. /\ DOMAIN given = 1..Len(given) /\ Len(given) \in Nat
      /\ \A i \in 1..(n + 1) : i \in 1..n \/ i = n + 1
      /\ \A i \in 1..n : i \in 1..(n + 1) /\ i < n + 1
      /\ n + 1 \in 1..(n + 1)
  BY <1>1, GivenTypes
<1>8. \A id \in DOMAIN old.labels : \E m \in 1..n :
        LabelFrom(fusions[m].target, fusions[m].given, Len(fusions[m].given),
                  id, old.labels[id])
  BY DEF FusionInv
<1>9. \A i \in 1..n : fusions[i] \in Fused
  BY <1>1, ElementOfSeq
<1> DEFINE f2 == fusions'
<1> HIDE DEF n, old
<1>10. \A i \in 1..(n + 1) : Grows(f2[i].graph, g.graph)
  <2> TAKE i \in 1..(n + 1)
  <2>1. CASE i \in 1..n
    <3>1. fusions[i].graph \in DrawnGraphs
      BY <1>9, <2>1, FusedTypes
    <3> QED BY <1>1, <1>4, <1>6, <2>1, <3>1, GrowsOn
  <2>2. CASE i = n + 1
    <3>1. Len(g.graph.edges) \in Nat
      BY <1>4, GraphTypes
    <3> QED BY <1>6, <2>2, <3>1 DEF Grows
  <2> QED BY <1>7, <2>1, <2>2
<1>11. ASSUME NEW id \in DOMAIN g.graph.labels
       PROVE  \E m \in 1..(n + 1) :
                LabelFrom(f2[m].target, f2[m].given, Len(f2[m].given), id,
                          g.graph.labels[id])
  <2>1. CASE HadLabel(old, id, g.graph.labels[id])
    <3>1. PICK m \in 1..n :
            LabelFrom(fusions[m].target, fusions[m].given,
                      Len(fusions[m].given), id, old.labels[id])
      BY <1>8, <2>1 DEF HadLabel
    <3> QED BY <1>6, <1>7, <2>1, <3>1 DEF HadLabel
  <2>2. CASE LabelFrom(target, given, Len(given), id, g.graph.labels[id])
    BY <1>4, <1>6, <1>7, <2>2
  <2> QED BY <1>4, <2>1, <2>2 DEF DrawnUpTo
<1>12. ASSUME NEW i \in 1..n PROVE Reports(f2, i)
  <2>1. Reports(fusions, i)
    BY <1>1, <1>12 DEF SoundFusions, n
  <2>2. \A m \in 1..i : f2[m] = fusions[m]
    BY <1>1, <1>6, <1>12
  <2>3. f2[i] = fusions[i]
    BY <1>6, <1>12
  <2> HIDE DEF f2
  <2>4. \A k, label :
          LabelledIn(f2, i, k, label) <=> LabelledIn(fusions, i, k, label)
    BY <2>2, <2>3 DEF LabelledIn
  <2> QED BY <2>1, <2>3, <2>4 DEF Reports
<1>13. Reports(f2, n + 1)
  <2> HIDE DEF f2
  <2> SUFFICES ASSUME NEW r \in g.relationships
               PROVE  \E k \in DOMAIN given :
                 /\ given[k].name = r[2]
                 /\ \E e \in DOMAIN g.graph.edges :
                      g.graph.edges[e] = <<r[1], given[k].id>>
                 /\ given[k].id \in DOMAIN g.graph.labels
                 /\ \/ g.graph.labels[given[k].id] = r[2]
                    \/ LabelledIn(f2, n + 1, k, g.graph.labels[given[k].id])
    BY <1>4, <1>6 DEF Reports, f2
  <2>1. PICK k \in DOMAIN given :
          Linked(given[k]) /\ r = <<target, given[k].name>>
    BY <1>4 DEF Relationships
  <2>2. /\ k \in 1..Len(given) /\ r[1] = target /\ r[2] = given[k].name
    BY <1>7, <2>1
  <2>3. /\ \E e \in 1..Len(g.graph.edges) :
             g.graph.edges[e] = <<target, given[k].id>>
        /\ given[k].id \in DOMAIN g.graph.labels
        /\ \/ g.graph.labels[given[k].id] = LabelOf(target, given[k])
           \/ HadLabel(old, given[k].id, g.graph.labels[given[k].id])
           \/ LabelFrom(target, given, k - 1, given[k].id,
                        g.graph.labels[given[k].id])
    BY <1>4, <2>1, <2>2 DEF DrawnUpTo
  <2>4. DOMAIN g.graph.edges = 1..Len(g.graph.edges)
    BY <1>4, GraphTypes
  <2> DEFINE id == given[k].id
             label == g.graph.labels[id]
  <2>5. LabelOf(target, given[k]) = given[k].name
    BY <2>1 DEF LabelOf, Linked
  <2>6. f2[n + 1] = g /\ \A m \in 1..n : f2[m] = fusions[m]
    BY <1>6 DEF f2
  <2>7. ASSUME HadLabel(old, id, label) PROVE LabelledIn(f2, n + 1, k, label)
    <3>1. PICK m \in 1..n :
            LabelFrom(fusions[m].target, fusions[m].given,
                      Len(fusions[m].given), id, label)
      BY <1>8, <2>7 DEF HadLabel
    <3>2. PICK j \in 1..Len(fusions[m].given) :
            /\ fusions[m].given[j].id = id
            /\ label = LabelOf(fusions[m].target, fusions[m].given[j])
      BY <3>1 DEF LabelFrom
    <3>3. j \in DOMAIN fusions[m].given
      BY <1>9, <3>2, FusedTypes, GivenTypes
    <3>4. m \in 1..(n + 1) /\ m < n + 1 /\ f2[m] = fusions[m]
      BY <1>7, <2>6
    <3> HIDE DEF label
    <3> QED BY <1>4, <2>6, <3>2, <3>3, <3>4 DEF LabelledIn
  <2>8. ASSUME LabelFrom(target, given, k - 1, id, label)
        PROVE  LabelledIn(f2, n + 1, k, label)
    <3>1. PICK j \in 1..(k - 1) :
            given[j].id = id /\ label = LabelOf(target, given[j])
      BY <2>8 DEF LabelFrom
    <3>2. j \in DOMAIN given /\ j < k
      BY <1>7, <2>2, <3>1
    <3> HIDE DEF label
    <3> QED BY <1>4, <1>7, <2>6, <3>1, <3>2 DEF LabelledIn
  <2> QED BY <2>1, <2>2, <2>3, <2>4, <2>5, <2>7, <2>8
<1>14. SoundFusions(f2)
  <2>1. Len(f2) = n + 1
    BY <1>6
  <2>2. ASSUME NEW i \in 1..(n + 1)
        PROVE  /\ Reports(f2, i) /\ Escalates(f2[i])
               /\ \A j \in 1..(i - 1) : Grows(f2[j].graph, f2[i].graph)
    <3>1. CASE i \in 1..n
      <4>1. /\ Escalates(fusions[i])
            /\ \A j \in 1..(i - 1) : Grows(fusions[j].graph, fusions[i].graph)
        BY <1>1, <3>1 DEF SoundFusions, n
      <4>2. \A j \in 1..(i - 1) : j \in 1..n
        BY <1>1, <3>1
      <4>3. Reports(f2, i)
        BY <1>12, <3>1
      <4>4. f2[i] = fusions[i] /\ \A j \in 1..(i - 1) : f2[j] = fusions[j]
        BY <1>6, <3>1, <4>2
      <4> HIDE DEF f2
      <4> QED BY <4>1, <4>3, <4>4
    <3>2. CASE i = n + 1
      <4>1. f2[i] = g /\ \A j \in 1..(i - 1) : j \in 1..(n + 1)
        BY <1>1, <1>6, <3>2
      <4>2. Reports(f2, i)
        BY <1>13, <3>2
      <4>3. \A j \in 1..(i - 1) : Grows(f2[j].graph, g.graph)
        BY <1>10, <4>1
      <4> HIDE DEF f2
      <4> QED BY <1>4, <4>1, <4>2, <4>3
    <3> QED BY <1>7, <3>1, <3>2
  <2> HIDE DEF f2
  <2> QED BY <2>1, <2>2 DEF SoundFusions
<1>15. SoundFusions(fusions')
  BY <1>14
<1> QED
  BY <1>2, <1>4, <1>5, <1>6, <1>10, <1>11, <1>15 DEF FusionInv

LEMMA FusionStepHolds == FusionInv /\ [FusionNext]_fusionVars => FusionInv'
<1> SUFFICES ASSUME FusionInv, [FusionNext]_fusionVars PROVE FusionInv'
  OBVIOUS
<1>1. CASE UNCHANGED fusionVars
  BY <1>1 DEF fusionVars, FusionInv
<1>2. CASE FusionNext
  BY <1>2, FuseKeeps DEF FusionNext
<1> QED BY <1>1, <1>2

(* For any items, targets and number of fusions: whatever a fusion reports *)
(* as a relationship is in its graph, nothing that an earlier fusion drew  *)
(* is lost or renamed, and compliance is alerted when it has to be.        *)
THEOREM FusionsAlwaysSound == FusionSpec => []FusionsAreSound
<1>1. FusionInv => FusionsAreSound
  BY SoundMeans DEF FusionInv
<1> QED
  BY <1>1, FusionInitHolds, FusionStepHolds, PTL DEF FusionSpec

LEMMA FusionTypes == FusionInv => FusionTypeOK
<1> SUFFICES ASSUME FusionInv PROVE FusionTypeOK
  OBVIOUS
<1> DEFINE graph == [labels |-> labels, edges |-> edges]
<1>1. graph \in DrawnGraphs /\ graph.labels = labels /\ graph.edges = edges
  BY DEF FusionInv
<1> HIDE DEF graph
<1>2. DOMAIN labels \subseteq NodeIds /\ edges \in Seq(Edge)
  BY <1>1, GraphTypes
<1>3. ASSUME NEW i \in DOMAIN fusions
      PROVE  /\ fusions[i].target \in Targets /\ fusions[i].given \in Given
             /\ DOMAIN fusions[i].graph.labels \subseteq NodeIds
             /\ fusions[i].graph.edges \in Seq(Edge)
  <2>1. fusions[i] \in Fused
    BY DEF FusionInv
  <2> QED BY <2>1, FusedTypes, GraphTypes
<1> QED BY <1>2, <1>3 DEF FusionTypeOK

-----------------------------------------------------------------------------
(* The searches of the graph of Fusion. *)

(* The paths of n nodes that a search from start holds in its n-th round,  *)
(* when it extends those in open.                                          *)
Search(f, list, start, open) ==
  /\ f \in [Nat -> SUBSET Seq(NodeIds)]
  /\ f[1] = {<<start>>}
  /\ \A n \in Nat \ {0} :
       f[n + 1] = UNION {Steps(list, p) : p \in f[n] \cap open}

(* The paths that get_all_paths_from extends, and those of find_paths.     *)
Shorter(depth) == {p \in Seq(NodeIds) : Len(p) < depth}

Wanted(end, depth) ==
  {p \in Seq(NodeIds) : Len(p) <= depth /\ (p[Len(p)] # end \/ Len(p) = 1)}

LEMMA StepsAreNodes ==
  ASSUME NEW list \in Seq(Edge), NEW p \in Seq(NodeIds)
  PROVE  Steps(list, p) \subseteq Seq(NodeIds)
<1>1. ASSUME NEW i \in DOMAIN list
      PROVE  list[i][1] \in NodeIds /\ list[i][2] \in NodeIds
  <2>1. list[i] \in Edge
    BY ElementOfSeq
  <2> QED BY <2>1 DEF Edge
<1>2. Neighbours(list, p[Len(p)]) \subseteq NodeIds
  BY <1>1 DEF Neighbours
<1> QED BY <1>2 DEF Steps

(* The rounds of such a search, by recursion.                              *)
ByRounds(f, list, start, open) ==
  f = [n \in Nat |->
         IF n <= 1 THEN {<<start>>}
         ELSE UNION {Steps(list, p) : p \in f[n - 1] \cap open}]

LEMMA RoundsExist ==
  ASSUME NEW list \in Seq(Edge), NEW start \in NodeIds, NEW open
  PROVE  \E f \in [Nat -> SUBSET Seq(NodeIds)] :
           ByRounds(f, list, start, open)
<1> DEFINE S == SUBSET Seq(NodeIds)
           one == {<<start>>}
           onward(x) == UNION {Steps(list, p) : p \in x \cap open}
           rule == [n \in Nat |->
                      [x \in S |-> IF n <= 1 THEN one ELSE onward(x)]]
<1>1. one \in S
  OBVIOUS
<1>2. ASSUME NEW x \in S PROVE onward(x) \in S
  BY StepsAreNodes
<1> HIDE DEF one, onward, S
<1>3. rule \in Rules(Nat, S)
  BY <1>1, <1>2 DEF Rules
<1>4. \A n \in Nat, x \in S :
        rule[n][x] = IF n <= 1 THEN one ELSE onward(x)
  OBVIOUS
<1> HIDE DEF rule
<1>5. PICK f \in [Nat -> S] : Follows(f, one, rule)
  BY <1>1, <1>3, RecursiveOnNat
<1>6. ASSUME NEW n \in Nat
      PROVE  f[n] = IF n <= 1 THEN one ELSE onward(f[n - 1])
  <2>1. CASE n = 0
    BY <1>5, <2>1 DEF Follows
  <2>2. CASE n # 0
    <3>1. n - 1 \in Nat /\ n - 1 + 1 = n
      BY <2>2
    <3>2. f[n] = rule[n][f[n - 1]]
      BY <1>5, <3>1 DEF Follows
    <3>3. f[n - 1] \in S
      BY <1>5, <3>1
    <3> QED BY <1>4, <3>2, <3>3
  <2> QED BY <2>1, <2>2
<1>7. f = [n \in Nat |-> IF n <= 1 THEN one ELSE onward(f[n - 1])]
  BY <1>5, <1>6
<1>8. ByRounds(f, list, start, open)
  BY <1>7 DEF ByRounds, one, onward
<1> QED BY <1>5, <1>8 DEF S

LEMMA RoundsSearch ==
  ASSUME NEW list \in Seq(Edge), NEW start \in NodeIds, NEW open, NEW f,
         ByRounds(f, list, start, open)
  PROVE  Search(f, list, start, open)
<1> DEFINE onward(x) == UNION {Steps(list, p) : p \in x \cap open}
           S == SUBSET Seq(NodeIds)
           good == {n \in Nat : f[n] \in S /\ f[n + 1] \in S}
<1>1. \A n \in Nat : f[n] = IF n <= 1 THEN {<<start>>} ELSE onward(f[n - 1])
  <2>1. f = [n \in Nat |-> IF n <= 1 THEN {<<start>>} ELSE onward(f[n - 1])]
    BY DEF ByRounds
  <2> HIDE DEF onward
  <2> QED BY <2>1
<1>2. {<<start>>} \in S
  OBVIOUS
<1>3. ASSUME NEW x \in S PROVE onward(x) \in S
  BY StepsAreNodes
<1> HIDE DEF onward, S
<1>4. /\ f[0] = {<<start>>} /\ f[1] = {<<start>>}
      /\ \A n \in Nat \ {0} : f[n + 1] = onward(f[n])
  <2>1. ASSUME NEW n \in Nat \ {0} PROVE f[n + 1] = onward(f[n])
    <3> DEFINE k == n + 1
    <3>1. k \in Nat /\ ~(k <= 1) /\ k - 1 = n
      OBVIOUS
    <3> HIDE DEF k
    <3>2. f[k] = onward(f[k - 1])
      BY <1>1, <3>1
    <3>3. f[k] = onward(f[n])
      BY <3>1, <3>2
    <3> QED BY <3>3 DEF k
  <2>2. f[0] = {<<start>>} /\ f[1] = {<<start>>}
    BY <1>1
  <2> QED BY <2>1, <2>2
<1>5. 0 \in good
  <2>1. 0 + 1 = 1 /\ f[0] \in S /\ f[1] \in S
    BY <1>2, <1>4
  <2> QED BY <2>1
<1>6. ASSUME NEW n \in Nat, n \in good PROVE n + 1 \in good
  <2>1. n + 1 \in Nat \ {0} /\ f[n + 1] \in S
    BY <1>6
  <2>2. f[n + 1 + 1] = onward(f[n + 1])
    BY <1>4, <2>1
  <2> QED BY <1>3, <2>1, <2>2
<1>7. ASSUME NEW n \in Nat PROVE f[n] \in S
  <2> HIDE DEF good
  <2>1. Nat \subseteq good
    BY <1>5, <1>6, SetInduction
  <2> QED BY <2>1 DEF good
<1>8. DOMAIN f = Nat /\ f = [n \in Nat |-> f[n]]
  BY DEF ByRounds
<1>9. f \in [Nat -> S]
  BY <1>7, <1>8
<1> QED BY <1>4, <1>9 DEF Search, S, onward

(* What FindPaths and GetAllPathsFrom choose are such searches.            *)
LEMMA StackSearches ==
  ASSUME NEW list \in Seq(Edge), NEW start \in NodeIds, NEW depth \in Nat
  PROVE  \E f : /\ Search(f, list, start, Shorter(depth))
                /\ GetAllPathsFrom(list, start, depth) =
                     {p \in UNION {f[n] : n \in 1..(depth + 1)} : Len(p) > 1}
<1> DEFINE body(f) ==
             [n \in Nat |->
                IF n <= 1 THEN {<<start>>}
                ELSE UNION {Steps(list, p) :
                              p \in {p \in f[n - 1] : Len(p) < depth}}]
           stack == CHOOSE f : f = body(f)
           open == Shorter(depth)
           rounds(f) ==
             [n \in Nat |->
                IF n <= 1 THEN {<<start>>}
                ELSE UNION {Steps(list, p) : p \in f[n - 1] \cap open}]
<1>1. GetAllPathsFrom(list, start, depth) =
        {p \in UNION {stack[n] : n \in 1..(depth + 1)} : Len(p) > 1}
  BY DEF GetAllPathsFrom
<1>2. \A x \in SUBSET Seq(NodeIds) :
        {p \in x : Len(p) < depth} = x \cap open
  BY DEF Shorter
<1> HIDE DEF open
<1>3. PICK f \in [Nat -> SUBSET Seq(NodeIds)] :
        ByRounds(f, list, start, open)
  BY RoundsExist
<1>4. f = body(f)
  <2>1. \A n \in Nat : ~(n <= 1) => f[n - 1] \in SUBSET Seq(NodeIds)
    OBVIOUS
  <2>2. rounds(f) = body(f)
    BY <1>2, <2>1
  <2>3. f = rounds(f)
    BY <1>3 DEF ByRounds
  <2> QED BY <2>2, <2>3
<1>5. stack = body(stack)
  <2> HIDE DEF body
  <2> QED BY <1>4, Zenon
<1>6. stack[0] = {<<start>>} /\ f[0] = {<<start>>}
  <2>1. 0 \in Nat /\ 0 <= 1
    OBVIOUS
  <2>2. body(stack)[0] = {<<start>>} /\ body(f)[0] = {<<start>>}
    BY <2>1
  <2> HIDE DEF body, stack
  <2> QED BY <1>4, <1>5, <2>2
<1>7. ASSUME NEW n \in Nat, stack[n] = f[n]
      PROVE  stack[n + 1] = f[n + 1]
  <2> DEFINE k == n + 1
  <2>1. k \in Nat /\ k - 1 = n
    OBVIOUS
  <2> HIDE DEF k
  <2>2. body(stack)[k] = body(f)[k]
    <3> HIDE DEF stack
    <3> QED BY <1>7, <2>1
  <2> HIDE DEF body, stack
  <2>3. stack[k] = f[k]
    BY <1>4, <1>5, <2>2
  <2> QED BY <2>3 DEF k
<1> HIDE DEF stack
<1> DEFINE same == {n \in Nat : stack[n] = f[n]}
<1>8. 0 \in same
  BY <1>6
<1>9. ASSUME NEW n \in Nat, n \in same PROVE n + 1 \in same
  BY <1>7, <1>9
<1> HIDE DEF same
<1>10. Nat \subseteq same
  BY <1>8, <1>9, SetInduction
<1>11. \A n \in 1..(depth + 1) : stack[n] = f[n]
  BY <1>10 DEF same
<1>12. GetAllPathsFrom(list, start, depth) =
         {p \in UNION {f[n] : n \in 1..(depth + 1)} : Len(p) > 1}
  BY <1>1, <1>11
<1>13. Search(f, list, start, open)
  BY <1>3, RoundsSearch
<1> QED BY <1>12, <1>13 DEF open

LEMMA QueueSearches ==
  ASSUME NEW list \in Seq(Edge), NEW start \in NodeIds, NEW end,
         NEW depth \in Nat
  PROVE  \E f : /\ Search(f, list, start, Wanted(end, depth))
                /\ FindPaths(list, start, end, depth) =
                     {p \in UNION {f[n] : n \in 1..(depth + 1)} :
                        Len(p) <= depth /\ p[Len(p)] = end /\ Len(p) > 1}
<1> DEFINE body(f) ==
             [n \in Nat |->
                IF n <= 1 THEN {<<start>>}
                ELSE UNION {Steps(list, p) :
                              p \in {p \in f[n - 1] :
                                       /\ Len(p) <= depth
                                       /\ (p[Len(p)] # end \/ Len(p) = 1)}}]
           queue == CHOOSE f : f = body(f)
           open == Wanted(end, depth)
           rounds(f) ==
             [n \in Nat |->
                IF n <= 1 THEN {<<start>>}
                ELSE UNION {Steps(list, p) : p \in f[n - 1] \cap open}]
<1>1. FindPaths(list, start, end, depth) =
        {p \in UNION {queue[n] : n \in 1..(depth + 1)} :
           Len(p) <= depth /\ p[Len(p)] = end /\ Len(p) > 1}
  BY DEF FindPaths
<1>2. \A x \in SUBSET Seq(NodeIds) :
        {p \in x : /\ Len(p) <= depth
                   /\ (p[Len(p)] # end \/ Len(p) = 1)} = x \cap open
  BY DEF Wanted
<1> HIDE DEF open
<1>3. PICK f \in [Nat -> SUBSET Seq(NodeIds)] :
        ByRounds(f, list, start, open)
  BY RoundsExist
<1>4. f = body(f)
  <2>1. \A n \in Nat : ~(n <= 1) => f[n - 1] \in SUBSET Seq(NodeIds)
    OBVIOUS
  <2>2. rounds(f) = body(f)
    BY <1>2, <2>1
  <2>3. f = rounds(f)
    BY <1>3 DEF ByRounds
  <2> QED BY <2>2, <2>3
<1>5. queue = body(queue)
  <2> HIDE DEF body
  <2> QED BY <1>4, Zenon
<1>6. queue[0] = {<<start>>} /\ f[0] = {<<start>>}
  <2>1. 0 \in Nat /\ 0 <= 1
    OBVIOUS
  <2>2. body(queue)[0] = {<<start>>} /\ body(f)[0] = {<<start>>}
    BY <2>1
  <2> HIDE DEF body, queue
  <2> QED BY <1>4, <1>5, <2>2
<1>7. ASSUME NEW n \in Nat, queue[n] = f[n]
      PROVE  queue[n + 1] = f[n + 1]
  <2> DEFINE k == n + 1
  <2>1. k \in Nat /\ k - 1 = n
    OBVIOUS
  <2> HIDE DEF k
  <2>2. body(queue)[k] = body(f)[k]
    <3> HIDE DEF queue
    <3> QED BY <1>7, <2>1
  <2> HIDE DEF body, queue
  <2>3. queue[k] = f[k]
    BY <1>4, <1>5, <2>2
  <2> QED BY <2>3 DEF k
<1> HIDE DEF queue
<1> DEFINE same == {n \in Nat : queue[n] = f[n]}
<1>8. 0 \in same
  BY <1>6
<1>9. ASSUME NEW n \in Nat, n \in same PROVE n + 1 \in same
  BY <1>7, <1>9
<1> HIDE DEF same
<1>10. Nat \subseteq same
  BY <1>8, <1>9, SetInduction
<1>11. \A n \in 1..(depth + 1) : queue[n] = f[n]
  BY <1>10 DEF same
<1>12. FindPaths(list, start, end, depth) =
         {p \in UNION {f[n] : n \in 1..(depth + 1)} :
           Len(p) <= depth /\ p[Len(p)] = end /\ Len(p) > 1}
  BY <1>1, <1>11
<1>13. Search(f, list, start, open)
  BY <1>3, RoundsSearch
<1> QED BY <1>12, <1>13 DEF open

(* A path of n nodes from start that passes none twice. *)
Simple(start, n, p) ==
  /\ p \in Seq(NodeIds) /\ Len(p) = n /\ p[1] = start
  /\ \A i, j \in 1..n : p[i] = p[j] => i = j

(* q is p and one node more, next to its last. *)
OneNodeOn(list, p, q, n) ==
  /\ q[n + 1] \in Neighbours(list, p[n])
  /\ \A i \in 1..n : q[i] = p[i] /\ q[n + 1] # p[i]

LEMMA OneStep ==
  ASSUME NEW list \in Seq(Edge), NEW start, NEW n \in Nat \ {0}, NEW p,
         Simple(start, n, p), NEW q \in Steps(list, p)
  PROVE  Simple(start, n + 1, q) /\ OneNodeOn(list, p, q, n)
<1>1. p \in Seq(NodeIds) /\ Len(p) = n /\ DOMAIN p = 1..n
  BY DEF Simple
<1>2. PICK x \in Neighbours(list, p[n]) \ {p[i] : i \in 1..n} :
        q = Append(p, x)
  BY <1>1 DEF Steps
<1>3. q \in Seq(NodeIds)
  BY <1>1, StepsAreNodes
<1>4. /\ Len(q) = n + 1 /\ q[n + 1] = x
      /\ \A i \in 1..n : q[i] = p[i]
  BY <1>1, <1>2
<1>5. \A i \in 1..n : x # p[i]
  BY <1>2
<1>6. 1 \in 1..n /\ \A i \in 1..(n + 1) : i \in 1..n \/ i = n + 1
  OBVIOUS
<1>7. \A i, j \in 1..n : p[i] = p[j] => i = j
  BY DEF Simple
<1>8. \A i, j \in 1..(n + 1) : q[i] = q[j] => i = j
  BY <1>4, <1>5, <1>6, <1>7
<1>9. q[1] = start
  BY <1>4, <1>6 DEF Simple
<1> QED BY <1>2, <1>3, <1>4, <1>5, <1>8, <1>9 DEF Simple, OneNodeOn

LEMMA FoundAreSimple ==
  ASSUME NEW list \in Seq(Edge), NEW start \in NodeIds, NEW open, NEW f,
         Search(f, list, start, open)
  PROVE  \A n \in Nat \ {0} : \A p \in f[n] : Simple(start, n, p)
<1> DEFINE good == {n \in Nat : \A p \in f[n + 1] : Simple(start, n + 1, p)}
<1>1. 0 \in good
  <2>1. f[0 + 1] = {<<start>>}
    BY DEF Search
  <2>2. /\ <<start>> \in Seq(NodeIds)
        /\ Len(<<start>>) = 1 /\ <<start>>[1] = start
    OBVIOUS
  <2>3. Simple(start, 0 + 1, <<start>>)
    BY <2>2 DEF Simple
  <2> QED BY <2>1, <2>3
<1>2. ASSUME NEW n \in Nat, n \in good PROVE n + 1 \in good
  <2> DEFINE k == n + 1
  <2>1. k \in Nat \ {0} /\ \A p \in f[k] : Simple(start, k, p)
    BY <1>2
  <2>2. f[k + 1] = UNION {Steps(list, p) : p \in f[k] \cap open}
    BY <2>1 DEF Search
  <2> HIDE DEF k
  <2>3. ASSUME NEW q \in f[k + 1] PROVE Simple(start, k + 1, q)
    <3>1. PICK p \in f[k] : q \in Steps(list, p)
      BY <2>2
    <3> QED BY <2>1, <3>1, OneStep
  <2>4. k \in good
    BY <2>1, <2>3
  <2> HIDE DEF good
  <2> QED BY <2>4 DEF k
<1> HIDE DEF good
<1>3. Nat \subseteq good
  BY <1>1, <1>2, SetInduction
<1>4. ASSUME NEW n \in Nat \ {0}, NEW p \in f[n] PROVE Simple(start, n, p)
  <2>1. n - 1 \in Nat /\ n - 1 + 1 = n
    OBVIOUS
  <2>2. n - 1 \in good
    BY <1>3, <2>1
  <2>3. \A r \in f[n - 1 + 1] : Simple(start, n - 1 + 1, r)
    BY <2>2 DEF good
  <2> QED BY <2>1, <2>3
<1> QED BY <1>4

(* No node on the way is end. *)
Avoids(p, n, end) == \A i \in 1..n : i # 1 /\ i # n => p[i] # end

LEMMA RoundsAgree ==
  ASSUME NEW list \in Seq(Edge), NEW start \in NodeIds, NEW end,
         NEW depth \in Nat, NEW queue, NEW stack,
         Search(queue, list, start, Wanted(end, depth)),
         Search(stack, list, start, Shorter(depth))
  PROVE  \A n \in 1..depth :
           /\ queue[n] \subseteq stack[n]
           /\ \A p \in stack[n] : Avoids(p, n, end) => p \in queue[n]
<1> DEFINE same(n) ==
             /\ queue[n] \subseteq stack[n]
             /\ \A p \in stack[n] : Avoids(p, n, end) => p \in queue[n]
           good == {n \in Nat : n + 1 <= depth => same(n + 1)}
<1>1. 0 \in good
  <2>1. queue[1] = {<<start>>} /\ stack[1] = {<<start>>} /\ 0 + 1 = 1
    BY DEF Search
  <2> QED BY <2>1
<1>2. ASSUME NEW n \in Nat, n \in good PROVE n + 1 \in good
  <2> DEFINE k == n + 1
  <2>1. k \in Nat \ {0}
    OBVIOUS
  <2>2. SUFFICES ASSUME k + 1 <= depth PROVE same(k + 1)
    BY <2>1
  <2>3. k <= depth /\ k < depth /\ same(k)
    BY <1>2, <2>1, <2>2
  <2> HIDE DEF k
  <2>4. /\ queue[k + 1] =
             UNION {Steps(list, p) : p \in queue[k] \cap Wanted(end, depth)}
        /\ stack[k + 1] =
             UNION {Steps(list, p) : p \in stack[k] \cap Shorter(depth)}
    BY <2>1 DEF Search
  <2>5. \A p \in stack[k] : Simple(start, k, p)
    BY <2>1, FoundAreSimple
  <2>6. ASSUME NEW q \in queue[k + 1] PROVE q \in stack[k + 1]
    <3>1. PICK p \in queue[k] : q \in Steps(list, p)
      BY <2>4
    <3>2. p \in stack[k] /\ Simple(start, k, p)
      BY <2>3, <2>5, <3>1
    <3>3. p \in Shorter(depth)
      BY <2>3, <3>2 DEF Simple, Shorter
    <3> QED BY <2>4, <3>1, <3>2, <3>3
  <2>7. ASSUME NEW q \in stack[k + 1], Avoids(q, k + 1, end)
        PROVE  q \in queue[k + 1]
    <3>1. PICK p \in stack[k] : q \in Steps(list, p)
      BY <2>4
    <3>2. Simple(start, k, p)
      BY <2>5
    <3>3. \A i \in 1..k : q[i] = p[i]
      <4>1. OneNodeOn(list, p, q, k)
        BY <2>1, <3>1, <3>2, OneStep
      <4> QED BY <4>1 DEF OneNodeOn
    <3>4. \A i \in 1..k : i # 1 => p[i] # end
      <4>1. \A i \in 1..k : i \in 1..(k + 1) /\ i # k + 1
        BY <2>1
      <4> QED BY <2>7, <3>3, <4>1 DEF Avoids
    <3>5. p \in queue[k]
      BY <2>3, <3>4 DEF Avoids
    <3>6. p \in Wanted(end, depth)
      <4>1. p \in Seq(NodeIds) /\ Len(p) = k
        BY <3>2 DEF Simple
      <4>2. k \in 1..k
        BY <2>1
      <4>3. p[Len(p)] # end \/ Len(p) = 1
        BY <3>4, <4>1, <4>2
      <4> QED BY <2>3, <4>1, <4>3 DEF Wanted
    <3> QED BY <2>4, <3>1, <3>5, <3>6
  <2> QED BY <2>6, <2>7
<1> HIDE DEF good
<1>3. Nat \subseteq good
  BY <1>1, <1>2, SetInduction
<1>4. ASSUME NEW n \in 1..depth PROVE same(n)
  <2>1. n - 1 \in Nat /\ n - 1 + 1 = n /\ n <= depth
    OBVIOUS
  <2>2. n - 1 \in good
    BY <1>3, <2>1
  <2>3. same(n - 1 + 1)
    BY <2>1, <2>2 DEF good
  <2> HIDE DEF same
  <2> QED BY <2>1, <2>3
<1> QED BY <1>4

(* The last round that can be extended is that of depth nodes. *)
LEMMA NoneIsLonger ==
  ASSUME NEW list \in Seq(Edge), NEW start \in NodeIds, NEW depth \in Nat,
         NEW f, Search(f, list, start, Shorter(depth)),
         NEW n \in 1..(depth + 1), NEW p \in f[n], n > 1
  PROVE  n \in 1..depth
<1>1. ASSUME n = depth + 1 PROVE FALSE
  <2>1. depth \in Nat \ {0}
    BY <1>1
  <2>2. f[depth + 1] =
          UNION {Steps(list, q) : q \in f[depth] \cap Shorter(depth)}
    BY <2>1 DEF Search
  <2>3. PICK q \in f[depth] \cap Shorter(depth) : p \in Steps(list, q)
    BY <1>1, <2>2
  <2>4. Simple(start, depth, q)
    BY <2>1, <2>3, FoundAreSimple
  <2>5. Len(q) = depth /\ Len(q) < depth
    BY <2>3, <2>4 DEF Simple, Shorter
  <2> QED BY <2>5
<1> QED BY <1>1

LEMMA PathsAgree ==
  ASSUME NEW list \in Seq(Edge), NEW start \in NodeIds, NEW end,
         NEW depth \in Nat
  PROVE  FindPaths(list, start, end, depth) =
           {p \in GetAllPathsFrom(list, start, depth) : p[Len(p)] = end}
<1>1. PICK queue : /\ Search(queue, list, start, Wanted(end, depth))
                   /\ FindPaths(list, start, end, depth) =
                        {p \in UNION {queue[n] : n \in 1..(depth + 1)} :
                           /\ Len(p) <= depth /\ p[Len(p)] = end
                           /\ Len(p) > 1}
  BY QueueSearches
<1>2. PICK stack : /\ Search(stack, list, start, Shorter(depth))
                   /\ GetAllPathsFrom(list, start, depth) =
                        {p \in UNION {stack[n] : n \in 1..(depth + 1)} :
                           Len(p) > 1}
  BY StackSearches
<1>3. \A n \in 1..depth :
        /\ queue[n] \subseteq stack[n]
        /\ \A p \in stack[n] : Avoids(p, n, end) => p \in queue[n]
  BY <1>1, <1>2, RoundsAgree
<1>4. /\ \A n \in Nat \ {0} : \A p \in queue[n] : Simple(start, n, p)
      /\ \A n \in Nat \ {0} : \A p \in stack[n] : Simple(start, n, p)
  BY <1>1, <1>2, FoundAreSimple
<1>5. ASSUME NEW p \in FindPaths(list, start, end, depth)
      PROVE  p \in GetAllPathsFrom(list, start, depth) /\ p[Len(p)] = end
  <2>1. PICK n \in 1..(depth + 1) : p \in queue[n]
    BY <1>1
  <2>2. Len(p) <= depth /\ p[Len(p)] = end /\ Len(p) > 1
    BY <1>1
  <2>3. n \in Nat \ {0}
    OBVIOUS
  <2>4. Len(p) = n
    BY <1>4, <2>1, <2>3 DEF Simple
  <2>5. n \in 1..depth
    BY <2>2, <2>4
  <2>6. p \in stack[n]
    BY <1>3, <2>1, <2>5
  <2> QED BY <1>2, <2>2, <2>6
<1>6. ASSUME NEW p \in GetAllPathsFrom(list, start, depth),
             p[Len(p)] = end
      PROVE  p \in FindPaths(list, start, end, depth)
  <2>1. PICK n \in 1..(depth + 1) : p \in stack[n]
    BY <1>2
  <2>2. Len(p) > 1
    BY <1>2
  <2>3. n \in Nat \ {0}
    OBVIOUS
  <2>4. Simple(start, n, p)
    BY <1>4, <2>1, <2>3
  <2>5. Len(p) = n /\ n > 1 /\ n \in 1..n /\ p[n] = end
    BY <1>6, <2>2, <2>3, <2>4 DEF Simple
  <2>6. n \in 1..depth
    BY <1>2, <2>1, <2>5, NoneIsLonger
  <2>7. \A i \in 1..n : i # n => p[i] # end
    BY <2>4, <2>5 DEF Simple
  <2>8. Avoids(p, n, end)
    BY <2>7 DEF Avoids
  <2>9. p \in queue[n]
    BY <1>3, <2>1, <2>6, <2>8
  <2> QED BY <1>1, <1>6, <2>5, <2>6, <2>9
<1> QED BY <1>5, <1>6

(* The nodes of the edges at one of S: S's neighbours, and S itself.       *)
LEMMA EndsAreNeighbours ==
  ASSUME NEW list, NEW nodes, NEW S, NEW x \in DOMAIN nodes
  PROVE  /\ x \in Ends(nodes, list, Touching(list, S)) =>
              x \in S \/ \E m \in S : x \in Neighbours(list, m)
         /\ (\E m \in S : x \in Neighbours(list, m)) =>
              x \in Ends(nodes, list, Touching(list, S))
<1>1. ASSUME x \in Ends(nodes, list, Touching(list, S)), x \notin S
      PROVE  \E m \in S : x \in Neighbours(list, m)
  <2>1. PICK i \in Touching(list, S), k \in {1, 2} : x = list[i][k]
    BY <1>1 DEF Ends
  <2>2. PICK j \in {1, 2} : i \in DOMAIN list /\ list[i][j] \in S
    BY DEF Touching
  <2>3. CASE j = 1
    <3>1. k = 2
      BY <1>1, <2>1, <2>2, <2>3
    <3> QED BY <2>1, <2>2, <2>3, <3>1 DEF Neighbours
  <2>4. CASE j = 2
    <3>1. k = 1
      BY <1>1, <2>1, <2>2, <2>4
    <3> QED BY <2>1, <2>2, <2>4, <3>1 DEF Neighbours
  <2> QED BY <2>3, <2>4
<1>2. ASSUME NEW m \in S, x \in Neighbours(list, m)
      PROVE  x \in Ends(nodes, list, Touching(list, S))
  <2>1. PICK i \in DOMAIN list : \/ x = list[i][2] /\ list[i][1] = m
                                 \/ x = list[i][1] /\ list[i][2] = m
    BY <1>2 DEF Neighbours
  <2>2. i \in Touching(list, S)
    BY <2>1 DEF Touching
  <2> QED BY <2>1, <2>2 DEF Ends
<1> QED BY <1>1, <1>2

LEMMA AppendOneMore ==
  ASSUME NEW S, NEW s \in Seq(S), NEW b \in S
  PROVE  /\ Len(Append(s, b)) = Len(s) + 1
         /\ \A i \in 1..Len(s) : Append(s, b)[i] = s[i]
         /\ Append(s, b)[Len(s) + 1] = b
BY AppendProperties

(* What get_all_paths_from finds at depth 3: paths of two nodes and of     *)
(* three.                                                                  *)
LEMMA PathsOfDepthThree ==
  ASSUME NEW list \in Seq(Edge), NEW start \in NodeIds
  PROVE  /\ \A p \in GetAllPathsFrom(list, start, 3) :
              \/ Len(p) = 2 /\ p[2] \in Neighbours(list, start)
              \/ /\ Len(p) = 3 /\ p[2] \in Neighbours(list, start)
                 /\ p[3] \in Neighbours(list, p[2])
         /\ \A a \in Neighbours(list, start) \ {start} :
              \E p \in GetAllPathsFrom(list, start, 3) :
                Len(p) = 2 /\ p[2] = a
         /\ \A a \in Neighbours(list, start) \ {start} :
              \A b \in Neighbours(list, a) \ {start, a} :
                \E p \in GetAllPathsFrom(list, start, 3) :
                  Len(p) = 3 /\ p[2] = a /\ p[3] = b
<1> DEFINE open == Shorter(3)
           N(m) == Neighbours(list, m)
           all == GetAllPathsFrom(list, start, 3)
           two(a) == Append(<<start>>, a)
           three(a, b) == Append(two(a), b)
<1>1. PICK f : /\ Search(f, list, start, Shorter(3))
               /\ all = {p \in UNION {f[n] : n \in 1..(3 + 1)} : Len(p) > 1}
  BY StackSearches
<1>2. /\ f[1] = {<<start>>}
      /\ f[2] = UNION {Steps(list, p) : p \in f[1] \cap open}
      /\ f[3] = UNION {Steps(list, p) : p \in f[2] \cap open}
  <2>1. 1 \in Nat \ {0} /\ 2 \in Nat \ {0} /\ 1 + 1 = 2 /\ 2 + 1 = 3
    OBVIOUS
  <2>2. /\ f[1] = {<<start>>}
        /\ f[1 + 1] = UNION {Steps(list, p) : p \in f[1] \cap open}
        /\ f[2 + 1] = UNION {Steps(list, p) : p \in f[2] \cap open}
    BY <1>1, <2>1 DEF Search
  <2> QED BY <2>1, <2>2
<1>3. /\ \A p \in f[1] : Simple(start, 1, p)
      /\ \A p \in f[2] : Simple(start, 2, p)
      /\ \A p \in f[3] : Simple(start, 3, p)
  BY <1>1, FoundAreSimple
<1>4. \A m \in NodeIds : N(m) \subseteq NodeIds
  <2>1. ASSUME NEW i \in DOMAIN list
        PROVE  list[i][1] \in NodeIds /\ list[i][2] \in NodeIds
    <3>1. list[i] \in Edge
      BY ElementOfSeq
    <3> QED BY <3>1 DEF Edge
  <2> QED BY <2>1 DEF Neighbours
<1>5. ASSUME NEW a \in N(start) \ {start}
      PROVE  /\ two(a) \in f[2] /\ two(a) \in open
             /\ Len(two(a)) = 2 /\ two(a)[1] = start /\ two(a)[2] = a
  <2>1. /\ <<start>> \in Seq(NodeIds) /\ Len(<<start>>) = 1
        /\ <<start>>[1] = start /\ DOMAIN <<start>> = {1}
    OBVIOUS
  <2>2. a \in NodeIds
    BY <1>4
  <2>3. <<start>> \in f[1] \cap open
    BY <1>2, <2>1 DEF Shorter
  <2>4. {<<start>>[i] : i \in DOMAIN <<start>>} = {start}
    BY <2>1
  <2>5. two(a) \in Steps(list, <<start>>)
    BY <2>1, <2>4 DEF Steps
  <2>6. two(a) \in f[2]
    BY <1>2, <2>3, <2>5
  <2>7. /\ two(a) \in Seq(NodeIds) /\ Len(two(a)) = 2
        /\ two(a)[1] = start /\ two(a)[2] = a
    BY <2>1, <2>2
  <2> QED BY <2>6, <2>7 DEF Shorter
<1>6. ASSUME NEW a \in N(start) \ {start}, NEW b \in N(a) \ {start, a}
      PROVE  /\ three(a, b) \in f[3] /\ Len(three(a, b)) = 3
             /\ three(a, b)[2] = a /\ three(a, b)[3] = b
  <2>1. /\ two(a) \in f[2] /\ two(a) \in open
        /\ Len(two(a)) = 2 /\ two(a)[1] = start /\ two(a)[2] = a
    BY <1>5
  <2>2. two(a) \in Seq(NodeIds) /\ DOMAIN two(a) = {1, 2}
    <3>1. two(a) \in Seq(NodeIds)
      BY <1>3, <2>1 DEF Simple
    <3> HIDE DEF two
    <3> QED BY <2>1, <3>1
  <2> HIDE DEF two, open
  <2>3. {two(a)[i] : i \in DOMAIN two(a)} = {start, a}
    BY <2>1, <2>2
  <2>4. three(a, b) \in Steps(list, two(a))
    BY <2>1, <2>3 DEF Steps
  <2>5. b \in NodeIds
    <3>1. a \in NodeIds
      BY <1>4
    <3> QED BY <1>4, <3>1
  <2>6. three(a, b) \in f[3]
    BY <1>2, <2>1, <2>4
  <2>7. /\ Len(three(a, b)) = Len(two(a)) + 1
        /\ \A i \in 1..Len(two(a)) : three(a, b)[i] = two(a)[i]
        /\ three(a, b)[Len(two(a)) + 1] = b
    BY <2>2, <2>5, AppendOneMore
  <2> HIDE DEF three
  <2>8. 2 + 1 = 3 /\ 2 \in 1..2
    OBVIOUS
  <2>9. /\ Len(three(a, b)) = 3
        /\ three(a, b)[2] = a /\ three(a, b)[3] = b
    BY <2>1, <2>7, <2>8
  <2> QED BY <2>6, <2>9
<1>7. ASSUME NEW p \in all
      PROVE  \/ p \in f[2] /\ Len(p) = 2
             \/ p \in f[3] /\ Len(p) = 3
  <2>1. PICK n \in 1..(3 + 1) : p \in f[n]
    BY <1>1
  <2>2. Len(p) > 1 /\ n \in Nat \ {0}
    BY <1>1
  <2>3. Simple(start, n, p)
    BY <1>1, <2>1, <2>2, FoundAreSimple
  <2>4. Len(p) = n /\ n > 1
    BY <2>2, <2>3 DEF Simple
  <2>5. n \in 1..3
    BY <1>1, <2>1, <2>4, NoneIsLonger
  <2>6. n = 2 \/ n = 3
    BY <2>4, <2>5
  <2> QED BY <2>1, <2>4, <2>6
<1>8. ASSUME NEW p \in f[2] PROVE p[2] \in N(start)
  <2>1. PICK q \in f[1] : p \in Steps(list, q)
    BY <1>2
  <2>2. Simple(start, 1, q) /\ q[1] = start
    BY <1>3 DEF Simple
  <2>3. OneNodeOn(list, q, p, 1)
    BY <2>1, <2>2, OneStep
  <2> QED BY <2>2, <2>3 DEF OneNodeOn
<1>9. ASSUME NEW p \in f[3]
      PROVE  p[2] \in N(start) /\ p[3] \in N(p[2])
  <2>1. PICK q \in f[2] : p \in Steps(list, q)
    BY <1>2
  <2>2. Simple(start, 2, q) /\ q[2] \in N(start)
    BY <1>3, <1>8
  <2>3. OneNodeOn(list, q, p, 2)
    BY <2>1, <2>2, OneStep
  <2>4. p[3] \in N(q[2]) /\ p[2] = q[2]
    BY <2>3 DEF OneNodeOn
  <2> QED BY <2>2, <2>4
<1>10. /\ \A p \in f[2] : Len(p) = 2 => p \in all
       /\ \A p \in f[3] : Len(p) = 3 => p \in all
  <2>1. 2 \in 1..(3 + 1) /\ 3 \in 1..(3 + 1) /\ 2 > 1 /\ 3 > 1
    OBVIOUS
  <2>2. \A n \in 1..(3 + 1) : \A p \in f[n] : Len(p) > 1 => p \in all
    <3> HIDE DEF N, two, three, open
    <3> QED BY <1>1
  <2> HIDE DEF all
  <2> QED BY <2>1, <2>2
<1> HIDE DEF all, N, two, three, open
<1>11. \A p \in all : \/ Len(p) = 2 /\ p[2] \in N(start)
                      \/ /\ Len(p) = 3 /\ p[2] \in N(start)
                         /\ p[3] \in N(p[2])
  BY <1>7, <1>8, <1>9
<1>12. \A a \in N(start) \ {start} :
         \E p \in all : Len(p) = 2 /\ p[2] = a
  BY <1>5, <1>10
<1>13. \A a \in N(start) \ {start} : \A b \in N(a) \ {start, a} :
         \E p \in all : Len(p) = 3 /\ p[2] = a /\ p[3] = b
  BY <1>6, <1>10
<1> QED BY <1>11, <1>12, <1>13 DEF all, N

LEMMA ConnectedAgree ==
  ASSUME NEW list \in Seq(Edge), NEW start \in NodeIds, NEW nodes, NEW there,
         there = {p \in GetAllPathsFrom(list, start, 3) :
                    Len(p) = 3 => p[2] \in DOMAIN nodes}
  PROVE  FindConnectedNodes(nodes, list, start, 2) =
           DOMAIN nodes \cap ({start} \cup {p[Len(p)] : p \in there})
<1> DEFINE D == DOMAIN nodes
           N(m) == Neighbours(list, m)
           all == GetAllPathsFrom(list, start, 3)
           around == Ends(nodes, list, Touching(list, {start}))
           near == ({start} \cap D) \cup around
           beyond == Ends(nodes, list, Touching(list, near))
<1>1. FindConnectedNodes(nodes, list, start, 2) = near \cup beyond
  BY DEF FindConnectedNodes
<1>2. around \subseteq D /\ beyond \subseteq D
  BY DEF Ends
<1>3. /\ \A x \in D : x \in around => (x = start \/ x \in N(start))
      /\ \A x \in D : x \in N(start) => x \in around
  BY EndsAreNeighbours
<1> HIDE DEF around
<1>4. /\ \A x \in D :
           x \in beyond => (x \in near \/ \E m \in near : x \in N(m))
      /\ \A x \in D : (\E m \in near : x \in N(m)) => x \in beyond
  BY EndsAreNeighbours
<1> HIDE DEF beyond
<1>5. /\ \A p \in all : \/ Len(p) = 2 /\ p[2] \in N(start)
                        \/ /\ Len(p) = 3 /\ p[2] \in N(start)
                           /\ p[3] \in N(p[2])
      /\ \A a \in N(start) \ {start} :
           \E p \in all : Len(p) = 2 /\ p[2] = a
      /\ \A a \in N(start) \ {start} : \A b \in N(a) \ {start, a} :
           \E p \in all : Len(p) = 3 /\ p[2] = a /\ p[3] = b
  BY PathsOfDepthThree
<1>6. there = {p \in all : Len(p) = 3 => p[2] \in D}
  OBVIOUS
<1> HIDE DEF N, all, D
<1> DEFINE ends == {p[Len(p)] : p \in there}
<1>7. ASSUME NEW a \in N(start) \ {start} PROVE a \in ends
  <2>1. PICK p \in all : Len(p) = 2 /\ p[2] = a
    BY <1>5
  <2>2. p \in there
    BY <1>6, <2>1
  <2> QED BY <2>1, <2>2
<1>8. ASSUME NEW a \in (N(start) \cap D) \ {start},
             NEW b \in N(a) \ {start, a}
      PROVE  b \in ends
  <2>1. PICK p \in all : Len(p) = 3 /\ p[2] = a /\ p[3] = b
    BY <1>5
  <2>2. p \in there
    BY <1>6, <2>1
  <2> QED BY <2>1, <2>2
<1>9. ASSUME NEW x \in ends \cap D PROVE x \in near \cup beyond
  <2>1. PICK p \in there : x = p[Len(p)]
    OBVIOUS
  <2>2. p \in all /\ (Len(p) = 3 => p[2] \in D)
    BY <1>6
  <2>3. CASE Len(p) = 2 /\ p[2] \in N(start)
    BY <1>3, <2>1, <2>3
  <2>4. CASE Len(p) = 3 /\ p[2] \in N(start) /\ p[3] \in N(p[2])
    <3>1. p[2] \in near
      BY <1>3, <2>2, <2>4
    <3> QED BY <1>4, <2>1, <2>4, <3>1
  <2> QED BY <1>5, <2>2, <2>3, <2>4
<1>10. ASSUME NEW x \in D, x \in near PROVE x = start \/ x \in ends
  BY <1>3, <1>7, <1>10
<1>11. ASSUME NEW x \in D, x \in beyond PROVE x = start \/ x \in ends
  <2>1. CASE x \in near
    BY <1>10, <2>1
  <2>2. CASE \E m \in near : x \in N(m)
    <3>1. PICK m \in near : x \in N(m)
      BY <2>2
    <3>2. m \in D /\ (m = start \/ m \in N(start))
      BY <1>2, <1>3
    <3> HIDE DEF ends, near
    <3>3. CASE m = start
      BY <1>7, <3>1, <3>3
    <3>4. CASE m # start
      <4>1. CASE x = m
        BY <1>7, <3>2, <3>4, <4>1
      <4>2. CASE x # m
        BY <1>8, <3>1, <3>2, <3>4, <4>2
      <4> QED BY <4>1, <4>2
    <3> QED BY <3>3, <3>4
  <2> QED BY <1>4, <1>11, <2>1, <2>2
<1>12. near \subseteq D
  BY <1>2
<1>13. start \in D => start \in near
  OBVIOUS
<1> HIDE DEF ends, near
<1>14. near \cup beyond = D \cap ({start} \cup ends)
  BY <1>2, <1>9, <1>10, <1>11, <1>12, <1>13
<1> QED BY <1>1, <1>14 DEF ends, D

(* The two path searches of the shared graph find the same paths up to any *)
(* depth, and the connected nodes that are shown are where those of three  *)
(* nodes lead: in every graph that fusions can draw.                       *)
THEOREM SearchesAlwaysAgree == FusionSpec => []SearchesAgree
<1>1. ASSUME FusionInv PROVE SearchesAgree
  <2>1. edges \in Seq(Edge) /\ DOMAIN labels \subseteq NodeIds
    BY <1>1, FusionTypes DEF FusionTypeOK
  <2>2. Mentioned \subseteq NodeIds
    <3>1. ASSUME NEW i \in DOMAIN edges
          PROVE  edges[i][1] \in NodeIds /\ edges[i][2] \in NodeIds
      <4>1. edges[i] \in Edge
        BY <2>1, ElementOfSeq
      <4> QED BY <4>1 DEF Edge
    <3> QED BY <2>1, <3>1 DEF Mentioned
  <2>3. ASSUME NEW start \in Mentioned, NEW depth \in 0..4
        PROVE  LET all == GetAllPathsFrom(edges, start, depth)
                   there == {p \in all : Len(p) = 3 => p[2] \in DOMAIN labels}
               IN /\ \A end \in Mentioned :
                       FindPaths(edges, start, end, depth) =
                         {p \in all : p[Len(p)] = end}
                  /\ depth = 3 =>
                       FindConnectedNodes(labels, edges, start, 2) =
                         DOMAIN labels \cap
                           ({start} \cup {p[Len(p)] : p \in there})
    <3>1. start \in NodeIds /\ depth \in Nat
      BY <2>2
    <3>2. \A end \in Mentioned :
            FindPaths(edges, start, end, depth) =
              {p \in GetAllPathsFrom(edges, start, depth) : p[Len(p)] = end}
      BY <2>1, <3>1, PathsAgree
    <3>3. ASSUME NEW there,
                 there = {p \in GetAllPathsFrom(edges, start, 3) :
                            Len(p) = 3 => p[2] \in DOMAIN labels}
          PROVE  FindConnectedNodes(labels, edges, start, 2) =
                   DOMAIN labels \cap
                     ({start} \cup {p[Len(p)] : p \in there})
      BY <2>1, <3>1, <3>3, ConnectedAgree
    <3> QED BY <3>2, <3>3
  <2> QED BY <2>3 DEF SearchesAgree
<1>2. FusionInv => SearchesAgree
  BY <1>1
<1> QED BY <1>2, FusionInitHolds, FusionStepHolds, PTL DEF FusionSpec

-----------------------------------------------------------------------------
(* Side by side: whichever component moves, the others stay as they are.   *)
PlatformInv ==
  /\ UserInv /\ RateInv /\ mode \in [Servers -> {"redis", "local"}]
  /\ ToolInv /\ ResultsInv /\ FusionInv

LEMMA PlatformInitHolds == PlatformInit => PlatformInv
<1> SUFFICES ASSUME PlatformInit PROVE PlatformInv
  OBVIOUS
<1>1. UserInit /\ RateInit /\ AgentInit /\ FusionInit
  BY DEF PlatformInit
<1>2. mode \in [Servers -> {"redis", "local"}]
  BY <1>1 DEF RateInit
<1> QED
  BY <1>1, <1>2, InitHolds, RateWindowInit, ToolInit, ResultsInit,
     FusionInitHolds DEF PlatformInv

LEMMA OneMoves ==
  ASSUME [PlatformNext]_platformVars
  PROVE  /\ [UserNext]_userVars /\ [RateNext]_rateVars
         /\ [AgentNext]_agentVars /\ [FusionNext]_fusionVars
<1>1. CASE UNCHANGED platformVars
  BY <1>1 DEF platformVars
<1>2. CASE UserStep
  BY <1>2 DEF UserStep
<1>3. CASE RateStep
  BY <1>3 DEF RateStep
<1>4. CASE AgentStep
  BY <1>4 DEF AgentStep
<1>5. CASE FusionStep
  BY <1>5 DEF FusionStep
<1> QED BY <1>1, <1>2, <1>3, <1>4, <1>5 DEF PlatformNext

LEMMA PlatformStepHolds ==
  PlatformInv /\ [PlatformNext]_platformVars => PlatformInv'
<1> SUFFICES ASSUME PlatformInv, [PlatformNext]_platformVars
             PROVE  PlatformInv'
  OBVIOUS
<1>1. /\ [UserNext]_userVars /\ [RateNext]_rateVars
      /\ [AgentNext]_agentVars /\ [FusionNext]_fusionVars
  BY OneMoves
<1>2. UserInv'
  BY <1>1, StepHolds DEF PlatformInv
<1>3. RateInv' /\ mode' \in [Servers -> {"redis", "local"}]
  BY <1>1, RateStepKeeps, ModeKept DEF PlatformInv
<1>4. ToolInv' /\ ResultsInv'
  BY <1>1, AgentStepKeeps, ResultsStep DEF PlatformInv
<1>5. FusionInv'
  BY <1>1, FusionStepHolds DEF PlatformInv
<1> QED BY <1>2, <1>3, <1>4, <1>5 DEF PlatformInv

(* For every value of the constants: the tables, windows, agents and       *)
(* graphs of the components side by side keep their types.                 *)
THEOREM PlatformTypeCorrect == PlatformSpec => []PlatformTypeOK
<1>1. PlatformInv => PlatformTypeOK
  BY RateTypes, AgentTypes, FusionTypes
  DEF PlatformInv, PlatformTypeOK, UserInv
<1> QED
  BY <1>1, PlatformInitHolds, PlatformStepHolds, PTL DEF PlatformSpec

(* The composition is each of its components: whatever is proved of one of *)
(* their specifications is true of the whole.                              *)
THEOREM PlatformIsItsParts ==
  PlatformSpec => UserSpec /\ RateSpec /\ AgentSpec /\ FusionSpec
<1>1. PlatformInit => UserInit /\ RateInit /\ AgentInit /\ FusionInit
  BY DEF PlatformInit
<1>2. [PlatformNext]_platformVars =>
        /\ [UserNext]_userVars /\ [RateNext]_rateVars
        /\ [AgentNext]_agentVars /\ [FusionNext]_fusionVars
  BY OneMoves
<1> QED
  BY <1>1, <1>2, PTL
     DEF PlatformSpec, UserSpec, RateSpec, AgentSpec, FusionSpec

(* In the composition as the run platform explores it: superusers found    *)
(* nobody, no window or tool exceeds its limit, results are whole, and     *)
(* fusions are sound in a graph whose searches agree.                      *)
THEOREM PlatformKeepsItsPromises ==
  PlatformSpec =>
    /\ []SuperusersFoundNobody /\ []WindowRespected /\ []ToolRateKept
    /\ []ResultsAreWhole /\ []FusionsAreSound /\ []SearchesAgree
BY PlatformIsItsParts, OnlyEarlySuperusers, WindowAlwaysRespected,
   ToolRateAlwaysKept, AgentsReturnWhole, FusionsAlwaysSound,
   SearchesAlwaysAgree
=============================================================================
