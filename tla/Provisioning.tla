---------------------------- MODULE Provisioning ----------------------------
(***************************************************************************)
(* How user accounts come to be: seed_admin_user of backend/app/db/        *)
(* init_db.py, which every process runs when it starts (main.py) unless    *)
(* it is in production, and bootstrap_admin and register_user of           *)
(* backend/app/api/v1/auth.py.                                             *)
(*                                                                         *)
(* Each looks at the table of users and inserts into it later, in a        *)
(* transaction that sees what others have committed; what keeps two apart  *)
(* that looked at the same time is the uniqueness of names and emails.     *)
(***************************************************************************)
EXTENDS Naturals, FiniteSets

CONSTANTS
  Processes,       \* uvicorn workers
  Callers,         \* requests to bootstrap_admin and register_user
  Names, Emails,
  SeedName, SeedEmail,    \* "admin", "admin@atalaya.local"
  Production,      \* settings.is_production
  NobodyYet        \* no maker

ASSUME ProvisioningAssumption ==
  /\ SeedName \in Names /\ SeedEmail \in Emails
  /\ NobodyYet \notin Processes \cup Callers
  /\ Production \in BOOLEAN

Makers == Processes \cup Callers

User == [name : Names, email : Emails, superuser : BOOLEAN, maker : Makers]

VARIABLES
  users,       \* the table
  process,     \* where each process is in its app_lifespan
  caller,      \* where each request is, and what it asks for
  first,       \* history: who made the first user
  early        \* history: who had seen no user when the first one was made

userVars == <<users, process, caller, first, early>>

NotYet == [pc |-> "new"]

UserTypeOK ==
  /\ users \subseteq User
  /\ process \in [Processes -> {"starting", "seeding", "inserting", "up"}]
  /\ caller \in [Callers ->
       [pc : {"new"}]
         \cup [pc : {"bootstrap", "inserting", "register", "email",
                     "registering", "created", "refused"},
               name : Names, email : Emails]]
  /\ first \in Makers \cup {NobodyYet}
  /\ early \subseteq Makers
  /\ \A u, v \in users : u.name = v.name \/ u.email = v.email => u = v

UserInit ==
  /\ users = {}
  /\ process = [p \in Processes |-> "starting"]
  /\ caller = [q \in Callers |-> NotYet]
  /\ first = NobodyYet /\ early = {}

-----------------------------------------------------------------------------
(* The constraints of the table, and an INSERT with its commit. *)

Free_NameOnly(name, email) == \A u \in users : u.name # name

Free(name, email) == \A u \in users : u.name # name /\ u.email # email

(* Those that looked and found no user. *)
Inserting ==
  {p \in Processes : process[p] = "inserting"}
    \cup {q \in Callers : caller[q].pc = "inserting"}

Insert(maker, name, email, superuser) ==
  /\ users' = users \cup {[name |-> name, email |-> email,
                           superuser |-> superuser, maker |-> maker]}
  /\ IF first = NobodyYet
     THEN first' = maker /\ early' = Inserting \ {maker}
     ELSE UNCHANGED <<first, early>>

-----------------------------------------------------------------------------
(* A process starts. *)

(* create_all_tables fails when two processes create the same table; the   *)
(* process then goes on without seeding.                                   *)
CreateTables(p) ==
  /\ process[p] = "starting"
  /\ process' = [process EXCEPT ![p] =
       IF Production THEN "up" ELSE "seeding"]
  /\ UNCHANGED <<users, caller, first, early>>

StartWithoutSeed(p) ==
  /\ process[p] \in {"starting", "seeding", "inserting"} /\ ~Production
  /\ process' = [process EXCEPT ![p] = "up"]
  /\ UNCHANGED <<users, caller, first, early>>

LookToSeed(p) ==
  /\ process[p] = "seeding"
  /\ process' = [process EXCEPT ![p] =
       IF users # {} THEN "up" ELSE "inserting"]
  /\ UNCHANGED <<users, caller, first, early>>

(* Another "admin" in the meantime is an error that is logged.             *)
Seed(p) ==
  /\ process[p] = "inserting"
  /\ process' = [process EXCEPT ![p] = "up"]
  /\ IF Free(SeedName, SeedEmail) THEN Insert(p, SeedName, SeedEmail, TRUE)
     ELSE UNCHANGED <<users, first, early>>
  /\ UNCHANGED caller

Restart(p) ==
  /\ process[p] = "up"
  /\ process' = [process EXCEPT ![p] = "starting"]
  /\ UNCHANGED <<users, caller, first, early>>

-----------------------------------------------------------------------------
(* Requests, once a process serves them. *)

Serving == \E p \in Processes : process[p] = "up"

Call(q, pc, name, email) ==
  /\ caller[q] = NotYet /\ Serving
  /\ caller' = [caller EXCEPT ![q] =
       [pc |-> pc, name |-> name, email |-> email]]
  /\ UNCHANGED <<users, process, first, early>>

CallBootstrap(q, name, email) == Call(q, "bootstrap", name, email)

(* require_admin *)
CallRegister(q, name, email) ==
  /\ \E u \in users : u.superuser
  /\ Call(q, "register", name, email)

Look(q, at, found, go) ==
  /\ caller[q].pc = at
  /\ caller' = [caller EXCEPT ![q].pc = IF found THEN "refused" ELSE go]
  /\ UNCHANGED <<users, process, first, early>>

LookForAnyUser_ByName(q) ==
  Look(q, "bootstrap", \E u \in users : u.name = caller[q].name, "inserting")

LookForAnyUser(q) == Look(q, "bootstrap", users # {}, "inserting")

LookForName(q) ==
  Look(q, "register", \E u \in users : u.name = caller[q].name, "email")

LookForEmail(q) ==
  Look(q, "email", \E u \in users : u.email = caller[q].email, "registering")

Commit(q, superuser) ==
  LET c == caller[q] IN
    /\ IF Free(c.name, c.email)
       THEN /\ Insert(q, c.name, c.email, superuser)
            /\ caller' = [caller EXCEPT ![q].pc = "created"]
       ELSE /\ caller' = [caller EXCEPT ![q].pc = "refused"]
            /\ UNCHANGED <<users, first, early>>
    /\ UNCHANGED process

BootstrapAdmin(q) == caller[q].pc = "inserting" /\ Commit(q, TRUE)

RegisterUser(q) == caller[q].pc = "registering" /\ Commit(q, FALSE)

(* The answer is out, or the request broke off. *)
Return(q) ==
  /\ caller[q] # NotYet
  /\ caller' = [caller EXCEPT ![q] = NotYet]
  /\ UNCHANGED <<users, process, first, early>>

UserNext ==
  \/ \E p \in Processes :
       \/ CreateTables(p) \/ StartWithoutSeed(p) \/ LookToSeed(p) \/ Seed(p)
       \/ Restart(p)
  \/ \E q \in Callers :
       \/ \E n \in Names, e \in Emails :
            CallBootstrap(q, n, e) \/ CallRegister(q, n, e)
       \/ LookForAnyUser(q) \/ LookForName(q) \/ LookForEmail(q)
       \/ BootstrapAdmin(q) \/ RegisterUser(q)
       \/ Return(q)

UserSpec == UserInit /\ [][UserNext]_userVars

-----------------------------------------------------------------------------
(* Who provisions others was provisioned on an empty table: as soon as     *)
(* there is a user there is a superuser, and every superuser but the first *)
(* user is of a maker that had found the table empty before that one was   *)
(* there.                                                                  *)
SuperusersFoundNobody ==
  /\ users # {} => \E u \in users : u.superuser
  /\ \A u \in users : u.superuser => u.maker \in early \cup {first}
=============================================================================
