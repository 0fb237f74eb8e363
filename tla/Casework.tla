------------------------------ MODULE Casework ------------------------------
(***************************************************************************)
(* Cases, their entities, their evidence and its files: the handlers of    *)
(* backend/app/api/v1/cases.py, entities.py, evidence.py and the one of    *)
(* reports.py that creates rows.                                           *)
(*                                                                         *)
(* A handler is a chain of awaits: it loads its row, looks at the case     *)
(* (assert_resource_access), does its work, commits, and reads the row     *)
(* back for its answer.  Other requests run between any two of these, in   *)
(* this process or another; a request may fail at each, and its session is *)
(* then rolled back, which no file is.  A session writes only the columns  *)
(* whose value the handler changed.                                        *)
(***************************************************************************)
EXTENDS Access, FiniteSets

CONSTANTS
  Users, Profile,      \* the users, and what Access looks at in each
  Cases, Entities, Evidences,    \* ids that uuid4 makes up
  Requests,            \* requests in flight at one time
  Levels,              \* bound: the CaseClassifications in use
  MaxJobs,             \* bound: report jobs of a case
  Workloads,           \* bound: sets of operations explored together
  Nil,                 \* no id, no row, no wish
  Gone                 \* a removed row, whose id is spent

Status == {"OPEN", "CLOSED"}     \* of the four, two that differ

CaseRow == [owner : Users, level : Levels, status : Status, deleted : BOOLEAN]
EntityRow == [case : Cases, merged : Entities \cup {Nil}]

(* stored: content_file_path is set.                                       *)
EvidenceRow == [case : Cases, entity : Entities \cup {Nil}, stored : BOOLEAN]

Wish == [level : Levels \cup {Nil}, status : Status \cup {Nil}]

ASSUME CaseworkAssumption ==
  /\ Nil \notin Users \cup Cases \cup Entities \cup Evidences \cup Levels
                 \cup Status
  /\ Nil \notin CaseRow \cup EntityRow \cup EvidenceRow
  /\ Gone \notin EvidenceRow \cup {Nil}
  /\ IsFiniteSet(Entities)
  /\ MaxJobs \in Nat

OnCase == {"update_case", "delete_case", "create_entity", "create_evidence",
           "upload_evidence", "generate_report"}
Operations ==
  OnCase \cup {"create_case", "merge_entity", "delete_evidence"}

Idle == [pc |-> "idle"]

Columns == {"level", "status", "deleted"}     \* of a case that handlers set

(* seen is the case row that the handler loaded and, once it committed,    *)
(* what it left; held is the merged_into_id that it loaded.  overtaken is  *)
(* history: the columns of the case that another request was asked to set, *)
(* and committed after this one loaded the case.                           *)
Request ==
  [case : Cases \cup {Nil}, entity : Entities \cup {Nil},
   pc : {"load", "check", "target", "work", "stored", "removed", "refresh",
         "answered"},
   op : Operations, user : Users, target : Entities \cup {Nil},
   held : Entities \cup {Nil}, evidence : Evidences \cup {Nil},
   wish : Wish, seen : CaseRow \cup {Nil}, overtaken : SUBSET Columns]

VARIABLES
  cases, entities, evidence,     \* tables
  jobs,          \* how many jobs generate_report made of a case
  files,         \* below EVIDENCE_STORAGE_PATH, by the id in their name
  req,
  workload,
  cut,           \* history: evidence whose upload or removal was cut short
                 \* between the file and the commit
  blind          \* history: entities last merged into themselves or into an
                 \* entity that was merged at that time

tables == <<cases, entities, evidence, jobs>>
history == <<workload, cut, blind>>
vars == <<tables, files, req, history>>

TypeOK ==
  /\ cases \in [Cases -> CaseRow \cup {Nil}]
  /\ entities \in [Entities -> EntityRow \cup {Nil}]
  /\ evidence \in [Evidences -> EvidenceRow \cup {Nil, Gone}]
  /\ jobs \in [Cases -> 0..MaxJobs]
  /\ files \in [Evidences -> {"none", "intact", "altered"}]
  /\ req \in [Requests -> Request \cup {Idle}]
  /\ workload \in Workloads
  /\ cut \subseteq Evidences /\ blind \subseteq Entities
  /\ \A r \in Requests :
       req[r].pc \in {"target", "work", "stored", "removed"} /\
       req[r].op # "create_case" => req[r].seen # Nil

Init ==
  /\ cases = [c \in Cases |-> Nil]
  /\ entities = [e \in Entities |-> Nil]
  /\ evidence = [v \in Evidences |-> Nil]
  /\ jobs = [c \in Cases |-> 0]
  /\ files = [v \in Evidences |-> "none"]
  /\ req = [r \in Requests |-> Idle]
  /\ workload \in Workloads
  /\ cut = {} /\ blind = {}

-----------------------------------------------------------------------------
(* A request comes in, for rows that exist: for others it ends at once.    *)

Scope(op) ==
  CASE op \in {"delete_case", "delete_evidence"} -> "admin"
    [] op = "generate_report" -> "write:reports"
    [] OTHER -> "write:cases"

Blank(u, op, pc) ==
  [case |-> Nil, entity |-> Nil, pc |-> pc, op |-> op, user |-> u,
   target |-> Nil, held |-> Nil, evidence |-> Nil,
   wish |-> [level |-> Nil, status |-> Nil], seen |-> Nil,
   overtaken |-> {}]

Ask(r, request) ==
  /\ req[r] = Idle
  /\ request.op \in workload
  /\ HasScope(Profile[request.user], Scope(request.op))
  /\ req' = [req EXCEPT ![r] = request]
  /\ UNCHANGED <<tables, files, history>>

AskNewCase(r, u, level) ==
  Ask(r, [Blank(u, "create_case", "work") EXCEPT !.wish.level = level])

AskOnCase(r, u, op, c, e, wish) ==
  /\ cases[c] # Nil
  /\ op = "create_evidence" \/ e = Nil
  /\ op = "update_case" \/ wish = [level |-> Nil, status |-> Nil]
  /\ Ask(r, [Blank(u, op, "check") EXCEPT !.case = c, !.entity = e,
                                          !.wish = wish])

AskToMerge(r, u, e, t) ==
  /\ entities[e] # Nil /\ entities[t] # Nil
  /\ Ask(r, [Blank(u, "merge_entity", "load") EXCEPT !.entity = e,
                                                     !.target = t])

AskToDeleteEvidence(r, u, v) ==
  /\ evidence[v] \notin {Nil, Gone}
  /\ Ask(r, [Blank(u, "delete_evidence", "load") EXCEPT !.evidence = v])

-----------------------------------------------------------------------------
(* Loading and looking. *)

(* Refused, or failed: the request ends, and with it its transaction.      *)
End(r) == req' = [req EXCEPT ![r] = Idle]

LoadEntity(r) ==
  /\ req[r].pc = "load" /\ req[r].op = "merge_entity"
  /\ req' = [req EXCEPT ![r].pc = "check",
                        ![r].case = entities[req[r].entity].case,
                        ![r].held = entities[req[r].entity].merged]
  /\ UNCHANGED <<tables, files, history>>

LoadEvidence(r) ==
  /\ req[r].pc = "load" /\ req[r].op = "delete_evidence"
  /\ LET row == evidence[req[r].evidence] IN
       IF row = Gone THEN End(r)
       ELSE req' = [req EXCEPT ![r].pc = "check", ![r].case = row.case]
  /\ UNCHANGED <<tables, files, history>>

Live(c) == cases[c] # Nil /\ ~cases[c].deleted

Admits(c, u) ==
  /\ Live(c)
  /\ ResourceAccess(Profile[u], u, cases[c].owner, cases[c].level)

(* _assert_case_access, and _get_or_404 of cases.py. *)
CheckCase(r) ==
  /\ req[r].pc = "check"
  /\ IF Admits(req[r].case, req[r].user)
     THEN req' = [req EXCEPT
            ![r].pc = IF req[r].op = "merge_entity" THEN "target" ELSE "work",
            ![r].seen = cases[req[r].case]]
     ELSE End(r)
  /\ UNCHANGED <<tables, files, history>>

(* The target's case is asked for again.  Being the same row of the same   *)
(* session it keeps the columns it was loaded with, so that only its       *)
(* deletion shows.                                                         *)
CheckTarget(r) ==
  /\ req[r].pc = "target"
  /\ IF Live(req[r].case) /\ entities[req[r].target].case = req[r].case
     THEN req' = [req EXCEPT ![r].pc = "work"]
     ELSE End(r)
  /\ UNCHANGED <<tables, files, history>>

-----------------------------------------------------------------------------
(* Files. *)

Fresh(v) ==
  /\ evidence[v] = Nil /\ files[v] = "none"
  /\ \A r \in Requests : req[r] # Idle => req[r].evidence # v

StoreFile(r, v) ==
  /\ req[r].pc = "work" /\ req[r].op = "upload_evidence" /\ Fresh(v)
  /\ files' = [files EXCEPT ![v] = "intact"]
  /\ req' = [req EXCEPT ![r].pc = "stored", ![r].evidence = v]
  /\ UNCHANGED <<tables, history>>

RemoveFile_OnlyAltered(r) ==
  /\ req[r].pc = "work" /\ req[r].op = "delete_evidence"
  /\ files' = [files EXCEPT ![req[r].evidence] =
                 IF @ = "altered" THEN "none" ELSE @]
  /\ req' = [req EXCEPT ![r].pc = "removed"]
  /\ UNCHANGED <<tables, history>>

RemoveFile(r) ==
  /\ req[r].pc = "work" /\ req[r].op = "delete_evidence"
  /\ files' = [files EXCEPT ![req[r].evidence] = "none"]
  /\ req' = [req EXCEPT ![r].pc = "removed"]
  /\ UNCHANGED <<tables, history>>

(* The disk changes a file behind the program's back. *)
Decay(v) ==
  /\ files[v] = "intact" /\ evidence[v] # Nil
  /\ files' = [files EXCEPT ![v] = "altered"]
  /\ UNCHANGED <<tables, req, history>>

-----------------------------------------------------------------------------
(* Committing. *)

(* The request goes on with the case row that it leaves, and those that    *)
(* know the row from before are overtaken in the columns that this one was *)
(* asked to set.                                                           *)
Leave(r, pc, c, row, asked) ==
  req' = [q \in Requests |->
            IF q = r THEN [req[q] EXCEPT !.pc = pc, !.case = c, !.seen = row]
            ELSE IF req[q] # Idle /\ req[q].case = c /\ req[q].seen # Nil
                 THEN [req[q] EXCEPT !.overtaken = @ \cup asked]
                 ELSE req[q]]

AtCommit(r, op) == req[r].pc = "work" /\ req[r].op = op

CreateCase(r, c) ==
  /\ AtCommit(r, "create_case") /\ cases[c] = Nil
  /\ LET row == [owner |-> req[r].user, level |-> req[r].wish.level,
                 status |-> "OPEN", deleted |-> FALSE] IN
       /\ cases' = [cases EXCEPT ![c] = row]
       /\ Leave(r, "refresh", c, row, {})
  /\ UNCHANGED <<entities, evidence, jobs, files, history>>

(* What the handler sets: a level only for an administrator. *)
UpdateData(r) ==
  [level |-> IF IsAdmin(Profile[req[r].user]) THEN req[r].wish.level ELSE Nil,
   status |-> req[r].wish.status]

Written_Stale(set, loaded, now) == IF set = Nil THEN loaded ELSE set

Written_Nones(set, loaded, now) == IF set = loaded THEN now ELSE set

(* A column is written if it was set to another value than was loaded.     *)
Written(set, loaded, now) == IF set \in {Nil, loaded} THEN now ELSE set

(* update_case and update_case_status. *)
UpdateCase(r) ==
  /\ AtCommit(r, "update_case")
  /\ LET c == req[r].case
         set == UpdateData(r)
         loaded == req[r].seen
         row == [cases[c] EXCEPT
                   !.level = Written(set.level, loaded.level, @),
                   !.status = Written(set.status, loaded.status, @)]
     IN /\ cases' = [cases EXCEPT ![c] = row]
        /\ Leave(r, "refresh", c, row,
                 {k \in {"level", "status"} : set[k] # Nil})
  /\ UNCHANGED <<entities, evidence, jobs, files, history>>

DeleteCase(r) ==
  /\ AtCommit(r, "delete_case")
  /\ LET c == req[r].case
         row == [cases[c] EXCEPT !.deleted = TRUE]
     IN /\ cases' = [cases EXCEPT ![c] = row]
        /\ Leave(r, "answered", c, row, {"deleted"})
  /\ UNCHANGED <<entities, evidence, jobs, files, history>>

(* A commit that leaves the case as it is. *)
Settle(r, pc) == Leave(r, pc, req[r].case, cases[req[r].case], {})

CreateEntity(r, e) ==
  /\ AtCommit(r, "create_entity") /\ entities[e] = Nil
  /\ entities' =
       [entities EXCEPT ![e] = [case |-> req[r].case, merged |-> Nil]]
  /\ Settle(r, "refresh")
  /\ UNCHANGED <<cases, evidence, jobs, files, history>>

MergeEntity_Reversed(r) ==
  /\ AtCommit(r, "merge_entity")
  /\ LET e == req[r].entity
         t == req[r].target
     IN /\ entities' = [entities EXCEPT ![t].merged = e]
        /\ blind' = IF t = e \/ entities[t].merged # Nil
                    THEN blind \cup {e} ELSE blind \ {e}
  /\ Settle(r, "answered")
  /\ UNCHANGED <<cases, evidence, jobs, files, workload, cut>>

MergeEntity(r) ==
  /\ AtCommit(r, "merge_entity")
  /\ LET e == req[r].entity
         t == req[r].target
     IN IF t = req[r].held THEN UNCHANGED <<entities, blind>>
        ELSE /\ entities' = [entities EXCEPT ![e].merged = t]
             /\ blind' = IF t = e \/ entities[t].merged # Nil
                         THEN blind \cup {e} ELSE blind \ {e}
  /\ Settle(r, "answered")
  /\ UNCHANGED <<cases, evidence, jobs, files, workload, cut>>

(* The entity must exist; nobody asks whether it is of the same case.      *)
CreateEvidence(r, v) ==
  /\ AtCommit(r, "create_evidence") /\ Fresh(v)
  /\ req[r].entity # Nil => entities[req[r].entity] # Nil
  /\ evidence' = [evidence EXCEPT ![v] =
       [case |-> req[r].case, entity |-> req[r].entity, stored |-> FALSE]]
  /\ Settle(r, "refresh")
  /\ UNCHANGED <<cases, entities, jobs, files, history>>

UploadEvidence(r) ==
  /\ req[r].pc = "stored"
  /\ evidence' = [evidence EXCEPT ![req[r].evidence] =
       [case |-> req[r].case, entity |-> Nil, stored |-> TRUE]]
  /\ Settle(r, "refresh")
  /\ UNCHANGED <<cases, entities, jobs, files, history>>

DeleteEvidence(r) ==
  /\ req[r].pc = "removed"
  /\ evidence' = [evidence EXCEPT ![req[r].evidence] = Gone]
  /\ Settle(r, "answered")
  /\ UNCHANGED <<cases, entities, jobs, files, history>>

(* The job is not handed to any queue. *)
GenerateReport(r) ==
  /\ AtCommit(r, "generate_report") /\ jobs[req[r].case] < MaxJobs
  /\ jobs' = [jobs EXCEPT ![req[r].case] = @ + 1]
  /\ Settle(r, "answered")
  /\ UNCHANGED <<cases, entities, evidence, files, history>>

-----------------------------------------------------------------------------
(* Answering, and failing. *)

(* db.refresh, of a row that is there. *)
Refresh(r) ==
  /\ req[r].pc = "refresh"
  /\ req' = [req EXCEPT ![r].pc = "answered",
       ![r].seen = IF req[r].op \in {"create_case", "update_case"}
                   THEN cases[req[r].case] ELSE @]
  /\ UNCHANGED <<tables, files, history>>

Answered(r) ==
  /\ req[r].pc = "answered"
  /\ End(r)
  /\ UNCHANGED <<tables, files, history>>

(* The database or the client gives up, the process dies, or db.refresh    *)
(* finds its row removed.                                                  *)
Fail(r) ==
  /\ req[r] # Idle /\ req[r].pc # "answered"
  /\ cut' = IF req[r].pc \in {"stored", "removed"}
            THEN cut \cup {req[r].evidence} ELSE cut
  /\ End(r)
  /\ UNCHANGED <<tables, files, workload, blind>>

Next ==
  \/ \E r \in Requests, u \in Users :
       \/ \E l \in Levels : AskNewCase(r, u, l)
       \/ \E op \in OnCase, c \in Cases, e \in Entities \cup {Nil},
             wish \in Wish : AskOnCase(r, u, op, c, e, wish)
       \/ \E e, t \in Entities : AskToMerge(r, u, e, t)
       \/ \E v \in Evidences : AskToDeleteEvidence(r, u, v)
  \/ \E r \in Requests :
       \/ LoadEntity(r) \/ LoadEvidence(r) \/ CheckCase(r) \/ CheckTarget(r)
       \/ RemoveFile(r) \/ UpdateCase(r) \/ DeleteCase(r) \/ MergeEntity(r)
       \/ UploadEvidence(r) \/ DeleteEvidence(r) \/ GenerateReport(r)
       \/ Refresh(r) \/ Answered(r) \/ Fail(r)
       \/ \E c \in Cases : CreateCase(r, c)
       \/ \E e \in Entities : CreateEntity(r, e)
       \/ \E v \in Evidences : StoreFile(r, v) \/ CreateEvidence(r, v)
  \/ \E v \in Evidences : Decay(v)

Spec == Init /\ [][Next]_vars

-----------------------------------------------------------------------------
(* What readers are told. *)

(* get_evidence_content: the file, if there is one. *)
HasContent(v) == evidence[v].stored /\ files[v] # "none"

(* get_evidence_custody: integrity_verified. *)
IntegrityVerified(v) == HasContent(v) => files[v] = "intact"

(* list_entities without a filter. *)
ListedEntities(u) ==
  {e \in Entities : /\ entities[e] # Nil /\ entities[e].merged = Nil
                    /\ Live(entities[e].case)
                    /\ \/ IsAdmin(Profile[u])
                       \/ cases[entities[e].case].owner = u}

InRow(v) == evidence[v] \notin {Nil, Gone}

Between(v, pc) == \E r \in Requests : req[r].pc = pc /\ req[r].evidence = v

(* Rows and files go together: a row whose file is gone is one whose       *)
(* removal is under way or was cut short, a file without a row one whose   *)
(* upload is.  So what custody verifies can be had, and as it was stored,  *)
(* with that one exception.                                                *)
FilesMatchRows ==
  \A v \in Evidences :
    /\ InRow(v) /\ evidence[v].stored /\ IntegrityVerified(v) =>
         files[v] = "intact" \/ v \in cut \/ Between(v, "removed")
    /\ ~InRow(v) /\ files[v] # "none" => v \in cut \/ Between(v, "stored")

(* The edges of get_entity_graph: "merged_into". *)
EntityGraph(c) ==
  {<<e, entities[e].merged>> :
     e \in {e \in Entities : /\ entities[e] # Nil /\ entities[e].case = c
                             /\ entities[e].merged # Nil}}

(* Where n edges lead from e, or as many as there are, for each n. *)
AfterMerges(e) ==
  LET after[n \in 0..Cardinality(Entities)] ==
        IF n = 0 THEN e
        ELSE LET m == after[n - 1]
                 onward == {t \in Entities :
                              <<m, t>> \in EntityGraph(entities[e].case)}
             IN IF onward = {} THEN m ELSE CHOOSE t \in onward : TRUE
  IN after

(* No entity gets lost by merging: the owner of a live case finds it in    *)
(* the list, or the one that the edges of the case's graph lead to from    *)
(* it, unless one of these merges was into an entity merged already or     *)
(* into itself.                                                            *)
MergesEndInTheList ==
  \A e \in Entities : entities[e] # Nil /\ Live(entities[e].case) =>
    \/ AfterMerges(e)[Cardinality(Entities)] \in
         ListedEntities(cases[entities[e].case].owner)
    \/ \E n \in 0..Cardinality(Entities) : AfterMerges(e)[n] \in blind

(* An update that committed stands, in the table and then in its answer,   *)
(* column by column: only a request asked to set the same column can have  *)
(* undone it, whatever requests for other columns were doing between its   *)
(* look and its commit or after it.  A deletion stands for good, and no    *)
(* request works for a deleted case unless the deletion came after its     *)
(* look.                                                                   *)
WishesStand ==
  \A r \in Requests : req[r].pc \in {"refresh", "answered"} =>
    LET q == req[r]
        Stands(col) ==
          /\ q.wish[col] \in {Nil, cases[q.case][col]}
          /\ q.pc = "answered" => q.wish[col] \in {Nil, q.seen[col]}
    IN /\ q.op \in {"create_case", "update_case"} =>
            /\ "status" \notin q.overtaken => Stands("status")
            /\ /\ "level" \notin q.overtaken
               /\ q.op = "create_case" \/ IsAdmin(Profile[q.user])
               => Stands("level")
       /\ IF q.op = "delete_case" THEN cases[q.case].deleted
          ELSE "deleted" \notin q.overtaken => ~q.seen.deleted
=============================================================================
