--------------------------- MODULE CaseworkProofs ---------------------------
(* Proofs about Casework: types, that files and evidence rows go together, *)
(* that only who is asked to set a column undoes what others set there,    *)
(* and that merged entities lead to listed ones.                           *)
EXTENDS Casework, NaturalLemmas

(* A request that is past its check, and so has a case.                    *)
OnItsCase(q) == q.pc # "load" /\ ~(q.op = "create_case" /\ q.pc = "work")

Looked(q) == OnItsCase(q) /\ q.pc # "check"

(* What a request can rely on, of the tables cs, es and vs and the files   *)
(* fs: rows it knows of stay, and nobody else touches the file between its *)
(* two steps.                                                              *)
Valid(q, cs, es, vs, fs) ==
  q # Idle =>
    /\ q.pc = "load" => q.op \in {"merge_entity", "delete_evidence"}
    /\ q.pc = "check" => q.op # "create_case"
    /\ q.pc = "target" => q.op = "merge_entity"
    /\ q.pc = "refresh" => q.op \notin {"merge_entity", "delete_evidence"}
    /\ q.op = "create_case" /\ q.pc = "work" =>
         q.wish.level \in Levels /\ q.wish.status = Nil /\ q.seen = Nil
    /\ q.pc \in {"load", "check"} => q.seen = Nil
    /\ OnItsCase(q) => q.case \in Cases /\ cs[q.case] # Nil
    /\ Looked(q) => q.seen # Nil
    /\ q.op = "merge_entity" =>
         /\ q.entity \in Entities /\ q.target \in Entities
         /\ es[q.entity] # Nil /\ es[q.target] # Nil
    /\ q.op = "delete_evidence" =>
         q.evidence \in Evidences /\ vs[q.evidence] # Nil
    /\ q.pc = "stored" =>
         /\ q.op = "upload_evidence" /\ q.evidence \in Evidences
         /\ vs[q.evidence] = Nil /\ fs[q.evidence] = "intact"
    /\ q.pc = "removed" =>
         q.op = "delete_evidence" /\ fs[q.evidence] = "none"

(* Rows are of cases that exist. *)
Rooted(cs, es, vs) ==
  /\ \A e \in Entities : es[e] # Nil => cs[es[e].case] # Nil
  /\ \A v \in Evidences : vs[v] \notin {Nil, Gone} => cs[vs[v].case] # Nil

Distinct ==
  \A r, q \in Requests :
    /\ req[r].pc = "stored" /\ req[q].pc = "stored" /\ r # q
    => req[r].evidence # req[q].evidence

Types ==
  /\ cases \in [Cases -> CaseRow \cup {Nil}]
  /\ entities \in [Entities -> EntityRow \cup {Nil}]
  /\ evidence \in [Evidences -> EvidenceRow \cup {Nil, Gone}]
  /\ jobs \in [Cases -> 0..MaxJobs]
  /\ files \in [Evidences -> {"none", "intact", "altered"}]
  /\ req \in [Requests -> Request \cup {Idle}]
  /\ workload \in Workloads
  /\ cut \subseteq Evidences /\ blind \subseteq Entities

Inv ==
  /\ Types
  /\ Rooted(cases, entities, evidence)
  /\ Distinct
  /\ \A r \in Requests : Valid(req[r], cases, entities, evidence, files)

-----------------------------------------------------------------------------
(* Facts about requests and rows, for any values of the tables. *)

LEMMA Kept ==
  ASSUME NEW q, NEW cs, NEW es, NEW vs, NEW fs,
         NEW cs2, NEW es2, NEW vs2, NEW fs2,
         Valid(q, cs, es, vs, fs),
         \A c \in Cases : cs[c] # Nil => cs2[c] # Nil,
         \A e \in Entities : es[e] # Nil => es2[e] # Nil,
         \A v \in Evidences : vs[v] # Nil => vs2[v] # Nil,
         q # Idle /\ q.pc = "stored" =>
           vs2[q.evidence] = Nil /\ fs2[q.evidence] = "intact",
         q # Idle /\ q.pc = "removed" => fs2[q.evidence] = "none"
  PROVE  Valid(q, cs2, es2, vs2, fs2)
BY DEF Valid, OnItsCase, Looked

Overtaken(q, asked) == [q EXCEPT !.overtaken = @ \cup asked]

LEMMA OvertakenValid ==
  ASSUME NEW q \in Request, NEW asked \in SUBSET Columns,
         NEW cs, NEW es, NEW vs, NEW fs, Valid(q, cs, es, vs, fs)
  PROVE  /\ Overtaken(q, asked) \in Request
         /\ Valid(Overtaken(q, asked), cs, es, vs, fs)
         /\ Overtaken(q, asked).pc = q.pc
         /\ Overtaken(q, asked).evidence = q.evidence
<1> DEFINE x == Overtaken(q, asked)
<1> USE DEF Overtaken
<1>1. x \in Request
  BY DEF Request
<1>2. /\ x.pc = q.pc /\ x.op = q.op /\ x.wish = q.wish /\ x.seen = q.seen
      /\ x.case = q.case /\ x.entity = q.entity /\ x.target = q.target
      /\ x.evidence = q.evidence /\ q # Idle
  BY DEF Request, Idle
<1> HIDE DEF x
<1>3. Valid(x, cs, es, vs, fs)
  BY <1>2 DEF Valid, OnItsCase, Looked
<1> QED BY <1>1, <1>2, <1>3 DEF x

LEMMA NotIdle == Idle \notin Request
BY DEF Idle, Request

(* A step that changes one request and no table or file. *)
LEMMA OneRequest ==
  ASSUME Inv, NEW r \in Requests, NEW x \in Request \cup {Idle},
         req' = [req EXCEPT ![r] = x],
         UNCHANGED <<tables, files, workload>>,
         cut' \subseteq Evidences, blind' \subseteq Entities,
         Valid(x, cases, entities, evidence, files),
         x.pc # "stored" \/ x = req[r]
  PROVE  Inv'
<1> USE DEF Inv, Types, tables
<1>1. Types'
  OBVIOUS
<1>2. Rooted(cases, entities, evidence)'
  BY DEF Rooted
<1>3. req'[r] = x /\ \A q \in Requests \ {r} : req'[q] = req[q]
  OBVIOUS
<1>4. Distinct'
  BY <1>3 DEF Distinct
<1>5. \A q \in Requests : Valid(req'[q], cases', entities', evidence', files')
  BY <1>3
<1> QED BY <1>1, <1>2, <1>4, <1>5

LEMMA InitHolds == Init => Inv
<1> SUFFICES ASSUME Init PROVE Inv
  OBVIOUS
<1> USE DEF Init
<1>1. Types
  BY CaseworkAssumption DEF Types
<1>2. Rooted(cases, entities, evidence)
  BY DEF Rooted
<1>3. Distinct
  BY DEF Distinct, Idle
<1>4. \A r \in Requests : Valid(req[r], cases, entities, evidence, files)
  BY DEF Valid
<1> QED BY <1>1, <1>2, <1>3, <1>4 DEF Inv

LEMMA BlankIsRequest ==
  ASSUME NEW u \in Users, NEW op \in Operations,
         NEW pc \in {"load", "check", "work"}
  PROVE  Blank(u, op, pc) \in Request
BY DEF Blank, Request, Wish

LEMMA AskSteps ==
  ASSUME Inv, NEW r \in Requests, NEW u \in Users,
         \/ \E l \in Levels : AskNewCase(r, u, l)
         \/ \E op \in OnCase, c \in Cases, e \in Entities \cup {Nil},
               wish \in Wish : AskOnCase(r, u, op, c, e, wish)
         \/ \E e, t \in Entities : AskToMerge(r, u, e, t)
         \/ \E v \in Evidences : AskToDeleteEvidence(r, u, v)
  PROVE  Inv'
<1>1. ASSUME NEW x \in Request, Ask(r, x), x.pc # "stored",
             Valid(x, cases, entities, evidence, files)
      PROVE  Inv'
  <2>1. /\ req' = [req EXCEPT ![r] = x]
        /\ UNCHANGED <<tables, files, workload, cut, blind>>
    BY <1>1 DEF Ask, history
  <2> QED
    BY <1>1, <2>1, OneRequest DEF Inv, Types
<1>2. CASE \E l \in Levels : AskNewCase(r, u, l)
  <2>1. PICK l \in Levels : AskNewCase(r, u, l)
    BY <1>2
  <2> DEFINE x == [Blank(u, "create_case", "work") EXCEPT !.wish.level = l]
  <2>2. /\ x \in Request /\ x.pc = "work" /\ x.op = "create_case"
        /\ x.wish.level = l /\ x.wish.status = Nil /\ x.seen = Nil
    BY DEF Blank, Request, Wish, Operations
  <2>3. Valid(x, cases, entities, evidence, files)
    BY <2>2 DEF Valid, OnItsCase, Looked
  <2>4. Ask(r, x)
    BY <2>1 DEF AskNewCase
  <2> HIDE DEF x
  <2> QED
    BY <1>1, <2>2, <2>3, <2>4
<1>3. CASE \E op \in OnCase, c \in Cases, e \in Entities \cup {Nil},
               wish \in Wish : AskOnCase(r, u, op, c, e, wish)
  <2>1. PICK op \in OnCase, c \in Cases, e \in Entities \cup {Nil},
             wish \in Wish : AskOnCase(r, u, op, c, e, wish)
    BY <1>3
  <2> DEFINE x == [Blank(u, op, "check") EXCEPT !.case = c, !.entity = e,
                                                !.wish = wish]
  <2>2. /\ x \in Request /\ x.pc = "check" /\ x.op = op
        /\ x.case = c /\ x.seen = Nil
    BY DEF Blank, Request, Operations
  <2>3. cases[c] # Nil /\ Ask(r, x)
    BY <2>1 DEF AskOnCase
  <2>4. Valid(x, cases, entities, evidence, files)
    BY <2>2, <2>3 DEF Valid, OnItsCase, Looked, OnCase
  <2> HIDE DEF x
  <2> QED
    BY <1>1, <2>2, <2>3, <2>4
<1>4. CASE \E e, t \in Entities : AskToMerge(r, u, e, t)
  <2>1. PICK e \in Entities, t \in Entities : AskToMerge(r, u, e, t)
    BY <1>4
  <2> DEFINE x == [Blank(u, "merge_entity", "load") EXCEPT !.entity = e,
                                                           !.target = t]
  <2>2. /\ x \in Request /\ x.pc = "load" /\ x.op = "merge_entity"
        /\ x.entity = e /\ x.target = t /\ x.seen = Nil
    BY DEF Blank, Request, Operations, Wish
  <2>3. entities[e] # Nil /\ entities[t] # Nil /\ Ask(r, x)
    BY <2>1 DEF AskToMerge
  <2>4. Valid(x, cases, entities, evidence, files)
    BY <2>2, <2>3 DEF Valid, OnItsCase, Looked
  <2> HIDE DEF x
  <2> QED
    BY <1>1, <2>2, <2>3, <2>4
<1>5. CASE \E v \in Evidences : AskToDeleteEvidence(r, u, v)
  <2>1. PICK v \in Evidences : AskToDeleteEvidence(r, u, v)
    BY <1>5
  <2> DEFINE x == [Blank(u, "delete_evidence", "load") EXCEPT !.evidence = v]
  <2>2. /\ x \in Request /\ x.pc = "load" /\ x.op = "delete_evidence"
        /\ x.evidence = v /\ x.seen = Nil
    BY DEF Blank, Request, Operations, Wish
  <2>3. evidence[v] # Nil /\ Ask(r, x)
    BY <2>1 DEF AskToDeleteEvidence
  <2>4. Valid(x, cases, entities, evidence, files)
    BY <2>2, <2>3 DEF Valid, OnItsCase, Looked
  <2> HIDE DEF x
  <2> QED
    BY <1>1, <2>2, <2>3, <2>4
<1> QED BY <1>2, <1>3, <1>4, <1>5

(* What a request that is not idle knows of itself. *)
LEMMA Known ==
  ASSUME Inv, NEW r \in Requests, req[r].pc # "idle"
  PROVE  /\ req[r] \in Request /\ req[r] # Idle
         /\ Valid(req[r], cases, entities, evidence, files)
BY DEF Inv, Types, Idle, Request

LEMMA EndSteps ==
  ASSUME Inv, NEW r \in Requests, End(r),
         UNCHANGED <<tables, files, workload>>,
         cut' \subseteq Evidences, blind' \subseteq Entities
  PROVE  Inv'
<1>1. Valid(Idle, cases, entities, evidence, files)
  BY DEF Valid
<1>2. Idle.pc # "stored"
  BY DEF Idle
<1>3. req' = [req EXCEPT ![r] = Idle]
  BY DEF End
<1> QED BY <1>1, <1>2, <1>3, OneRequest

LEMMA LookSteps ==
  ASSUME Inv, NEW r \in Requests,
         LoadEntity(r) \/ LoadEvidence(r) \/ CheckCase(r) \/ CheckTarget(r)
  PROVE  Inv'
<1> DEFINE q == req[r]
<1>1. /\ UNCHANGED <<tables, files, workload, cut, blind>>
      /\ q.pc \in {"load", "check", "target"}
  BY DEF LoadEntity, LoadEvidence, CheckCase, CheckTarget, history
<1>2. /\ q \in Request /\ q # Idle
      /\ Valid(q, cases, entities, evidence, files)
  BY <1>1, Known
<1>3. cut' \subseteq Evidences /\ blind' \subseteq Entities
  BY <1>1 DEF Inv, Types
<1>4. CASE End(r)
  BY <1>1, <1>3, <1>4, EndSteps
<1>5. ASSUME NEW x \in Request, req' = [req EXCEPT ![r] = x],
             Valid(x, cases, entities, evidence, files), x.pc # "stored"
      PROVE  Inv'
  BY <1>1, <1>3, <1>5, OneRequest
<1>6. CASE LoadEntity(r)
  <2> DEFINE row == entities[q.entity]
             x == [q EXCEPT !.pc = "check", !.case = row.case,
                            !.held = row.merged]
  <2>1. /\ q.pc = "load" /\ q.op = "merge_entity"
        /\ req' = [req EXCEPT ![r] = x]
    BY <1>6, <1>2 DEF LoadEntity, Inv, Types
  <2>2. /\ q.entity \in Entities /\ row # Nil /\ row \in EntityRow
        /\ cases[row.case] # Nil
    BY <1>2, <2>1 DEF Valid, Inv, Types, Rooted
  <2>3. row.case \in Cases /\ row.merged \in Entities \cup {Nil}
    BY <2>2 DEF EntityRow
  <2>4. /\ x.pc = "check" /\ x.op = q.op /\ x.wish = q.wish
        /\ x.seen = q.seen /\ x.case = row.case /\ x.entity = q.entity
        /\ x.target = q.target /\ x.evidence = q.evidence
    BY <1>2 DEF Request
  <2>5. x \in Request
    BY <1>2, <2>3 DEF Request
  <2> HIDE DEF x, row
  <2>6. Valid(x, cases, entities, evidence, files)
    BY <1>2, <2>1, <2>2, <2>3, <2>4 DEF Valid, OnItsCase, Looked
  <2> QED
    BY <1>5, <2>1, <2>4, <2>5, <2>6
<1>7. CASE LoadEvidence(r) /\ ~End(r)
  <2> DEFINE row == evidence[q.evidence]
             x == [q EXCEPT !.pc = "check", !.case = row.case]
  <2>1. /\ q.pc = "load" /\ q.op = "delete_evidence" /\ row # Gone
        /\ req' = [req EXCEPT ![r] = x]
    BY <1>7, <1>2 DEF LoadEvidence, Inv, Types
  <2>2. /\ q.evidence \in Evidences /\ row # Nil /\ row \in EvidenceRow
        /\ cases[row.case] # Nil
    BY <1>2, <2>1 DEF Valid, Inv, Types, Rooted
  <2>3. row.case \in Cases
    BY <2>2 DEF EvidenceRow
  <2>4. /\ x.pc = "check" /\ x.op = q.op /\ x.wish = q.wish
        /\ x.seen = q.seen /\ x.case = row.case /\ x.entity = q.entity
        /\ x.target = q.target /\ x.evidence = q.evidence
    BY <1>2 DEF Request
  <2>5. x \in Request
    BY <1>2, <2>3 DEF Request
  <2> HIDE DEF x, row
  <2>6. Valid(x, cases, entities, evidence, files)
    BY <1>2, <2>1, <2>2, <2>3, <2>4 DEF Valid, OnItsCase, Looked
  <2> QED
    BY <1>5, <2>1, <2>4, <2>5, <2>6
<1>8. CASE CheckCase(r) /\ ~End(r)
  <2> DEFINE row == cases[q.case]
             to == IF q.op = "merge_entity" THEN "target" ELSE "work"
             x == [q EXCEPT !.pc = to, !.seen = row]
  <2>1. /\ q.pc = "check" /\ req' = [req EXCEPT ![r] = x]
    BY <1>8, <1>2 DEF CheckCase, Inv, Types
  <2>2. q.case \in Cases /\ row # Nil /\ row \in CaseRow
    BY <1>2, <2>1 DEF Valid, OnItsCase, Inv, Types
  <2>3. /\ x.pc = to /\ x.op = q.op /\ x.wish = q.wish
        /\ x.seen = row /\ x.case = q.case /\ x.entity = q.entity
        /\ x.target = q.target /\ x.evidence = q.evidence
    BY <1>2 DEF Request
  <2>4. to \in {"target", "work"} /\ (to = "target" <=> q.op = "merge_entity")
    OBVIOUS
  <2> HIDE DEF to, row
  <2>5. x \in Request
    BY <1>2, <2>2, <2>4 DEF Request
  <2> HIDE DEF x
  <2>6. Valid(x, cases, entities, evidence, files)
    BY <1>2, <2>1, <2>2, <2>3, <2>4 DEF Valid, OnItsCase, Looked
  <2> QED
    BY <1>5, <2>1, <2>3, <2>4, <2>5, <2>6
<1>9. CASE CheckTarget(r) /\ ~End(r)
  <2> DEFINE x == [q EXCEPT !.pc = "work"]
  <2>1. /\ q.pc = "target" /\ req' = [req EXCEPT ![r] = x]
    BY <1>9, <1>2 DEF CheckTarget, Inv, Types
  <2>2. /\ x.pc = "work" /\ x.op = q.op /\ x.wish = q.wish
        /\ x.seen = q.seen /\ x.case = q.case /\ x.entity = q.entity
        /\ x.target = q.target /\ x.evidence = q.evidence
    BY <1>2 DEF Request
  <2>3. x \in Request
    BY <1>2 DEF Request
  <2> HIDE DEF x
  <2>4. Valid(x, cases, entities, evidence, files)
    BY <1>2, <2>1, <2>2 DEF Valid, OnItsCase, Looked
  <2> QED
    BY <1>5, <2>1, <2>2, <2>3, <2>4
<1> QED BY <1>4, <1>6, <1>7, <1>8, <1>9

LEMMA OneStepEnds ==
  ASSUME Inv, NEW r \in Requests, Refresh(r) \/ Answered(r) \/ Fail(r)
  PROVE  Inv'
<1> DEFINE q == req[r]
<1>1. CASE Answered(r)
  BY <1>1, EndSteps DEF Answered, history, Inv, Types
<1>2. CASE Fail(r)
  <2>1. q.pc # "idle"
    BY <1>2 DEF Fail, Inv, Types, Request, Idle
  <2>2. cut' \subseteq Evidences
    BY <1>2, <2>1, Known DEF Fail, Valid, Inv, Types
  <2> QED
    BY <1>2, <2>2, EndSteps DEF Fail, Inv, Types
<1>3. CASE Refresh(r)
  <2> DEFINE row == IF q.op \in {"create_case", "update_case"}
                    THEN cases[q.case] ELSE q.seen
             x == [q EXCEPT !.pc = "answered", !.seen = row]
  <2>1. /\ q.pc = "refresh" /\ q \in Request /\ q # Idle
        /\ Valid(q, cases, entities, evidence, files)
    BY <1>3, Known DEF Refresh
  <2>2. req' = [req EXCEPT ![r] = x]
    BY <1>3, <2>1 DEF Refresh, Inv, Types
  <2>3. /\ q.case \in Cases /\ cases[q.case] \in CaseRow /\ q.seen # Nil
        /\ q.seen \in CaseRow
    BY <2>1 DEF Valid, OnItsCase, Looked, Inv, Types, Request
  <2>4. row \in CaseRow /\ row # Nil
    BY <2>3, CaseworkAssumption
  <2> HIDE DEF row
  <2>5. /\ x.pc = "answered" /\ x.op = q.op /\ x.wish = q.wish
        /\ x.seen = row /\ x.case = q.case /\ x.entity = q.entity
        /\ x.target = q.target /\ x.evidence = q.evidence
    BY <2>1 DEF Request
  <2>6. x \in Request
    BY <2>1, <2>4 DEF Request
  <2> HIDE DEF x
  <2>7. Valid(x, cases, entities, evidence, files)
    BY <2>1, <2>4, <2>5 DEF Valid, OnItsCase, Looked
  <2>8. /\ UNCHANGED <<tables, files, workload, cut, blind>>
        /\ cut' \subseteq Evidences /\ blind' \subseteq Entities
    BY <1>3 DEF Refresh, history, Inv, Types
  <2> QED
    BY <2>2, <2>5, <2>6, <2>7, <2>8, OneRequest
<1> QED BY <1>1, <1>2, <1>3

-----------------------------------------------------------------------------
(* Files. *)

LEMMA FileSteps ==
  ASSUME Inv,
         \/ \E r \in Requests : RemoveFile(r)
         \/ \E r \in Requests, v \in Evidences : StoreFile(r, v)
         \/ \E v \in Evidences : Decay(v)
  PROVE  Inv'
<1>1. ASSUME NEW r \in Requests, NEW x \in Request,
             req' = [req EXCEPT ![r] = x],
             files' \in [Evidences -> {"none", "intact", "altered"}],
             UNCHANGED <<tables, history>>,
             Valid(x, cases, entities, evidence, files'),
             x.pc = "stored" =>
               \A q \in Requests \ {r} :
                 req[q].pc = "stored" => req[q].evidence # x.evidence,
             \A q \in Requests \ {r} :
               /\ req[q].pc = "stored" =>
                    files'[req[q].evidence] = files[req[q].evidence]
               /\ req[q].pc = "removed" =>
                    files'[req[q].evidence]
                      \in {"none", files[req[q].evidence]}
      PROVE  Inv'
  <2> USE DEF tables, history
  <2>1. Types'
    BY <1>1 DEF Inv, Types
  <2>2. Rooted(cases, entities, evidence)'
    BY <1>1 DEF Inv, Rooted
  <2>3. req'[r] = x /\ \A q \in Requests \ {r} : req'[q] = req[q]
    BY <1>1 DEF Inv, Types
  <2>4. Distinct'
    BY <1>1, <2>3 DEF Inv, Distinct
  <2>5. ASSUME NEW q \in Requests \ {r}
        PROVE  Valid(req[q], cases, entities, evidence, files')
    <3>1. Valid(req[q], cases, entities, evidence, files)
      BY DEF Inv
    <3>2. req[q] # Idle /\ req[q].pc = "removed" =>
            files'[req[q].evidence] = "none"
      BY <3>1, <1>1 DEF Valid
    <3>3. req[q] # Idle /\ req[q].pc = "stored" =>
            /\ files'[req[q].evidence] = "intact"
            /\ evidence[req[q].evidence] = Nil
      BY <3>1, <1>1 DEF Valid
    <3> QED BY <3>1, <3>2, <3>3, Kept
  <2> QED
    BY <1>1, <2>1, <2>2, <2>3, <2>4, <2>5 DEF Inv
<1>2. ASSUME NEW r \in Requests, RemoveFile(r) PROVE Inv'
  <2> DEFINE q == req[r]
             x == [q EXCEPT !.pc = "removed"]
  <2>1. /\ q \in Request /\ q # Idle /\ q.pc = "work"
        /\ q.op = "delete_evidence"
        /\ Valid(q, cases, entities, evidence, files)
    BY <1>2, Known DEF RemoveFile
  <2>2. /\ req' = [req EXCEPT ![r] = x]
        /\ files' = [files EXCEPT ![q.evidence] = "none"]
        /\ UNCHANGED <<tables, history>>
    BY <1>2, <2>1 DEF RemoveFile, Inv, Types
  <2>3. q.evidence \in Evidences /\ evidence[q.evidence] # Nil
    BY <2>1 DEF Valid
  <2>4. x \in Request
    BY <2>1 DEF Request
  <2>5. /\ x.pc = "removed" /\ x.op = q.op /\ x.wish = q.wish
        /\ x.seen = q.seen /\ x.case = q.case /\ x.entity = q.entity
        /\ x.target = q.target /\ x.evidence = q.evidence
    BY <2>1 DEF Request
  <2> HIDE DEF x
  <2>6. files'[q.evidence] = "none"
    BY <2>2, <2>3 DEF Inv, Types
  <2>7. Valid(x, cases, entities, evidence, files')
    BY <2>1, <2>5, <2>6 DEF Valid, OnItsCase, Looked
  <2>8. ASSUME NEW p \in Requests \ {r}
        PROVE  /\ req[p].pc = "stored" =>
                    files'[req[p].evidence] = files[req[p].evidence]
               /\ req[p].pc = "removed" =>
                    files'[req[p].evidence]
                      \in {"none", files[req[p].evidence]}
    <3>1. CASE req[p].pc \in {"stored", "removed"}
      <4>1. /\ req[p].evidence \in Evidences
            /\ req[p].pc = "stored" => req[p].evidence # q.evidence
        BY <2>3, <3>1, Known DEF Valid
      <4> QED BY <2>2, <2>3, <4>1 DEF Inv, Types
    <3> QED BY <3>1
  <2>9. files' \in [Evidences -> {"none", "intact", "altered"}]
    BY <2>2 DEF Inv, Types
  <2> QED
    BY <1>1, <2>2, <2>4, <2>5, <2>7, <2>8, <2>9
<1>3. ASSUME NEW r \in Requests, NEW v \in Evidences, StoreFile(r, v)
      PROVE  Inv'
  <2> DEFINE q == req[r]
             x == [q EXCEPT !.pc = "stored", !.evidence = v]
  <2>1. /\ q \in Request /\ q # Idle /\ q.pc = "work"
        /\ q.op = "upload_evidence"
        /\ Valid(q, cases, entities, evidence, files)
    BY <1>3, Known DEF StoreFile
  <2>2. /\ req' = [req EXCEPT ![r] = x]
        /\ files' = [files EXCEPT ![v] = "intact"]
        /\ UNCHANGED <<tables, history>>
    BY <1>3, <2>1 DEF StoreFile, Inv, Types
  <2>3. /\ evidence[v] = Nil
        /\ \A p \in Requests : req[p] # Idle => req[p].evidence # v
    BY <1>3 DEF StoreFile, Fresh
  <2>4. x \in Request
    BY <2>1 DEF Request
  <2>5. /\ x.pc = "stored" /\ x.op = q.op /\ x.wish = q.wish
        /\ x.seen = q.seen /\ x.case = q.case /\ x.entity = q.entity
        /\ x.target = q.target /\ x.evidence = v
    BY <2>1 DEF Request
  <2> HIDE DEF x
  <2>6. files'[v] = "intact"
    BY <2>2 DEF Inv, Types
  <2>7. Valid(x, cases, entities, evidence, files')
    BY <2>1, <2>3, <2>5, <2>6 DEF Valid, OnItsCase, Looked
  <2>8. ASSUME NEW p \in Requests \ {r},
               req[p].pc = "stored" \/ req[p].pc = "removed"
        PROVE  req[p].evidence # v
    BY <2>3, <2>8, Known
  <2>9. ASSUME NEW p \in Requests \ {r},
               req[p].pc = "stored" \/ req[p].pc = "removed"
        PROVE  files'[req[p].evidence] = files[req[p].evidence]
    BY <2>2, <2>8, <2>9, Known DEF Valid, Inv, Types
  <2>10. files' \in [Evidences -> {"none", "intact", "altered"}]
    BY <2>2 DEF Inv, Types
  <2> QED
    BY <1>1, <2>2, <2>4, <2>5, <2>7, <2>8, <2>9, <2>10
<1>4. ASSUME NEW v \in Evidences, Decay(v) PROVE Inv'
  <2>1. /\ files[v] = "intact" /\ evidence[v] # Nil
        /\ files' = [files EXCEPT ![v] = "altered"]
        /\ UNCHANGED <<tables, req, history>>
    BY <1>4 DEF Decay
  <2> USE DEF tables, history
  <2>2. Types'
    BY <2>1 DEF Inv, Types
  <2>3. Rooted(cases, entities, evidence)' /\ Distinct'
    BY <2>1 DEF Inv, Rooted, Distinct
  <2>4. ASSUME NEW q \in Requests
        PROVE  Valid(req[q], cases, entities, evidence, files')
    <3>1. Valid(req[q], cases, entities, evidence, files)
      BY DEF Inv
    <3>2. req[q] # Idle /\ req[q].pc = "removed" =>
            files'[req[q].evidence] = "none"
      BY <3>1, <2>1 DEF Valid, Inv, Types
    <3>3. req[q] # Idle /\ req[q].pc = "stored" =>
            /\ files'[req[q].evidence] = "intact"
            /\ evidence[req[q].evidence] = Nil
      BY <3>1, <2>1 DEF Valid, Inv, Types
    <3> QED BY <3>1, <3>2, <3>3, Kept
  <2> QED
    BY <2>1, <2>2, <2>3, <2>4 DEF Inv
<1> QED BY <1>2, <1>3, <1>4

-----------------------------------------------------------------------------
(* Commits. *)

(* What a commit does to the request that makes it and to the others.      *)
LEMMA LeftRequests ==
  ASSUME Inv, NEW r \in Requests, NEW pc, NEW c, NEW row, NEW asked,
         Leave(r, pc, c, row, asked), req[r] \in Request
  PROVE  /\ req'[r] = [req[r] EXCEPT !.pc = pc, !.case = c, !.seen = row]
         /\ \A q \in Requests \ {r} :
              \/ req'[q] = req[q]
              \/ /\ req[q] # Idle
                 /\ req'[q] = [req[q] EXCEPT !.overtaken = @ \cup asked]
         /\ req' = [q \in Requests |-> req'[q]]
BY DEF Leave

(* A commit keeps the invariant if it leaves sound tables, takes no row    *)
(* away, gives no row to a file that another request has just stored, and  *)
(* leaves its own request valid.                                           *)
LEMMA CommitKeeps ==
  ASSUME Inv, NEW r \in Requests, req[r] \in Request,
         NEW pc \in {"refresh", "answered"}, NEW c \in Cases,
         NEW row \in CaseRow, NEW asked \in SUBSET Columns,
         Leave(r, pc, c, row, asked),
         files' = files, workload' = workload, cut' = cut,
         blind' \subseteq Entities,
         cases' \in [Cases -> CaseRow \cup {Nil}],
         entities' \in [Entities -> EntityRow \cup {Nil}],
         evidence' \in [Evidences -> EvidenceRow \cup {Nil, Gone}],
         jobs' \in [Cases -> 0..MaxJobs],
         Rooted(cases', entities', evidence'),
         \A d \in Cases : cases[d] # Nil => cases'[d] # Nil,
         \A e \in Entities : entities[e] # Nil => entities'[e] # Nil,
         \A v \in Evidences : evidence[v] # Nil => evidence'[v] # Nil,
         \A q \in Requests \ {r} :
           req[q].pc = "stored" => evidence'[req[q].evidence] = Nil,
         cases'[c] # Nil,
         pc = "refresh" =>
           req[r].op \notin {"merge_entity", "delete_evidence"}
  PROVE  Inv'
<1> DEFINE x == [req[r] EXCEPT !.pc = pc, !.case = c, !.seen = row]
<1>1. /\ req'[r] = x
      /\ \A q \in Requests \ {r} :
           \/ req'[q] = req[q]
           \/ /\ req[q] # Idle
              /\ req'[q] = [req[q] EXCEPT !.overtaken = @ \cup asked]
      /\ req' = [q \in Requests |-> req'[q]]
  BY LeftRequests
<1>2. x \in Request
  BY DEF Request
<1>3. /\ x.pc = pc /\ x.op = req[r].op /\ x.wish = req[r].wish
      /\ x.seen = row /\ x.case = c /\ x.entity = req[r].entity
      /\ x.target = req[r].target /\ x.evidence = req[r].evidence
  BY DEF Request
<1> HIDE DEF x
<1>4. Valid(x, cases', entities', evidence', files')
  <2>1. Valid(req[r], cases, entities, evidence, files) /\ req[r] # Idle
    BY NotIdle DEF Inv
  <2>2. row # Nil
    BY CaseworkAssumption
  <2> QED
    BY <2>1, <2>2, <1>3 DEF Valid, OnItsCase, Looked
<1>5. ASSUME NEW q \in Requests \ {r}
      PROVE  /\ req'[q] \in Request \cup {Idle}
             /\ Valid(req'[q], cases', entities', evidence', files')
             /\ req'[q].pc = req[q].pc /\ req'[q].evidence = req[q].evidence
  <2>1. Valid(req[q], cases, entities, evidence, files)
    BY DEF Inv
  <2>2. Valid(req[q], cases', entities', evidence', files')
    <3>1. req[q] # Idle /\ req[q].pc = "stored" =>
            /\ evidence'[req[q].evidence] = Nil
            /\ files'[req[q].evidence] = "intact"
      BY <2>1 DEF Valid
    <3>2. req[q] # Idle /\ req[q].pc = "removed" =>
            files'[req[q].evidence] = "none"
      BY <2>1 DEF Valid
    <3> QED BY <2>1, <3>1, <3>2, Kept
  <2>3. CASE req'[q] = req[q]
    BY <2>2, <2>3 DEF Inv, Types
  <2>4. CASE /\ req[q] # Idle
             /\ req'[q] = [req[q] EXCEPT !.overtaken = @ \cup asked]
    <3>1. req[q] \in Request
      BY <2>4 DEF Inv, Types
    <3>2. req'[q] = Overtaken(req[q], asked)
      BY <2>4 DEF Overtaken
    <3> QED BY <2>2, <3>1, <3>2, OvertakenValid
  <2> QED BY <1>1, <2>3, <2>4
<1>6. Types'
  <2>1. req' \in [Requests -> Request \cup {Idle}]
    BY <1>1, <1>2, <1>5
  <2> QED BY <2>1 DEF Inv, Types
<1>7. Distinct'
  BY <1>1, <1>3, <1>5 DEF Inv, Distinct
<1>8. \A q \in Requests : Valid(req'[q], cases', entities', evidence', files')
  BY <1>1, <1>4, <1>5
<1> QED BY <1>6, <1>7, <1>8 DEF Inv

LEMMA CaseCommits ==
  ASSUME Inv, NEW r \in Requests,
         \/ \E c \in Cases : CreateCase(r, c)
         \/ UpdateCase(r) \/ DeleteCase(r)
  PROVE  Inv'
<1> DEFINE q == req[r]
<1>1. /\ q.pc = "work" /\ q \in Request
      /\ Valid(q, cases, entities, evidence, files)
      /\ UNCHANGED <<entities, evidence, jobs, files, workload, cut, blind>>
  BY Known DEF CreateCase, UpdateCase, DeleteCase, AtCommit, history
<1>2. ASSUME NEW pc \in {"refresh", "answered"}, NEW c \in Cases,
             NEW row \in CaseRow, NEW asked \in SUBSET Columns,
             Leave(r, pc, c, row, asked),
             cases' = [cases EXCEPT ![c] = row],
             pc = "refresh" => q.op \notin {"merge_entity", "delete_evidence"}
      PROVE  Inv'
  <2>1. /\ cases' \in [Cases -> CaseRow \cup {Nil}] /\ cases'[c] # Nil
        /\ \A d \in Cases : cases[d] # Nil => cases'[d] # Nil
    BY <1>2, CaseworkAssumption DEF Inv, Types
  <2>2. Rooted(cases', entities', evidence')
    BY <1>1, <2>1 DEF Inv, Types, Rooted, EntityRow, EvidenceRow
  <2>3. ASSUME NEW p \in Requests \ {r}, req[p].pc = "stored"
        PROVE  evidence'[req[p].evidence] = Nil
    BY <1>1, <2>3, Known DEF Valid
  <2>4. /\ entities' \in [Entities -> EntityRow \cup {Nil}]
        /\ evidence' \in [Evidences -> EvidenceRow \cup {Nil, Gone}]
        /\ jobs' \in [Cases -> 0..MaxJobs] /\ blind' \subseteq Entities
        /\ \A e \in Entities : entities[e] # Nil => entities'[e] # Nil
        /\ \A v \in Evidences : evidence[v] # Nil => evidence'[v] # Nil
    BY <1>1 DEF Inv, Types
  <2> QED
    BY <1>1, <1>2, <2>1, <2>2, <2>3, <2>4, CommitKeeps
<1>3. ASSUME NEW c \in Cases, CreateCase(r, c) PROVE Inv'
  <2> DEFINE row == [owner |-> q.user, level |-> q.wish.level,
                     status |-> "OPEN", deleted |-> FALSE]
  <2>1. /\ q.op = "create_case" /\ cases' = [cases EXCEPT ![c] = row]
        /\ Leave(r, "refresh", c, row, {})
    BY <1>3 DEF CreateCase, AtCommit
  <2>2. q.wish.level \in Levels /\ q.user \in Users
    BY <1>1, <2>1, NotIdle DEF Valid, Request
  <2>3. row \in CaseRow
    BY <2>2 DEF CaseRow, Status
  <2>4. {} \in SUBSET Columns
    OBVIOUS
  <2> HIDE DEF row
  <2> QED BY <1>2, <2>1, <2>3, <2>4
<1>4. CASE UpdateCase(r) \/ DeleteCase(r)
  <2>1. /\ q.case \in Cases /\ cases[q.case] \in CaseRow
        /\ q.seen \in CaseRow
    <3>1. q.op # "create_case"
      BY <1>4 DEF UpdateCase, DeleteCase, AtCommit
    <3> QED
      BY <3>1, <1>1, NotIdle DEF Valid, OnItsCase, Looked, Inv, Types, Request
  <2>2. CASE UpdateCase(r)
    <3> DEFINE set == UpdateData(r)
               asked == {k \in {"level", "status"} : set[k] # Nil}
               row == [cases[q.case] EXCEPT
                   !.level = Written(set.level, q.seen.level, @),
                   !.status = Written(set.status, q.seen.status, @)]
    <3>1. /\ q.op = "update_case" /\ cases' = [cases EXCEPT ![q.case] = row]
          /\ Leave(r, "refresh", q.case, row, asked)
      BY <2>2 DEF UpdateCase, AtCommit
    <3>2. /\ Written(set.level, q.seen.level, cases[q.case].level) \in Levels
          /\ Written(set.status, q.seen.status, cases[q.case].status)
               \in Status
      BY <1>1, <2>1 DEF UpdateData, Written, Request, Wish, CaseRow
    <3>3. row \in CaseRow
      BY <2>1, <3>2 DEF CaseRow
    <3>4. asked \in SUBSET Columns
      BY DEF Columns
    <3> HIDE DEF row, set, asked
    <3> QED BY <1>2, <2>1, <3>1, <3>3, <3>4
  <2>3. CASE DeleteCase(r)
    <3> DEFINE row == [cases[q.case] EXCEPT !.deleted = TRUE]
    <3>1. /\ cases' = [cases EXCEPT ![q.case] = row]
          /\ Leave(r, "answered", q.case, row, {"deleted"})
      BY <2>3 DEF DeleteCase
    <3>2. row \in CaseRow
      BY <2>1 DEF CaseRow
    <3> HIDE DEF row
    <3>3. {"deleted"} \in SUBSET Columns
      BY DEF Columns
    <3> QED BY <1>2, <2>1, <3>1, <3>2, <3>3
  <2> QED BY <1>4, <2>2, <2>3
<1> QED BY <1>3, <1>4

LEMMA OtherCommits ==
  ASSUME Inv, NEW r \in Requests,
         \/ \E e \in Entities : CreateEntity(r, e)
         \/ \E v \in Evidences : CreateEvidence(r, v)
         \/ MergeEntity(r) \/ UploadEvidence(r) \/ DeleteEvidence(r)
         \/ GenerateReport(r)
  PROVE  Inv'
<1> DEFINE q == req[r]
<1> USE DEF AtCommit, Settle
<1>1. /\ q.pc # "idle" /\ Looked(q) /\ cases' = cases /\ files' = files
      /\ workload' = workload /\ cut' = cut
  BY DEF CreateEntity, CreateEvidence, MergeEntity, UploadEvidence,
         DeleteEvidence, GenerateReport, history, Looked, OnItsCase
<1>2. /\ q \in Request /\ Valid(q, cases, entities, evidence, files)
      /\ q # Idle
  BY <1>1, Known
<1>3. q.case \in Cases /\ cases[q.case] # Nil /\ cases[q.case] \in CaseRow
  BY <1>1, <1>2 DEF Valid, Looked, Inv, Types
<1>4. ASSUME NEW pc \in {"refresh", "answered"}, Settle(r, pc),
             pc = "refresh" => q.op \notin {"merge_entity", "delete_evidence"},
             entities' \in [Entities -> EntityRow \cup {Nil}],
             evidence' \in [Evidences -> EvidenceRow \cup {Nil, Gone}],
             jobs' \in [Cases -> 0..MaxJobs], blind' \subseteq Entities,
             \A e \in Entities :
               /\ entities[e] # Nil => entities'[e] # Nil
               /\ \/ entities'[e] = Nil
                  \/ entities[e] # Nil /\ entities'[e].case = entities[e].case
                  \/ entities'[e].case = q.case,
             \A v \in Evidences :
               /\ evidence[v] # Nil => evidence'[v] # Nil
               /\ \/ evidence'[v] \in {Nil, Gone, evidence[v]}
                  \/ evidence'[v].case = q.case,
             \A p \in Requests \ {r} :
               req[p].pc = "stored" => evidence'[req[p].evidence] = Nil
      PROVE  Inv'
  <2>1. Rooted(cases', entities', evidence')
    BY <1>1, <1>3, <1>4 DEF Inv, Rooted
  <2>2. cases' \in [Cases -> CaseRow \cup {Nil}]
    BY <1>1 DEF Inv, Types
  <2> QED
    BY <1>1, <1>2, <1>3, <1>4, <2>1, <2>2, CommitKeeps
<1>5. ASSUME NEW p \in Requests, req[p].pc = "stored"
      PROVE  /\ req[p].evidence \in Evidences
             /\ evidence[req[p].evidence] = Nil
             /\ req[p].op = "upload_evidence" /\ req[p] # Idle
  BY <1>5, Known DEF Valid
<1>6. ASSUME evidence' = evidence
      PROVE  /\ evidence' \in [Evidences -> EvidenceRow \cup {Nil, Gone}]
             /\ \A v \in Evidences :
               /\ evidence[v] # Nil => evidence'[v] # Nil
               /\ \/ evidence'[v] \in {Nil, Gone, evidence[v]}
                  \/ evidence'[v].case = q.case
             /\ \A p \in Requests \ {r} :
               req[p].pc = "stored" => evidence'[req[p].evidence] = Nil
  BY <1>5, <1>6 DEF Inv, Types
<1>7. ASSUME entities' = entities, blind' = blind
      PROVE  /\ entities' \in [Entities -> EntityRow \cup {Nil}]
             /\ blind' \subseteq Entities
             /\ \A e \in Entities :
               /\ entities[e] # Nil => entities'[e] # Nil
               /\ \/ entities'[e] = Nil
                  \/ entities[e] # Nil /\ entities'[e].case = entities[e].case
                  \/ entities'[e].case = q.case
  BY <1>7 DEF Inv, Types
<1>8. jobs' = jobs => jobs' \in [Cases -> 0..MaxJobs]
  BY DEF Inv, Types
<1>9. ASSUME NEW e \in Entities, CreateEntity(r, e) PROVE Inv'
  <2> DEFINE row == [case |-> q.case, merged |-> Nil]
  <2>1. /\ q.op = "create_entity" /\ entities' = [entities EXCEPT ![e] = row]
        /\ evidence' = evidence /\ jobs' = jobs /\ blind' = blind
        /\ Settle(r, "refresh") /\ entities[e] = Nil
    BY <1>9 DEF CreateEntity, history
  <2>2. row \in EntityRow /\ row # Nil /\ row.case = q.case
    BY <1>3, CaseworkAssumption DEF EntityRow
  <2> HIDE DEF row
  <2>3. /\ entities' \in [Entities -> EntityRow \cup {Nil}]
        /\ blind' \subseteq Entities
        /\ \A d \in Entities :
             /\ entities[d] # Nil => entities'[d] # Nil
             /\ \/ entities'[d] = Nil
                \/ entities[d] # Nil /\ entities'[d].case = entities[d].case
                \/ entities'[d].case = q.case
    BY <2>1, <2>2 DEF Inv, Types
  <2> QED
    BY <1>4, <1>6, <1>8, <2>1, <2>3
<1>10. ASSUME MergeEntity(r) PROVE Inv'
  <2> DEFINE e == q.entity
             t == q.target
             row == [entities[e] EXCEPT !.merged = t]
  <2>1. /\ q.op = "merge_entity"
        /\ evidence' = evidence /\ jobs' = jobs
        /\ Settle(r, "answered")
        /\ blind' \in {blind, blind \cup {e}, blind \ {e}}
        /\ \/ entities' = entities
           \/ entities' = [entities EXCEPT ![e].merged = t]
    BY <1>10 DEF MergeEntity
  <2>2. e \in Entities /\ t \in Entities /\ entities[e] # Nil
    BY <1>2, <2>1 DEF Valid
  <2>3. entities[e] \in EntityRow
    BY <2>2 DEF Inv, Types
  <2>4. row \in EntityRow /\ row # Nil /\ row.case = entities[e].case
    BY <2>2, <2>3, CaseworkAssumption DEF EntityRow
  <2>5. \/ entities' = entities
        \/ entities' = [entities EXCEPT ![e] = row]
    BY <2>1, <2>2 DEF Inv, Types
  <2> HIDE DEF row
  <2>6. /\ entities' \in [Entities -> EntityRow \cup {Nil}]
        /\ \A d \in Entities :
             /\ entities[d] # Nil => entities'[d] # Nil
             /\ \/ entities'[d] = Nil
                \/ entities[d] # Nil /\ entities'[d].case = entities[d].case
                \/ entities'[d].case = q.case
    BY <2>2, <2>4, <2>5 DEF Inv, Types
  <2>7. blind' \subseteq Entities
    BY <2>1, <2>2 DEF Inv, Types
  <2> QED
    BY <1>4, <1>6, <1>8, <2>1, <2>6, <2>7
<1>11. ASSUME NEW pc \in {"refresh", "answered"}, Settle(r, pc),
              pc = "refresh" =>
                q.op \notin {"merge_entity", "delete_evidence"},
              NEW v \in Evidences, NEW row \in EvidenceRow \cup {Gone},
              evidence' = [evidence EXCEPT ![v] = row],
              UNCHANGED <<entities, jobs, blind>>,
              row = Gone \/ row.case = q.case,
              \A p \in Requests \ {r} :
                req[p].pc = "stored" => req[p].evidence # v
       PROVE  Inv'
  <2>1. row # Nil
    BY CaseworkAssumption
  <2>2. /\ evidence' \in [Evidences -> EvidenceRow \cup {Nil, Gone}]
        /\ \A w \in Evidences :
             /\ evidence[w] # Nil => evidence'[w] # Nil
             /\ \/ evidence'[w] \in {Nil, Gone, evidence[w]}
                \/ evidence'[w].case = q.case
    BY <1>11, <2>1 DEF Inv, Types
  <2>3. ASSUME NEW p \in Requests \ {r}, req[p].pc = "stored"
        PROVE  evidence'[req[p].evidence] = Nil
    BY <1>5, <1>11, <2>3 DEF Inv, Types
  <2> QED
    BY <1>4, <1>7, <1>8, <1>11, <2>2, <2>3
<1>12. ASSUME NEW v \in Evidences, CreateEvidence(r, v) PROVE Inv'
  <2> DEFINE row == [case |-> q.case, entity |-> q.entity, stored |-> FALSE]
  <2>1. /\ q.op = "create_evidence" /\ Settle(r, "refresh")
        /\ evidence' = [evidence EXCEPT ![v] = row]
        /\ UNCHANGED <<entities, jobs, blind>>
        /\ \A p \in Requests : req[p] # Idle => req[p].evidence # v
    BY <1>12 DEF CreateEvidence, Fresh, history
  <2>2. row \in EvidenceRow /\ row.case = q.case
    BY <1>2, <1>3 DEF EvidenceRow, Request
  <2> HIDE DEF row
  <2> QED
    BY <1>5, <1>11, <2>1, <2>2
<1>13. ASSUME UploadEvidence(r) PROVE Inv'
  <2> DEFINE row == [case |-> q.case, entity |-> Nil, stored |-> TRUE]
  <2>1. /\ q.pc = "stored" /\ Settle(r, "refresh")
        /\ evidence' = [evidence EXCEPT ![q.evidence] = row]
        /\ UNCHANGED <<entities, jobs, blind>>
    BY <1>13 DEF UploadEvidence, history
  <2>2. row \in EvidenceRow /\ row.case = q.case
    BY <1>3 DEF EvidenceRow
  <2>3. q.op = "upload_evidence" /\ q.evidence \in Evidences
    BY <1>5, <2>1
  <2>4. \A p \in Requests \ {r} :
          req[p].pc = "stored" => req[p].evidence # q.evidence
    BY <2>1 DEF Inv, Distinct
  <2> HIDE DEF row
  <2> QED
    BY <1>11, <2>1, <2>2, <2>3, <2>4
<1>14. ASSUME DeleteEvidence(r) PROVE Inv'
  <2>1. /\ q.pc = "removed" /\ Settle(r, "answered")
        /\ evidence' = [evidence EXCEPT ![q.evidence] = Gone]
        /\ UNCHANGED <<entities, jobs, blind>>
    BY <1>14 DEF DeleteEvidence, history
  <2>2. q.evidence \in Evidences /\ evidence[q.evidence] # Nil
    BY <1>2, <2>1 DEF Valid
  <2>3. \A p \in Requests \ {r} :
          req[p].pc = "stored" => req[p].evidence # q.evidence
    BY <1>5, <2>2
  <2> QED
    BY <1>11, <2>1, <2>2, <2>3
<1>15. ASSUME GenerateReport(r) PROVE Inv'
  <2>1. /\ Settle(r, "answered") /\ UNCHANGED <<entities, evidence, blind>>
        /\ jobs[q.case] < MaxJobs
        /\ jobs' = [jobs EXCEPT ![q.case] = @ + 1]
    BY <1>15 DEF GenerateReport, history
  <2>2. jobs' \in [Cases -> 0..MaxJobs]
    BY <1>3, <2>1, CaseworkAssumption DEF Inv, Types
  <2> QED
    BY <1>4, <1>6, <1>7, <2>1, <2>2
<1> QED BY <1>9, <1>10, <1>12, <1>13, <1>14, <1>15

LEMMA NextKeeps == Inv /\ [Next]_vars => Inv'
<1> SUFFICES ASSUME Inv, [Next]_vars PROVE Inv'
  OBVIOUS
<1>1. CASE UNCHANGED vars
  BY <1>1 DEF vars, tables, history, Inv, Types, Rooted, Distinct
<1>2. CASE Next
  BY <1>2, AskSteps, LookSteps, FileSteps, CaseCommits, OtherCommits,
     OneStepEnds DEF Next
<1> QED BY <1>1, <1>2

LEMMA Always == Spec => []Inv
BY InitHolds, NextKeeps, PTL DEF Spec

LEMMA InvTypes == Inv => TypeOK
<1> SUFFICES ASSUME Inv, NEW r \in Requests,
                    req[r].pc \in {"target", "work", "stored", "removed"},
                    req[r].op # "create_case"
             PROVE  req[r].seen # Nil
  BY DEF Inv, Types, TypeOK
<1> QED BY Known DEF Valid, Looked, OnItsCase

(* Every table and request of cases.py, entities.py and evidence.py has    *)
(* its type, and a handler that is past _assert_case_access has a case.    *)
THEOREM TypeCorrect == Spec => []TypeOK
BY Always, InvTypes, PTL

-----------------------------------------------------------------------------
(* Rows and files. *)

FilesAgree ==
  \A v \in Evidences :
    /\ InRow(v) /\ evidence[v].stored /\ files[v] = "none" =>
         v \in cut \/ Between(v, "removed")
    /\ ~InRow(v) /\ files[v] # "none" => v \in cut \/ Between(v, "stored")

(* Requests between their file and their commit that stay there.           *)
Stays(p) == req'[p].pc = req[p].pc /\ req'[p].evidence = req[p].evidence

OthersStay(r) == \A p \in Requests \ {r} : Stays(p)

LEMMA QuietFiles ==
  ASSUME FilesAgree, UNCHANGED <<evidence, files>>, cut \subseteq cut',
         \A p \in Requests : req[p].pc \in {"stored", "removed"} =>
           Stays(p) \/ req[p].evidence \in cut'
  PROVE  FilesAgree'
<1> SUFFICES ASSUME NEW v \in Evidences
             PROVE  /\ InRow(v)' /\ evidence'[v].stored /\ files'[v] = "none"
                       => v \in cut' \/ Between(v, "removed")'
                    /\ ~InRow(v)' /\ files'[v] # "none"
                       => v \in cut' \/ Between(v, "stored")'
  BY DEF FilesAgree
<1>1. InRow(v)' <=> InRow(v)
  BY DEF InRow
<1>2. ASSUME NEW pc \in {"stored", "removed"}, Between(v, pc)
      PROVE  v \in cut' \/ Between(v, pc)'
  BY <1>2 DEF Between, Stays
<1> QED BY <1>1, <1>2 DEF FilesAgree

(* The other requests keep what a commit does not concern. *)
LEMMA LeftOthers ==
  ASSUME Inv, NEW r \in Requests, NEW pc, NEW c, NEW row, NEW asked,
         Leave(r, pc, c, row, asked), NEW p \in Requests \ {r}
  PROVE  \/ req'[p] = req[p]
         \/ /\ req[p] \in Request
            /\ req'[p] = [req[p] EXCEPT !.overtaken = @ \cup asked]
            /\ req'[p].pc = req[p].pc /\ req'[p].evidence = req[p].evidence
<1>1. CASE req'[p] = req[p]
  BY <1>1
<1>2. CASE req'[p] # req[p]
  <2>1. req[p] # Idle /\ req'[p] = [req[p] EXCEPT !.overtaken = @ \cup asked]
    BY <1>2 DEF Leave
  <2>2. req[p] \in Request
    BY <2>1 DEF Inv, Types
  <2>3. /\ [req[p] EXCEPT !.overtaken = @ \cup asked].pc = req[p].pc
        /\ [req[p] EXCEPT !.overtaken = @ \cup asked].evidence
             = req[p].evidence
    BY <2>2 DEF Request
  <2> QED BY <2>1, <2>2, <2>3
<1> QED BY <1>1, <1>2

LEMMA LeaversLeaveOthers ==
  ASSUME Inv, NEW r \in Requests, NEW pc, NEW c, NEW row, NEW asked,
         Leave(r, pc, c, row, asked)
  PROVE  OthersStay(r)
BY LeftOthers DEF OthersStay, Stays

LEMMA AskersAreQuiet ==
  ASSUME Inv, FilesAgree, NEW r \in Requests, NEW x, Ask(r, x)
  PROVE  FilesAgree'
<1>1. /\ req[r] = Idle /\ req' = [req EXCEPT ![r] = x]
      /\ UNCHANGED <<evidence, files, cut>>
  BY DEF Ask, tables, history
<1>2. \A p \in Requests : req[p].pc \in {"stored", "removed"} => Stays(p)
  BY <1>1 DEF Stays, Idle, Inv, Types
<1> QED BY <1>1, <1>2, QuietFiles

LEMMA FilesFollow ==
  ASSUME Inv, FilesAgree, Next
  PROVE  FilesAgree'
<1> USE DEF tables, history
<1>1. ASSUME NEW r \in Requests, OthersStay(r),
             UNCHANGED <<evidence, files>>, cut \subseteq cut',
             req[r].pc \in {"stored", "removed"} => req[r].evidence \in cut'
      PROVE  FilesAgree'
  BY <1>1, QuietFiles DEF OthersStay
<1>2. ASSUME NEW r \in Requests, NEW x, req' = [req EXCEPT ![r] = x]
      PROVE  OthersStay(r)
  BY <1>2 DEF OthersStay, Stays, Inv, Types
<1>3. ASSUME NEW r \in Requests,
             \/ LoadEntity(r) \/ LoadEvidence(r) \/ CheckCase(r)
             \/ CheckTarget(r) \/ Refresh(r) \/ Answered(r)
      PROVE  FilesAgree'
  <2>1. /\ req[r].pc \notin {"stored", "removed"}
        /\ UNCHANGED <<evidence, files, cut>>
    BY <1>3 DEF LoadEntity, LoadEvidence, CheckCase, CheckTarget, Refresh,
                Answered
  <2>2. OthersStay(r)
    BY <1>3 DEF LoadEntity, LoadEvidence, CheckCase, CheckTarget, Refresh,
                Answered, End, OthersStay, Stays, Inv, Types
  <2> QED BY <1>1, <2>1, <2>2
<1>4. ASSUME NEW r \in Requests, Fail(r) PROVE FilesAgree'
  <2>1. /\ cut \subseteq cut' /\ UNCHANGED <<evidence, files>>
        /\ req[r].pc \in {"stored", "removed"} => req[r].evidence \in cut'
        /\ req' = [req EXCEPT ![r] = Idle]
    BY <1>4 DEF Fail, End
  <2> QED BY <1>1, <1>2, <2>1
<1>5. ASSUME NEW r \in Requests,
             \/ \E c \in Cases : CreateCase(r, c)
             \/ \E e \in Entities : CreateEntity(r, e)
             \/ UpdateCase(r) \/ DeleteCase(r) \/ MergeEntity(r)
             \/ GenerateReport(r)
      PROVE  FilesAgree'
  <2>1. /\ req[r].pc = "work" /\ UNCHANGED <<evidence, files, cut>>
        /\ \E pc \in {"refresh", "answered"} :
             \E c \in Cases \cup {req[r].case} : \E row, asked :
               Leave(r, pc, c, row, asked)
    BY <1>5 DEF CreateCase, CreateEntity, UpdateCase, DeleteCase, MergeEntity,
                GenerateReport, AtCommit, Settle
  <2> QED BY <1>1, <2>1, LeaversLeaveOthers
<1>6. ASSUME NEW r \in Requests, NEW v \in Evidences, OthersStay(r),
             \A w \in Evidences \ {v} :
               evidence'[w] = evidence[w] /\ files'[w] = files[w],
             cut' = cut,
             req[r].pc \in {"stored", "removed"} => req[r].evidence = v,
             InRow(v)' /\ evidence'[v].stored /\ files'[v] = "none" =>
               v \in cut' \/ Between(v, "removed")',
             ~InRow(v)' /\ files'[v] # "none" =>
               v \in cut' \/ Between(v, "stored")'
      PROVE  FilesAgree'
  <2>1. ASSUME NEW w \in Evidences \ {v}
        PROVE  /\ InRow(w)' /\ evidence'[w].stored /\ files'[w] = "none"
                  => w \in cut' \/ Between(w, "removed")'
               /\ ~InRow(w)' /\ files'[w] # "none"
                  => w \in cut' \/ Between(w, "stored")'
    <3>1. InRow(w)' <=> InRow(w)
      BY <1>6 DEF InRow
    <3>2. ASSUME NEW pc \in {"stored", "removed"}, Between(w, pc)
          PROVE  Between(w, pc)'
      BY <1>6, <3>2 DEF Between, OthersStay, Stays
    <3> QED BY <1>6, <3>1, <3>2 DEF FilesAgree
  <2> QED BY <1>6, <2>1 DEF FilesAgree
<1>7. ASSUME NEW r \in Requests, RemoveFile(r) PROVE FilesAgree'
  <2>0. PICK v : v = req[r].evidence
    OBVIOUS
  <2>1. /\ req[r] \in Request /\ v \in Evidences /\ req[r].pc = "work"
        /\ evidence' = evidence /\ cut' = cut
        /\ files' = [files EXCEPT ![v] = "none"]
        /\ req' = [req EXCEPT ![r].pc = "removed"]
    BY <2>0, <1>7, Known DEF RemoveFile, Valid
  <2>2. OthersStay(r) /\ Between(v, "removed")'
    BY <2>0, <2>1 DEF OthersStay, Stays, Between, Inv, Types, Request
  <2>3. files'[v] = "none" /\ \A w \in Evidences \ {v} : files'[w] = files[w]
    BY <2>0, <2>1 DEF Inv, Types
  <2> QED BY <2>0, <1>6, <2>1, <2>2, <2>3
<1>8. ASSUME NEW r \in Requests, NEW v \in Evidences, StoreFile(r, v)
      PROVE  FilesAgree'
  <2>1. /\ req[r] \in Request /\ req[r].pc = "work"
        /\ evidence[v] = Nil /\ evidence' = evidence /\ cut' = cut
        /\ files' = [files EXCEPT ![v] = "intact"]
        /\ req' = [req EXCEPT ![r].pc = "stored", ![r].evidence = v]
    BY <1>8, Known DEF StoreFile, Fresh
  <2>2. OthersStay(r) /\ Between(v, "stored")'
    BY <2>1 DEF OthersStay, Stays, Between, Inv, Types, Request
  <2>3. /\ ~InRow(v)'
        /\ \A w \in Evidences \ {v} : files'[w] = files[w]
    BY <2>1 DEF Inv, Types, InRow
  <2> QED BY <1>6, <2>1, <2>2, <2>3
<1>9. ASSUME NEW v \in Evidences, Decay(v) PROVE FilesAgree'
  <2>1. /\ files[v] = "intact" /\ files' = [files EXCEPT ![v] = "altered"]
        /\ UNCHANGED <<evidence, cut, req>>
    BY <1>9 DEF Decay
  <2>2. \A w \in Evidences : files'[w] = "none" <=> files[w] = "none"
    BY <2>1 DEF Inv, Types
  <2> QED BY <2>1, <2>2 DEF FilesAgree, InRow, Between
<1>10. ASSUME NEW r \in Requests, NEW v \in Evidences, CreateEvidence(r, v)
       PROVE  FilesAgree'
  <2> DEFINE row == [case |-> req[r].case, entity |-> req[r].entity,
                     stored |-> FALSE]
  <2>1. /\ req[r].pc = "work" /\ req[r] \in Request
        /\ Valid(req[r], cases, entities, evidence, files)
        /\ req[r].op = "create_evidence"
        /\ files[v] = "none" /\ files' = files /\ cut' = cut
        /\ evidence' = [evidence EXCEPT ![v] = row]
        /\ Leave(r, "refresh", req[r].case, cases[req[r].case], {})
    BY <1>10, Known DEF CreateEvidence, AtCommit, Fresh, Settle
  <2>2. ~row.stored
    OBVIOUS
  <2> HIDE DEF row
  <2>3. OthersStay(r)
    BY <2>1, LeaversLeaveOthers
  <2>4. /\ evidence'[v] = row
        /\ \A w \in Evidences \ {v} : evidence'[w] = evidence[w]
    BY <2>1 DEF Inv, Types
  <2> QED BY <1>6, <2>1, <2>2, <2>3, <2>4
<1>11. ASSUME NEW r \in Requests, UploadEvidence(r) PROVE FilesAgree'
  <2>0. PICK v : v = req[r].evidence
    OBVIOUS
  <2> DEFINE row == [case |-> req[r].case, entity |-> Nil, stored |-> TRUE]
  <2>1. /\ req[r].pc = "stored" /\ files' = files /\ cut' = cut
        /\ evidence' = [evidence EXCEPT ![v] = row]
        /\ Leave(r, "refresh", req[r].case, cases[req[r].case], {})
    BY <2>0, <1>11 DEF UploadEvidence, Settle
  <2>2. /\ req[r] \in Request /\ req[r] # Idle
        /\ Valid(req[r], cases, entities, evidence, files)
    BY <2>0, <2>1, Known
  <2>3. /\ v \in Evidences /\ files[v] = "intact" /\ req[r].case \in Cases
    BY <2>0, <2>1, <2>2 DEF Valid, OnItsCase
  <2>4. row \in EvidenceRow
    BY <2>0, <2>3 DEF EvidenceRow
  <2> HIDE DEF row
  <2>5. OthersStay(r)
    BY <2>0, <2>1, LeaversLeaveOthers
  <2>6. /\ evidence'[v] = row
        /\ \A w \in Evidences \ {v} : evidence'[w] = evidence[w]
    BY <2>0, <2>1, <2>3 DEF Inv, Types
  <2>7. InRow(v)'
    BY <2>0, <2>4, <2>6, CaseworkAssumption DEF InRow
  <2> QED BY <2>0, <1>6, <2>1, <2>3, <2>5, <2>6, <2>7
<1>12. ASSUME NEW r \in Requests, DeleteEvidence(r) PROVE FilesAgree'
  <2>0. PICK v : v = req[r].evidence
    OBVIOUS
  <2>1. /\ req[r].pc = "removed" /\ files' = files /\ cut' = cut
        /\ evidence' = [evidence EXCEPT ![v] = Gone]
        /\ Leave(r, "answered", req[r].case, cases[req[r].case], {})
    BY <2>0, <1>12 DEF DeleteEvidence, Settle
  <2>2. /\ req[r] \in Request /\ req[r] # Idle
        /\ Valid(req[r], cases, entities, evidence, files)
    BY <2>0, <2>1, Known
  <2>3. v \in Evidences /\ files[v] = "none"
    BY <2>0, <2>1, <2>2 DEF Valid
  <2>4. OthersStay(r)
    BY <2>0, <2>1, LeaversLeaveOthers
  <2>5. /\ evidence'[v] = Gone
        /\ \A w \in Evidences \ {v} : evidence'[w] = evidence[w]
    BY <2>0, <2>1, <2>3 DEF Inv, Types
  <2>6. ~InRow(v)'
    BY <2>0, <2>5 DEF InRow
  <2> QED BY <2>0, <1>6, <2>1, <2>3, <2>4, <2>5, <2>6
<1>13. ASSUME NEW r \in Requests, NEW u \in Users,
         \/ \E l \in Levels : AskNewCase(r, u, l)
         \/ \E op \in OnCase, c \in Cases, e \in Entities \cup {Nil},
               wish \in Wish : AskOnCase(r, u, op, c, e, wish)
         \/ \E e, t \in Entities : AskToMerge(r, u, e, t)
         \/ \E v \in Evidences : AskToDeleteEvidence(r, u, v)
       PROVE  FilesAgree'
  BY <1>13, AskersAreQuiet
     DEF AskNewCase, AskOnCase, AskToMerge, AskToDeleteEvidence
<1> QED
  BY <1>3, <1>4, <1>5, <1>7, <1>8, <1>9, <1>10, <1>11, <1>12, <1>13 DEF Next

LEMMA AgreedFilesMatch == Inv /\ FilesAgree => FilesMatchRows
BY DEF Inv, Types, FilesAgree, FilesMatchRows, IntegrityVerified, HasContent

(* Whatever requests do and wherever they fail, evidence without its file, *)
(* which get_evidence_custody reports as verified, and a file without its  *)
(* row come only from a delete_evidence or an upload_evidence that is      *)
(* between its file and its commit, or ended there.                        *)
THEOREM FilesAlwaysMatchRows == Spec => []FilesMatchRows
<1>1. Init => FilesAgree
  BY DEF Init, FilesAgree, InRow
<1>2. Inv /\ FilesAgree /\ [Next]_vars => FilesAgree'
  <2>1. FilesAgree /\ UNCHANGED vars => FilesAgree'
    BY DEF vars, tables, history, FilesAgree, InRow, Between
  <2> QED BY <2>1, FilesFollow
<1> QED BY <1>1, <1>2, Always, AgreedFilesMatch, PTL DEF Spec

-----------------------------------------------------------------------------
(* What was set stands. *)

(* Where nobody else was asked to set a column, a request sees it as it is *)
(* in the table cs, and what it wished for stands there.                   *)
Faithful(q, cs) ==
  q # Idle /\ q.seen # Nil =>
    LET row == cs[q.case]
        done == q.pc \in {"refresh", "answered"}
        set == done /\ q.op \in {"create_case", "update_case"}
    IN /\ "level" \in q.overtaken \/ q.seen.level = row.level
       /\ "status" \in q.overtaken \/ q.seen.status = row.status
       /\ "deleted" \in q.overtaken \/ q.seen.deleted = row.deleted
       /\ IF done /\ q.op = "delete_case" THEN row.deleted
          ELSE "deleted" \in q.overtaken \/ ~q.seen.deleted
       /\ set =>
            "status" \in q.overtaken \/ q.wish.status \in {Nil, row.status}
       /\ set /\ (q.op = "create_case" \/ IsAdmin(Profile[q.user])) =>
            "level" \in q.overtaken \/ q.wish.level \in {Nil, row.level}

AllFaithful == \A r \in Requests : Faithful(req[r], cases)

(* The columns that a commit was not asked to set stay, and a deletion.    *)
KeepsOthers(old, new, asked) ==
  /\ "level" \in asked \/ new.level = old.level
  /\ "status" \in asked \/ new.status = old.status
  /\ "deleted" \in asked \/ new.deleted = old.deleted
  /\ old.deleted => new.deleted

LEMMA OneFaithful ==
  ASSUME Inv, AllFaithful, NEW r \in Requests, NEW x,
         req' = [req EXCEPT ![r] = x], cases' = cases, Faithful(x, cases)
  PROVE  AllFaithful'
<1>1. \A q \in Requests : req'[q] = IF q = r THEN x ELSE req[q]
  BY DEF Inv, Types
<1> QED BY <1>1 DEF AllFaithful

LEMMA LeaversAreFaithful ==
  ASSUME Inv, AllFaithful, NEW r \in Requests, req[r] \in Request,
         NEW pc, NEW c \in Cases, NEW row, NEW asked \in SUBSET Columns,
         Leave(r, pc, c, row, asked), cases' = [cases EXCEPT ![c] = row],
         cases[c] # Nil => KeepsOthers(cases[c], row, asked),
         Faithful([req[r] EXCEPT !.pc = pc, !.case = c, !.seen = row], cases')
  PROVE  AllFaithful'
<1>1. req'[r] = [req[r] EXCEPT !.pc = pc, !.case = c, !.seen = row]
  BY DEF Leave
<1>2. ASSUME NEW q \in Requests \ {r}
      PROVE  Faithful(req'[q], cases')
  <2>1. CASE req[q] = Idle \/ req[q].seen = Nil
    BY <2>1 DEF Faithful, Leave
  <2>2. CASE req[q] # Idle /\ req[q].seen # Nil
    <3> DEFINE x == [req[q] EXCEPT !.overtaken = @ \cup asked]
    <3>1. /\ req[q] \in Request
          /\ Valid(req[q], cases, entities, evidence, files)
      BY <2>2 DEF Inv, Types
    <3>2. req[q].case \in Cases /\ cases[req[q].case] # Nil
      BY <2>2, <3>1 DEF Valid, OnItsCase
    <3>3. Faithful(req[q], cases)
      BY DEF AllFaithful
    <3>4. CASE req[q].case # c
      <4>1. req'[q] = req[q] /\ cases'[req[q].case] = cases[req[q].case]
        BY <2>2, <3>2, <3>4 DEF Leave, Inv, Types
      <4> QED BY <3>3, <4>1 DEF Faithful
    <3>5. CASE req[q].case = c
      <4>1. req'[q] = x /\ cases'[c] = row /\ KeepsOthers(cases[c], row, asked)
        BY <2>2, <3>2, <3>5 DEF Leave, Inv, Types
      <4>2. /\ x.case = c /\ x.pc = req[q].pc /\ x.op = req[q].op
            /\ x.seen = req[q].seen /\ x.wish = req[q].wish
            /\ x.user = req[q].user
            /\ x.overtaken = req[q].overtaken \cup asked
        BY <3>1, <3>5 DEF Request
      <4> HIDE DEF x
      <4>3. Faithful(x, cases')
        BY <2>2, <3>3, <3>5, <4>1, <4>2 DEF Faithful, KeepsOthers
      <4> QED BY <4>1, <4>3
    <3> QED BY <3>4, <3>5
  <2> QED BY <2>1, <2>2
<1> QED BY <1>1, <1>2 DEF AllFaithful

LEMMA FaithfulFollows ==
  ASSUME Inv, AllFaithful, Next
  PROVE  AllFaithful'
<1> USE DEF tables
<1>1. ASSUME NEW r \in Requests, NEW x, Ask(r, x), x.seen = Nil
      PROVE  AllFaithful'
  <2>1. Faithful(x, cases) /\ cases' = cases
        /\ req' = [req EXCEPT ![r] = x]
    BY <1>1 DEF Faithful, Ask
  <2> QED BY <2>1, OneFaithful
<1>2. ASSUME NEW r \in Requests, NEW u \in Users,
         \/ \E l \in Levels : AskNewCase(r, u, l)
         \/ \E op \in OnCase, c \in Cases, e \in Entities \cup {Nil},
               wish \in Wish : AskOnCase(r, u, op, c, e, wish)
         \/ \E e, t \in Entities : AskToMerge(r, u, e, t)
         \/ \E v \in Evidences : AskToDeleteEvidence(r, u, v)
      PROVE  AllFaithful'
  <2>1. CASE \E l \in Levels : AskNewCase(r, u, l)
    BY <1>1, <2>1 DEF AskNewCase, Blank
  <2>2. CASE \E op \in OnCase, c \in Cases, e \in Entities \cup {Nil},
               wish \in Wish : AskOnCase(r, u, op, c, e, wish)
    BY <1>1, <2>2 DEF AskOnCase, Blank
  <2>3. CASE \E e, t \in Entities : AskToMerge(r, u, e, t)
    BY <1>1, <2>3 DEF AskToMerge, Blank
  <2>4. CASE \E v \in Evidences : AskToDeleteEvidence(r, u, v)
    BY <1>1, <2>4 DEF AskToDeleteEvidence, Blank
  <2> QED BY <1>2, <2>1, <2>2, <2>3, <2>4
<1>3. ASSUME NEW r \in Requests, End(r), cases' = cases
      PROVE  AllFaithful'
  <2>1. Faithful(Idle, cases) /\ req' = [req EXCEPT ![r] = Idle]
    BY <1>3 DEF Faithful, End
  <2> QED BY <1>3, <2>1, OneFaithful
<1>4. ASSUME NEW r \in Requests, LoadEntity(r) \/ LoadEvidence(r), ~End(r)
      PROVE  AllFaithful'
  <2>1. PICK c, h : req' = [req EXCEPT ![r] =
                   [req[r] EXCEPT !.pc = "check", !.case = c, !.held = h]]
    <3>1. req[r].pc = "load"
      BY <1>4 DEF LoadEntity, LoadEvidence
    <3>2. req[r] \in Request
      BY <3>1, Known
    <3>3. CASE LoadEntity(r)
      BY <3>3, <3>2 DEF LoadEntity, Inv, Types
    <3>4. CASE LoadEvidence(r) /\ ~End(r)
      <4>1. req' = [req EXCEPT ![r] = [req[r] EXCEPT !.pc = "check",
                                  !.case = evidence[req[r].evidence].case]]
        BY <3>4, <3>2 DEF LoadEvidence, Inv, Types
      <4>2. [req[r] EXCEPT !.pc = "check",
                           !.case = evidence[req[r].evidence].case]
            = [req[r] EXCEPT !.pc = "check",
                             !.case = evidence[req[r].evidence].case,
                             !.held = req[r].held]
        BY <3>2 DEF Request
      <4> QED BY <4>1, <4>2
    <3> QED BY <1>4, <3>3, <3>4
  <2> DEFINE x == [req[r] EXCEPT !.pc = "check", !.case = c, !.held = h]
  <2>2. /\ req[r] \in Request /\ req[r].pc = "load" /\ cases' = cases
        /\ Valid(req[r], cases, entities, evidence, files) /\ req[r] # Idle
    BY <1>4, Known DEF LoadEntity, LoadEvidence
  <2>3. x.seen = Nil
    BY <2>2 DEF Valid, Request
  <2>4. Faithful(x, cases)
    BY <2>3 DEF Faithful
  <2> HIDE DEF x
  <2> QED BY <2>1, <2>2, <2>4, OneFaithful DEF x
<1>5. ASSUME NEW r \in Requests, NEW x, req[r] \in Request, cases' = cases,
             req' = [req EXCEPT ![r] = x],
             /\ x.op = req[r].op /\ x.wish = req[r].wish
             /\ x.case = req[r].case /\ x.overtaken = req[r].overtaken
             /\ x.user = req[r].user,
             x.pc \in {"work", "target", "stored", "removed"},
             \/ x.seen = req[r].seen /\ req[r].pc \in {"target", "work"}
             \/ x.seen = cases[x.case] /\ Live(x.case)
      PROVE  AllFaithful'
  <2>1. Faithful(req[r], cases)
    BY DEF AllFaithful
  <2>2. Faithful(x, cases)
    BY <1>5, <2>1, NotIdle DEF Faithful, Live
  <2> QED BY <1>5, <2>2, OneFaithful
<1>6. ASSUME NEW r \in Requests, CheckCase(r) \/ CheckTarget(r), ~End(r)
      PROVE  AllFaithful'
  <2>1. req[r] \in Request /\ cases' = cases
    BY <1>6, Known DEF CheckCase, CheckTarget
  <2>2. CASE CheckCase(r)
    <3> DEFINE to == IF req[r].op = "merge_entity" THEN "target" ELSE "work"
               x == [req[r] EXCEPT !.pc = to, !.seen = cases[req[r].case]]
    <3>1. req' = [req EXCEPT ![r] = x] /\ Live(req[r].case)
      BY <1>6, <2>1, <2>2 DEF CheckCase, Admits, Inv, Types
    <3>2. /\ x.op = req[r].op /\ x.wish = req[r].wish
          /\ x.case = req[r].case /\ x.overtaken = req[r].overtaken
          /\ x.user = req[r].user /\ x.pc \in {"work", "target"}
          /\ x.seen = cases[req[r].case]
      BY <2>1 DEF Request
    <3> HIDE DEF x
    <3> QED BY <1>5, <2>1, <3>1, <3>2
  <2>3. CASE CheckTarget(r)
    <3> DEFINE x == [req[r] EXCEPT !.pc = "work"]
    <3>1. req' = [req EXCEPT ![r] = x] /\ req[r].pc = "target"
      BY <1>6, <2>1, <2>3 DEF CheckTarget, Inv, Types
    <3>2. /\ x.op = req[r].op /\ x.wish = req[r].wish
          /\ x.case = req[r].case /\ x.overtaken = req[r].overtaken
          /\ x.user = req[r].user /\ x.pc = "work" /\ x.seen = req[r].seen
      BY <2>1 DEF Request
    <3> HIDE DEF x
    <3> QED BY <1>5, <2>1, <3>1, <3>2
  <2> QED BY <1>6, <2>2, <2>3
<1>7. ASSUME NEW r \in Requests,
             RemoveFile(r) \/ \E v \in Evidences : StoreFile(r, v)
      PROVE  AllFaithful'
  <2>1. req[r] \in Request /\ cases' = cases /\ req[r].pc = "work"
    BY <1>7, Known DEF RemoveFile, StoreFile
  <2>2. PICK pc \in {"stored", "removed"}, v \in Evidences \cup {Nil} :
          req' = [req EXCEPT ![r] = [req[r] EXCEPT !.pc = pc, !.evidence = v]]
    <3>1. /\ [req[r] EXCEPT !.pc = "removed"]
               = [req[r] EXCEPT !.pc = "removed", !.evidence = req[r].evidence]
          /\ req[r].evidence \in Evidences \cup {Nil}
      BY <2>1 DEF Request
    <3>2. CASE RemoveFile(r)
      BY <2>1, <3>1, <3>2 DEF RemoveFile, Inv, Types
    <3>3. CASE \E v \in Evidences : StoreFile(r, v)
      <4>1. PICK v \in Evidences : StoreFile(r, v)
        BY <3>3
      <4>2. req' = [req EXCEPT ![r] =
                      [req[r] EXCEPT !.pc = "stored", !.evidence = v]]
        BY <2>1, <4>1 DEF StoreFile, Inv, Types
      <4> QED BY <4>2
    <3> QED BY <1>7, <3>2, <3>3
  <2> DEFINE x == [req[r] EXCEPT !.pc = pc, !.evidence = v]
  <2>3. /\ x.op = req[r].op /\ x.wish = req[r].wish
        /\ x.case = req[r].case /\ x.overtaken = req[r].overtaken
        /\ x.user = req[r].user /\ x.pc \in {"stored", "removed"}
        /\ x.seen = req[r].seen
    BY <2>1 DEF Request
  <2>4. req' = [req EXCEPT ![r] = x]
    BY <2>2
  <2> HIDE DEF x
  <2> QED BY <1>5, <2>1, <2>3, <2>4
<1>8. ASSUME NEW v \in Evidences, Decay(v) PROVE AllFaithful'
  BY <1>8 DEF Decay, AllFaithful
<1>9. ASSUME NEW r \in Requests, Refresh(r) PROVE AllFaithful'
  <2> DEFINE q == req[r]
             row == IF q.op \in {"create_case", "update_case"}
                    THEN cases[q.case] ELSE q.seen
             x == [q EXCEPT !.pc = "answered", !.seen = row]
  <2>1. /\ q.pc = "refresh" /\ q \in Request /\ q # Idle /\ cases' = cases
        /\ Valid(q, cases, entities, evidence, files)
    BY <1>9, Known DEF Refresh
  <2>2. req' = [req EXCEPT ![r] = x]
    BY <1>9, <2>1 DEF Refresh, Inv, Types
  <2>3. q.seen # Nil /\ Faithful(q, cases)
    BY <2>1 DEF Valid, Looked, OnItsCase, AllFaithful
  <2>4. /\ x.pc = "answered" /\ x.op = q.op /\ x.wish = q.wish
        /\ x.seen = row /\ x.user = q.user /\ x.overtaken = q.overtaken
    BY <2>1 DEF Request
  <2>5. /\ x.case = q.case
        /\ q.op \in {"create_case", "update_case"} => row = cases[q.case]
        /\ q.op \notin {"create_case", "update_case"} => row = q.seen
    BY <2>1 DEF Request
  <2> HIDE DEF row, x
  <2>6. Faithful(x, cases)
    BY <2>1, <2>3, <2>4, <2>5 DEF Faithful
  <2> QED BY <2>1, <2>2, <2>6, OneFaithful
<1>10. ASSUME NEW r \in Requests, NEW c \in Cases, CreateCase(r, c)
       PROVE  AllFaithful'
  <2> DEFINE q == req[r]
             row == [owner |-> q.user, level |-> q.wish.level,
                     status |-> "OPEN", deleted |-> FALSE]
             x == [q EXCEPT !.pc = "refresh", !.case = c, !.seen = row]
  <2>1. /\ q \in Request /\ q.op = "create_case" /\ q.pc = "work"
        /\ Leave(r, "refresh", c, row, {}) /\ cases[c] = Nil
        /\ cases' = [cases EXCEPT ![c] = row]
        /\ Valid(q, cases, entities, evidence, files)
    BY <1>10, Known DEF CreateCase, AtCommit
  <2>2. /\ x.pc = "refresh" /\ x.op = "create_case" /\ x.case = c
        /\ x.seen = row /\ x.wish = q.wish /\ q.wish.status = Nil
    BY <2>1, NotIdle DEF Request, Valid
  <2>3. cases'[c] = row /\ ~row.deleted /\ row.level = q.wish.level
    BY <2>1 DEF Inv, Types
  <2>4. Faithful(x, cases')
    <3> HIDE DEF x, row, q
    <3> QED BY <2>2, <2>3 DEF Faithful
  <2>5. {} \in SUBSET Columns
    OBVIOUS
  <2> HIDE DEF row
  <2> QED BY <2>1, <2>4, <2>5, LeaversAreFaithful
<1>11. ASSUME NEW r \in Requests, UpdateCase(r) PROVE AllFaithful'
  <2> DEFINE q == req[r]
             c == q.case
             set == UpdateData(r)
             row == [cases[c] EXCEPT
                       !.level = Written(set.level, q.seen.level, @),
                       !.status = Written(set.status, q.seen.status, @)]
             x == [q EXCEPT !.pc = "refresh", !.case = c, !.seen = row]
             asked == {k \in {"level", "status"} : set[k] # Nil}
  <2>1. /\ q \in Request /\ q # Idle /\ q.op = "update_case" /\ q.pc = "work"
        /\ Leave(r, "refresh", c, row, asked)
        /\ cases' = [cases EXCEPT ![c] = row]
        /\ Valid(q, cases, entities, evidence, files)
    BY <1>11, Known DEF UpdateCase, AtCommit
  <2>2. /\ c \in Cases /\ q.seen # Nil /\ Faithful(q, cases)
        /\ cases[c] \in CaseRow
    BY <2>1 DEF Valid, Looked, OnItsCase, AllFaithful, Inv, Types
  <2>3. /\ x.pc = "refresh" /\ x.op = "update_case" /\ x.case = c
        /\ x.seen = row /\ x.user = q.user /\ x.wish = q.wish
        /\ x.overtaken = q.overtaken
    BY <2>1 DEF Request
  <2>5. /\ row.deleted = cases[c].deleted
        /\ row.level = Written(set.level, q.seen.level, cases[c].level)
        /\ row.status = Written(set.status, q.seen.status, cases[c].status)
        /\ cases'[c] = row
    BY <2>1, <2>2 DEF CaseRow, Inv, Types
  <2>6. /\ set.status = q.wish.status
        /\ IsAdmin(Profile[q.user]) => set.level = q.wish.level
        /\ "level" \in asked <=> set.level # Nil
        /\ "status" \in asked <=> set.status # Nil
        /\ asked \in SUBSET Columns
    BY DEF UpdateData, Columns
  <2> HIDE DEF x, row, set, asked, q
  <2>7. KeepsOthers(cases[c], row, asked)
    BY <2>5, <2>6 DEF KeepsOthers, Written
  <2>8. /\ "status" \in q.overtaken \/ q.wish.status \in {Nil, row.status}
        /\ IsAdmin(Profile[q.user]) =>
             "level" \in q.overtaken \/ q.wish.level \in {Nil, row.level}
        /\ "deleted" \in q.overtaken \/ ~row.deleted
    BY <2>1, <2>2, <2>5, <2>6 DEF Faithful, Written
  <2>9. Faithful(x, cases')
    BY <2>3, <2>5, <2>8 DEF Faithful
  <2> QED BY <2>1, <2>2, <2>6, <2>7, <2>9, LeaversAreFaithful DEF x, q
<1>12. ASSUME NEW r \in Requests, DeleteCase(r) PROVE AllFaithful'
  <2> DEFINE q == req[r]
             c == q.case
             row == [cases[c] EXCEPT !.deleted = TRUE]
             x == [q EXCEPT !.pc = "answered", !.case = c, !.seen = row]
  <2>1. /\ q \in Request /\ q # Idle /\ q.op = "delete_case" /\ q.pc = "work"
        /\ Leave(r, "answered", c, row, {"deleted"})
        /\ cases' = [cases EXCEPT ![c] = row]
        /\ Valid(q, cases, entities, evidence, files)
    BY <1>12, Known DEF DeleteCase, AtCommit
  <2>2. c \in Cases /\ cases[c] \in CaseRow
    BY <2>1 DEF Valid, OnItsCase, Inv, Types
  <2>3. /\ x.pc = "answered" /\ x.op = "delete_case" /\ x.case = c
        /\ x.seen = row
    BY <2>1 DEF Request
  <2>4. /\ row.deleted /\ row.level = cases[c].level
        /\ row.status = cases[c].status /\ cases'[c] = row
    BY <2>1, <2>2 DEF CaseRow, Inv, Types
  <2> HIDE DEF x, row
  <2>5. Faithful(x, cases')
    BY <2>3, <2>4 DEF Faithful
  <2>6. /\ KeepsOthers(cases[c], row, {"deleted"})
        /\ {"deleted"} \in SUBSET Columns
    BY <2>4 DEF KeepsOthers, Columns
  <2> QED BY <2>1, <2>2, <2>5, <2>6, LeaversAreFaithful DEF x
<1>13. ASSUME NEW r \in Requests,
              \/ \E e \in Entities : CreateEntity(r, e)
              \/ \E v \in Evidences : CreateEvidence(r, v)
              \/ MergeEntity(r) \/ UploadEvidence(r) \/ DeleteEvidence(r)
              \/ GenerateReport(r)
       PROVE  AllFaithful'
  <2> DEFINE q == req[r]
             c == q.case
             row == cases[c]
  <2>1. /\ q.pc \in {"work", "stored", "removed"} /\ cases' = cases
        /\ \E pc \in {"refresh", "answered"} : Leave(r, pc, c, row, {})
    BY <1>13 DEF CreateEntity, CreateEvidence, MergeEntity, UploadEvidence,
                 DeleteEvidence, GenerateReport, Settle, AtCommit
  <2>2. /\ q \in Request /\ q # Idle
        /\ Valid(q, cases, entities, evidence, files)
    BY <2>1, Known
  <2>3. q.op \notin {"create_case", "update_case", "delete_case"}
    BY <1>13, <2>2 DEF CreateEntity, CreateEvidence, MergeEntity,
            UploadEvidence, DeleteEvidence, GenerateReport, AtCommit, Valid
  <2>4. c \in Cases /\ q.seen # Nil /\ Faithful(q, cases)
    BY <2>1, <2>2, <2>3 DEF Valid, Looked, OnItsCase, AllFaithful
  <2>5. "deleted" \in q.overtaken \/ ~row.deleted
    BY <2>1, <2>2, <2>3, <2>4 DEF Faithful
  <2>6. PICK pc \in {"refresh", "answered"} : Leave(r, pc, c, row, {})
    BY <2>1
  <2> DEFINE x == [q EXCEPT !.pc = pc, !.case = c, !.seen = row]
  <2>7. /\ x.pc = pc /\ x.op = q.op /\ x.case = c /\ x.seen = row
        /\ x.overtaken = q.overtaken
    BY <2>2 DEF Request
  <2>8. cases' = [cases EXCEPT ![c] = row]
    BY <2>1, <2>4 DEF Inv, Types
  <2> HIDE DEF x, row, q
  <2>9. Faithful(x, cases)
    BY <2>3, <2>5, <2>7 DEF Faithful, row
  <2>10. Faithful(x, cases') /\ KeepsOthers(cases[c], row, {})
             /\ {} \in SUBSET Columns
    BY <2>1, <2>9 DEF KeepsOthers, row
  <2> QED BY <2>2, <2>4, <2>6, <2>8, <2>10, LeaversAreFaithful DEF x, q
<1>14. ASSUME NEW r \in Requests,
              \/ LoadEntity(r) \/ LoadEvidence(r) \/ CheckCase(r)
              \/ CheckTarget(r) \/ Answered(r) \/ Fail(r)
       PROVE  AllFaithful'
  <2>1. CASE End(r)
    BY <1>3, <1>14, <2>1 DEF LoadEntity, LoadEvidence, CheckCase, CheckTarget,
                             Answered, Fail
  <2>2. CASE ~End(r)
    BY <1>4, <1>6, <1>14, <2>2 DEF Answered, Fail
  <2> QED BY <2>1, <2>2
<1> QED
  BY <1>2, <1>7, <1>8, <1>9, <1>10, <1>11, <1>12, <1>13, <1>14 DEF Next

LEMMA FaithfulWishesStand == Inv /\ AllFaithful => WishesStand
<1> SUFFICES ASSUME Inv, AllFaithful PROVE WishesStand
  OBVIOUS
<1>1. ASSUME NEW r \in Requests, req[r].pc \in {"refresh", "answered"}
      PROVE  /\ req[r] # Idle /\ req[r].seen # Nil
             /\ Faithful(req[r], cases)
  <2>1. req[r] # Idle /\ Valid(req[r], cases, entities, evidence, files)
    BY <1>1, Known
  <2> QED BY <1>1, <2>1 DEF Valid, Looked, OnItsCase, AllFaithful
<1> QED BY <1>1 DEF WishesStand, Faithful

(* What create_case and update_case committed stands, column by column,    *)
(* until another request that is asked to set the same column commits; a   *)
(* deletion stands for good; and no handler works on a deleted case unless *)
(* the deletion came between its look and its commit.                      *)
THEOREM WishesAlwaysStand == Spec => []WishesStand
<1>1. Init => AllFaithful
  BY DEF Init, AllFaithful, Faithful
<1>2. Inv /\ AllFaithful /\ [Next]_vars => AllFaithful'
  <2>1. AllFaithful /\ UNCHANGED vars => AllFaithful'
    BY DEF vars, tables, AllFaithful
  <2> QED BY <2>1, FaithfulFollows
<1> QED BY <1>1, <1>2, Always, FaithfulWishesStand, PTL DEF Spec

-----------------------------------------------------------------------------
(* Merged entities. *)

MergedIn(es, e) == es[e] # Nil /\ es[e].merged # Nil

(* merge_entity stays within the case that it looked at, as of the         *)
(* entities es.                                                            *)
Matched(q, es) ==
  q.op = "merge_entity" =>
    /\ q.pc \in {"check", "target", "work"} => es[q.entity].case = q.case
    /\ q.pc = "work" => es[q.target].case = q.case

AllMatched == \A r \in Requests : req[r] # Idle => Matched(req[r], entities)

OneCase ==
  \A e \in Entities : MergedIn(entities, e) =>
    /\ entities[entities[e].merged] # Nil
    /\ entities[entities[e].merged].case = entities[e].case

(* The entities can be numbered so that merges into one that was merged    *)
(* itself lead upwards, the blind ones excepted: by when each was merged.  *)
Ranked(rank) ==
  \A e \in Entities \ blind :
    MergedIn(entities, e) /\ MergedIn(entities, entities[e].merged) =>
      rank[e] < rank[entities[e].merged]

Ranks == \E top \in Nat : \E rank \in [Entities -> 0..top] : Ranked(rank)

MergeInv == AllMatched /\ OneCase /\ Ranks

LEMMA MergeInit == Init => MergeInv
<1> SUFFICES ASSUME Init PROVE MergeInv
  OBVIOUS
<1>1. AllMatched /\ OneCase
  BY DEF Init, AllMatched, OneCase, MergedIn
<1>2. Ranked([e \in Entities |-> 0])
  BY DEF Init, Ranked, MergedIn
<1>3. [e \in Entities |-> 0] \in [Entities -> 0..0]
  OBVIOUS
<1>4. Ranks
  BY <1>2, <1>3 DEF Ranks
<1> QED BY <1>1, <1>4 DEF MergeInv

(* While no entity changes, what requests do has only to match.            *)
LEMMA SameEntities ==
  ASSUME MergeInv, UNCHANGED <<entities, blind>>, AllMatched'
  PROVE  MergeInv'
<1>1. \A e : MergedIn(entities', e) <=> MergedIn(entities, e)
  BY DEF MergedIn
<1>2. OneCase'
  BY <1>1 DEF MergeInv, OneCase
<1>3. PICK top \in Nat : \E rank \in [Entities -> 0..top] : Ranked(rank)
  BY DEF MergeInv, Ranks
<1>4. PICK rank \in [Entities -> 0..top] : Ranked(rank)
  BY <1>3
<1>5. Ranked(rank)'
  BY <1>1, <1>4 DEF Ranked
<1>6. Ranks'
  BY <1>5 DEF Ranks
<1> QED BY <1>2, <1>6 DEF MergeInv

LEMMA OneMatches ==
  ASSUME Inv, MergeInv, NEW r \in Requests, NEW x,
         req' = [req EXCEPT ![r] = x], UNCHANGED <<entities, blind>>,
         x # Idle => Matched(x, entities)
  PROVE  MergeInv'
<1>1. req'[r] = x /\ \A p \in Requests \ {r} : req'[p] = req[p]
  BY DEF Inv, Types
<1>2. AllMatched'
  BY <1>1 DEF MergeInv, AllMatched
<1> QED BY <1>2, SameEntities

(* Entities that stay, in their case, match as before.                     *)
LEMMA StillMatched ==
  ASSUME NEW q, NEW cs, NEW es, NEW vs, NEW fs, Valid(q, cs, es, vs, fs),
         q # Idle, Matched(q, es), NEW es2,
         \A e \in Entities : es[e] # Nil => es2[e].case = es[e].case
  PROVE  Matched(q, es2)
BY DEF Valid, Matched

LEMMA LeaversMatch ==
  ASSUME Inv, MergeInv, NEW r \in Requests, req[r] \in Request,
         NEW pc \in {"refresh", "answered"}, NEW c, NEW row, NEW asked,
         Leave(r, pc, c, row, asked),
         \A e \in Entities :
           entities[e] # Nil => entities'[e].case = entities[e].case
  PROVE  AllMatched'
<1>1. /\ req'[r] = [req[r] EXCEPT !.pc = pc, !.case = c, !.seen = row]
      /\ \A p \in Requests \ {r} :
           \/ req'[p] = req[p]
           \/ /\ req[p] # Idle
              /\ req'[p] = [req[p] EXCEPT !.overtaken = @ \cup asked]
      /\ req' = [p \in Requests |-> req'[p]]
  BY LeftRequests
<1>2. req'[r].pc = pc
  BY <1>1 DEF Request
<1>3. Matched(req'[r], entities')
  BY <1>2 DEF Matched
<1>4. ASSUME NEW p \in Requests \ {r}, req'[p] # Idle
      PROVE  Matched(req'[p], entities')
  <2>1. req[p] # Idle
    BY <1>1, <1>4
  <2>2. /\ req[p] \in Request /\ Matched(req[p], entities)
        /\ Valid(req[p], cases, entities, evidence, files)
    BY <2>1 DEF Inv, Types, MergeInv, AllMatched
  <2>3. Matched(req[p], entities')
    BY <2>1, <2>2, StillMatched
  <2>4. CASE req'[p] = [req[p] EXCEPT !.overtaken = @ \cup asked]
    <3>1. /\ req'[p].pc = req[p].pc /\ req'[p].op = req[p].op
          /\ req'[p].case = req[p].case /\ req'[p].entity = req[p].entity
          /\ req'[p].target = req[p].target
      BY <2>2, <2>4 DEF Request
    <3> QED BY <2>3, <3>1 DEF Matched
  <2> QED BY <1>1, <2>3, <2>4
<1> QED BY <1>3, <1>4 DEF AllMatched

LEMMA LeaversMerge ==
  ASSUME Inv, MergeInv, NEW r \in Requests, req[r] \in Request,
         NEW pc \in {"refresh", "answered"}, NEW c, NEW row, NEW asked,
         Leave(r, pc, c, row, asked), UNCHANGED <<entities, blind>>
  PROVE  MergeInv'
BY LeaversMatch, SameEntities

LEMMA NewEntity ==
  ASSUME Inv, MergeInv, NEW r \in Requests, NEW e \in Entities,
         CreateEntity(r, e)
  PROVE  MergeInv'
<1>1. PICK row : row = [case |-> req[r].case, merged |-> Nil]
  OBVIOUS
<1>2. /\ req[r].pc = "work" /\ entities[e] = Nil /\ blind' = blind
      /\ entities' = [entities EXCEPT ![e] = row] /\ row.merged = Nil
      /\ Leave(r, "refresh", req[r].case, cases[req[r].case], {})
  BY <1>1 DEF CreateEntity, AtCommit, Settle, history
<1>3. req[r] \in Request
  BY <1>2, Known
<1>4. /\ entities'[e] = row
      /\ \A t \in Entities \ {e} : entities'[t] = entities[t]
  BY <1>2 DEF Inv, Types
<1>5. AllMatched'
  BY <1>2, <1>3, <1>4, LeaversMatch
<1>6. \A t \in Entities : entities[t] \in EntityRow \cup {Nil}
  BY DEF Inv, Types
<1>7. /\ ~MergedIn(entities', e)
      /\ \A t \in Entities \ {e} :
           MergedIn(entities', t) <=> MergedIn(entities, t)
      /\ ~MergedIn(entities, e)
  BY <1>2, <1>4 DEF MergedIn
<1>8. \A t \in Entities : MergedIn(entities, t) =>
        /\ entities[t].merged \in Entities \ {e}
        /\ entities'[t] = entities[t]
  BY <1>2, <1>4, <1>6, <1>7 DEF MergeInv, OneCase, MergedIn, EntityRow
<1>9. OneCase'
  BY <1>4, <1>7, <1>8 DEF MergeInv, OneCase
<1>10. PICK top \in Nat : \E rank \in [Entities -> 0..top] : Ranked(rank)
  BY DEF MergeInv, Ranks
<1>11. PICK rank \in [Entities -> 0..top] : Ranked(rank)
  BY <1>10
<1>12. Ranked(rank)'
  BY <1>2, <1>7, <1>8, <1>11 DEF Ranked
<1>13. Ranks'
  BY <1>12 DEF Ranks
<1> QED BY <1>5, <1>9, <1>13 DEF MergeInv

(* A merge gives its entity the highest rank; whoever was merged into it   *)
(* was so before.                                                          *)
LEMMA MergesRank ==
  ASSUME Inv, MergeInv, NEW e \in Entities, NEW t \in Entities,
         entities[e] # Nil, entities[t] # Nil,
         entities[t].case = entities[e].case,
         entities' = [entities EXCEPT ![e].merged = t],
         blind' = IF t = e \/ entities[t].merged # Nil
                  THEN blind \cup {e} ELSE blind \ {e}
  PROVE  OneCase' /\ Ranks'
<1>1. \A d \in Entities : entities[d] \in EntityRow \cup {Nil}
  BY DEF Inv, Types
<1>2. /\ entities'[e] = [entities[e] EXCEPT !.merged = t]
      /\ \A d \in Entities \ {e} : entities'[d] = entities[d]
  BY DEF Inv, Types
<1>3. /\ entities'[e] \in EntityRow /\ entities'[e].merged = t
      /\ entities'[e].case = entities[e].case
  BY <1>1, <1>2 DEF EntityRow
<1>4. entities'[e] # Nil /\ t # Nil
  BY <1>3, CaseworkAssumption
<1>5. \A d \in Entities :
        /\ entities[d] # Nil => /\ entities'[d] # Nil
                                /\ entities'[d].case = entities[d].case
        /\ entities'[d] # Nil => entities[d] # Nil
  BY <1>2, <1>3, <1>4
<1>6. /\ MergedIn(entities', e)
      /\ \A d \in Entities \ {e} :
           MergedIn(entities', d) <=> MergedIn(entities, d)
  BY <1>2, <1>3, <1>4 DEF MergedIn
<1>7. \A d \in Entities :
        MergedIn(entities, d) => entities[d].merged \in Entities
  BY <1>1, CaseworkAssumption DEF MergedIn, EntityRow
<1>8. OneCase'
  <2>1. ASSUME NEW d \in Entities, MergedIn(entities', d)
        PROVE  /\ entities'[entities'[d].merged] # Nil
               /\ entities'[entities'[d].merged].case = entities'[d].case
    <3>1. CASE d = e
      BY <1>3, <1>5, <3>1
    <3>2. CASE d # e
      <4>1. /\ MergedIn(entities, d) /\ entities'[d] = entities[d]
        BY <1>2, <1>6, <2>1, <3>2
      <4>2. /\ entities[d].merged \in Entities
            /\ entities[entities[d].merged] # Nil
            /\ entities[entities[d].merged].case = entities[d].case
        BY <1>7, <4>1 DEF MergeInv, OneCase
      <4> QED BY <1>5, <4>1, <4>2
    <3> QED BY <3>1, <3>2
  <2> QED BY <2>1 DEF OneCase
<1>9. PICK top \in Nat : \E rank \in [Entities -> 0..top] : Ranked(rank)
  BY DEF MergeInv, Ranks
<1>10. PICK rank \in [Entities -> 0..top] : Ranked(rank)
  BY <1>9
<1>0. PICK later : later = [rank EXCEPT ![e] = top + 1]
  OBVIOUS
<1>11. later \in [Entities -> 0..(top + 1)] /\ top + 1 \in Nat
  BY <1>0, <1>9
<1>12. later[e] = top + 1 /\ \A d \in Entities \ {e} : later[d] = rank[d]
  BY <1>0
<1>13. \A d \in Entities : rank[d] \in Nat /\ rank[d] < top + 1
  BY <1>9
<1>14. Ranked(later)'
  <2>1. ASSUME NEW d \in Entities \ blind', MergedIn(entities', d),
               MergedIn(entities', entities'[d].merged)
        PROVE  later[d] < later[entities'[d].merged]
    <3>1. CASE d = e
      <4>1. t # e /\ entities[t].merged = Nil
        BY <2>1, <3>1
      <4>2. ~MergedIn(entities', t)
        BY <1>6, <4>1 DEF MergedIn
      <4> QED BY <1>3, <2>1, <3>1, <4>2
    <3>2. CASE d # e
      <4>0. PICK m : m = entities[d].merged
        OBVIOUS
      <4>1. /\ d \in Entities \ blind /\ m \in Entities
            /\ MergedIn(entities, d) /\ entities'[d].merged = m
        BY <4>0, <1>2, <1>6, <1>7, <2>1, <3>2
      <4>2. later[d] = rank[d] /\ rank[d] < top + 1
        BY <1>12, <1>13, <3>2
      <4>3. CASE m = e
        BY <1>12, <4>1, <4>2, <4>3
      <4>4. CASE m # e
        <5>1. MergedIn(entities, m) /\ later[m] = rank[m]
          BY <1>6, <1>12, <2>1, <4>1, <4>4
        <5>2. rank[d] < rank[m]
          BY <1>10, <4>0, <4>1, <5>1 DEF Ranked
        <5> QED BY <4>1, <4>2, <5>1, <5>2
      <4> QED BY <4>3, <4>4
    <3> QED BY <3>1, <3>2
  <2> QED BY <2>1 DEF Ranked
<1>15. Ranks'
  BY <1>11, <1>14 DEF Ranks
<1> QED BY <1>8, <1>15

LEMMA Merges ==
  ASSUME Inv, MergeInv, NEW r \in Requests, MergeEntity(r)
  PROVE  MergeInv'
<1>1. PICK e, t : e = req[r].entity /\ t = req[r].target
  OBVIOUS
<1>2. /\ req[r].pc = "work" /\ req[r].op = "merge_entity"
      /\ Leave(r, "answered", req[r].case, cases[req[r].case], {})
      /\ \/ UNCHANGED <<entities, blind>>
         \/ /\ entities' = [entities EXCEPT ![e].merged = t]
            /\ blind' = IF t = e \/ entities[t].merged # Nil
                        THEN blind \cup {e} ELSE blind \ {e}
  BY <1>1 DEF MergeEntity, AtCommit, Settle
<1>3. /\ req[r] \in Request /\ req[r] # Idle
      /\ Valid(req[r], cases, entities, evidence, files)
  BY <1>2, Known
<1>4. CASE UNCHANGED <<entities, blind>>
  BY <1>2, <1>3, <1>4, LeaversMerge
<1>5. CASE /\ entities' = [entities EXCEPT ![e].merged = t]
           /\ blind' = IF t = e \/ entities[t].merged # Nil
                       THEN blind \cup {e} ELSE blind \ {e}
  <2>1. /\ e \in Entities /\ t \in Entities
        /\ entities[e] # Nil /\ entities[t] # Nil
    BY <1>1, <1>2, <1>3 DEF Valid
  <2>2. entities[t].case = entities[e].case
    BY <1>1, <1>2, <1>3 DEF MergeInv, AllMatched, Matched
  <2>3. OneCase' /\ Ranks'
    BY <1>5, <2>1, <2>2, MergesRank
  <2>4. ASSUME NEW d \in Entities, entities[d] # Nil
        PROVE  entities'[d].case = entities[d].case
    <3>1. entities[d] \in EntityRow
      BY <2>4 DEF Inv, Types
    <3> QED BY <1>5, <2>1, <3>1 DEF Inv, Types, EntityRow
  <2>5. AllMatched'
    BY <1>2, <1>3, <2>4, LeaversMatch
  <2> QED BY <2>3, <2>5 DEF MergeInv
<1> QED BY <1>2, <1>4, <1>5

LEMMA MergeLooks ==
  ASSUME Inv, MergeInv, NEW r \in Requests,
         \/ LoadEntity(r) \/ LoadEvidence(r) \/ CheckCase(r)
         \/ CheckTarget(r) \/ Refresh(r) \/ Answered(r) \/ Fail(r)
         \/ RemoveFile(r) \/ \E v \in Evidences : StoreFile(r, v)
  PROVE  MergeInv'
<1> DEFINE q == req[r]
<1>1. UNCHANGED <<entities, blind>>
  BY DEF LoadEntity, LoadEvidence, CheckCase, CheckTarget, Refresh, Answered,
         Fail, RemoveFile, StoreFile, tables, history
<1>2. CASE End(r)
  BY <1>1, <1>2, OneMatches DEF End
<1>3. ASSUME ~End(r)
      PROVE  /\ q \in Request /\ q # Idle
             /\ Valid(q, cases, entities, evidence, files)
             /\ Matched(q, entities)
  <2>1. q.pc # "idle"
    BY <1>3 DEF LoadEntity, LoadEvidence, CheckCase, CheckTarget, Refresh,
                Answered, Fail, RemoveFile, StoreFile
  <2> QED BY <2>1, Known DEF MergeInv, AllMatched
<1>4. ASSUME NEW x, req' = [req EXCEPT ![r] = x], Matched(x, entities)
      PROVE  MergeInv'
  BY <1>1, <1>4, OneMatches
<1>5. CASE LoadEntity(r) /\ ~End(r)
  <2> DEFINE row == entities[q.entity]
             x == [q EXCEPT !.pc = "check", !.case = row.case,
                            !.held = row.merged]
  <2>1. req' = [req EXCEPT ![r] = x]
    BY <1>3, <1>5 DEF LoadEntity, Inv, Types
  <2>2. x.pc = "check" /\ x.case = row.case /\ x.entity = q.entity
    BY <1>3, <1>5 DEF Request
  <2> HIDE DEF x
  <2>3. Matched(x, entities)
    BY <2>2 DEF Matched
  <2> QED BY <1>4, <2>1, <2>3
<1>6. CASE LoadEvidence(r) /\ ~End(r)
  <2> DEFINE x == [q EXCEPT !.pc = "check",
                            !.case = evidence[q.evidence].case]
  <2>1. req' = [req EXCEPT ![r] = x] /\ q.op = "delete_evidence"
    BY <1>3, <1>6 DEF LoadEvidence, Inv, Types
  <2>2. x.op = q.op
    BY <1>3, <1>6 DEF Request
  <2> HIDE DEF x
  <2>3. Matched(x, entities)
    BY <2>1, <2>2 DEF Matched
  <2> QED BY <1>4, <2>1, <2>3
<1>7. CASE CheckCase(r) /\ ~End(r)
  <2> DEFINE to == IF q.op = "merge_entity" THEN "target" ELSE "work"
             x == [q EXCEPT !.pc = to, !.seen = cases[q.case]]
  <2>1. req' = [req EXCEPT ![r] = x] /\ q.pc = "check"
    BY <1>3, <1>7 DEF CheckCase, Inv, Types
  <2>2. /\ x.op = q.op /\ x.pc = to /\ x.case = q.case
        /\ x.entity = q.entity
    BY <1>3, <1>7 DEF Request
  <2>3. q.op = "merge_entity" => to = "target"
    OBVIOUS
  <2> HIDE DEF x, to
  <2>4. Matched(x, entities)
    BY <1>3, <1>7, <2>1, <2>2, <2>3 DEF Matched
  <2> QED BY <1>4, <2>1, <2>4
<1>8. CASE CheckTarget(r) /\ ~End(r)
  <2> DEFINE x == [q EXCEPT !.pc = "work"]
  <2>1. /\ req' = [req EXCEPT ![r] = x] /\ q.pc = "target"
        /\ entities[q.target].case = q.case
    BY <1>3, <1>8 DEF CheckTarget, Inv, Types
  <2>2. /\ x.op = q.op /\ x.case = q.case
        /\ x.entity = q.entity /\ x.target = q.target
    BY <1>3, <1>8 DEF Request
  <2> HIDE DEF x
  <2>3. Matched(x, entities)
    BY <1>3, <1>8, <2>1, <2>2 DEF Matched
  <2> QED BY <1>4, <2>1, <2>3
<1>9. CASE Refresh(r) /\ ~End(r)
  <2> DEFINE row == IF q.op \in {"create_case", "update_case"}
                    THEN cases[q.case] ELSE q.seen
             x == [q EXCEPT !.pc = "answered", !.seen = row]
  <2>1. req' = [req EXCEPT ![r] = x]
    BY <1>3, <1>9 DEF Refresh, Inv, Types
  <2>2. x.pc = "answered"
    BY <1>3, <1>9 DEF Request
  <2> HIDE DEF x
  <2>3. Matched(x, entities)
    BY <2>2 DEF Matched
  <2> QED BY <1>4, <2>1, <2>3
<1>10. CASE RemoveFile(r) /\ ~End(r)
  <2> DEFINE x == [q EXCEPT !.pc = "removed"]
  <2>1. req' = [req EXCEPT ![r] = x]
    BY <1>3, <1>10 DEF RemoveFile, Inv, Types
  <2>2. x.pc = "removed"
    BY <1>3, <1>10 DEF Request
  <2> HIDE DEF x
  <2>3. Matched(x, entities)
    BY <2>2 DEF Matched
  <2> QED BY <1>4, <2>1, <2>3
<1>11. ASSUME ~End(r), NEW v \in Evidences, StoreFile(r, v)
       PROVE  MergeInv'
  <2> DEFINE x == [q EXCEPT !.pc = "stored", !.evidence = v]
  <2>1. req' = [req EXCEPT ![r] = x]
    BY <1>3, <1>11 DEF StoreFile, Inv, Types
  <2>2. x.pc = "stored"
    BY <1>3, <1>11 DEF Request
  <2> HIDE DEF x
  <2>3. Matched(x, entities)
    BY <2>2 DEF Matched
  <2> QED BY <1>4, <2>1, <2>3
<1>12. CASE Answered(r) \/ Fail(r)
  BY <1>2, <1>12 DEF Answered, Fail
<1> QED
  BY <1>2, <1>5, <1>6, <1>7, <1>8, <1>9, <1>10, <1>11, <1>12

LEMMA MergeAsks ==
  ASSUME Inv, MergeInv, NEW r \in Requests, NEW u \in Users,
         \/ \E l \in Levels : AskNewCase(r, u, l)
         \/ \E op \in OnCase, c \in Cases, e \in Entities \cup {Nil},
               wish \in Wish : AskOnCase(r, u, op, c, e, wish)
         \/ \E e, t \in Entities : AskToMerge(r, u, e, t)
         \/ \E v \in Evidences : AskToDeleteEvidence(r, u, v)
  PROVE  MergeInv'
<1>1. ASSUME NEW x, Ask(r, x), x.pc = "load" \/ x.op # "merge_entity"
      PROVE  MergeInv'
  <2>1. req' = [req EXCEPT ![r] = x] /\ UNCHANGED <<entities, blind>>
    BY <1>1 DEF Ask, tables, history
  <2>2. Matched(x, entities)
    BY <1>1 DEF Matched
  <2> QED BY <2>1, <2>2, OneMatches
<1>2. ASSUME NEW l \in Levels, AskNewCase(r, u, l) PROVE MergeInv'
  <2> DEFINE x == [Blank(u, "create_case", "work") EXCEPT !.wish.level = l]
  <2>1. x.op = "create_case" /\ Ask(r, x)
    BY <1>2 DEF AskNewCase, Blank
  <2> HIDE DEF x
  <2> QED BY <1>1, <2>1
<1>3. ASSUME NEW op \in OnCase, NEW c \in Cases, NEW e \in Entities \cup {Nil},
             NEW wish \in Wish, AskOnCase(r, u, op, c, e, wish)
      PROVE  MergeInv'
  <2> DEFINE x == [Blank(u, op, "check") EXCEPT !.case = c, !.entity = e,
                                                !.wish = wish]
  <2>1. x.op = op /\ Ask(r, x) /\ op # "merge_entity"
    BY <1>3 DEF AskOnCase, Blank, OnCase
  <2> HIDE DEF x
  <2> QED BY <1>1, <2>1
<1>4. ASSUME NEW e \in Entities, NEW t \in Entities, AskToMerge(r, u, e, t)
      PROVE  MergeInv'
  <2> DEFINE x == [Blank(u, "merge_entity", "load") EXCEPT !.entity = e,
                                                           !.target = t]
  <2>1. x.pc = "load" /\ Ask(r, x)
    BY <1>4 DEF AskToMerge, Blank
  <2> HIDE DEF x
  <2> QED BY <1>1, <2>1
<1>5. ASSUME NEW v \in Evidences, AskToDeleteEvidence(r, u, v)
      PROVE  MergeInv'
  <2> DEFINE x == [Blank(u, "delete_evidence", "load") EXCEPT !.evidence = v]
  <2>1. x.pc = "load" /\ Ask(r, x)
    BY <1>5 DEF AskToDeleteEvidence, Blank
  <2> HIDE DEF x
  <2> QED BY <1>1, <2>1
<1> QED BY <1>2, <1>3, <1>4, <1>5

LEMMA MergeNext == Inv /\ MergeInv /\ [Next]_vars => MergeInv'
<1> SUFFICES ASSUME Inv, MergeInv, [Next]_vars PROVE MergeInv'
  OBVIOUS
<1>1. CASE UNCHANGED vars
  <2>1. UNCHANGED <<entities, blind, req>>
    BY <1>1 DEF vars, tables, history
  <2> QED BY <2>1, SameEntities DEF MergeInv, AllMatched
<1>2. ASSUME NEW r \in Requests,
             \/ \E c \in Cases : CreateCase(r, c)
             \/ \E v \in Evidences : CreateEvidence(r, v)
             \/ UpdateCase(r) \/ DeleteCase(r) \/ UploadEvidence(r)
             \/ DeleteEvidence(r) \/ GenerateReport(r)
      PROVE  MergeInv'
  <2>1. /\ req[r].pc \in {"work", "stored", "removed"}
        /\ UNCHANGED <<entities, blind>>
        /\ \E pc \in {"refresh", "answered"} : \E c, row, asked :
             Leave(r, pc, c, row, asked)
    BY <1>2 DEF CreateCase, CreateEvidence, UpdateCase, DeleteCase,
         UploadEvidence, DeleteEvidence, GenerateReport, AtCommit, Settle,
         history
  <2>2. req[r] \in Request
    BY <2>1, Known
  <2> QED BY <2>1, <2>2, LeaversMerge
<1>3. ASSUME NEW v \in Evidences, Decay(v) PROVE MergeInv'
  <2>1. UNCHANGED <<entities, blind, req>>
    BY <1>3 DEF Decay, tables, history
  <2> QED BY <2>1, SameEntities DEF MergeInv, AllMatched
<1> QED
  BY <1>1, <1>2, <1>3, MergeAsks, MergeLooks, NewEntity, Merges DEF Next

(* Where one edge leads from m, if there is one.                           *)
Onward(m, c) ==
  LET onward == {t \in Entities : <<m, t>> \in EntityGraph(c)}
  IN IF onward = {} THEN m ELSE CHOOSE t \in onward : TRUE

LEMMA OneEdge ==
  ASSUME Inv, NEW m \in Entities, NEW c
  PROVE  /\ Onward(m, c) \in Entities
         /\ MergedIn(entities, m) /\ entities[m].case = c =>
              Onward(m, c) = entities[m].merged
         /\ ~MergedIn(entities, m) => Onward(m, c) = m
<1> DEFINE onward == {t \in Entities : <<m, t>> \in EntityGraph(c)}
<1>1. Onward(m, c) = IF onward = {} THEN m ELSE CHOOSE t \in onward : TRUE
  BY DEF Onward
<1>2. \A t \in Entities :
        t \in onward <=> /\ entities[m] # Nil /\ entities[m].case = c
                        /\ entities[m].merged # Nil /\ entities[m].merged = t
  BY DEF EntityGraph
<1>3. entities[m] # Nil => entities[m].merged \in Entities \cup {Nil}
  <2>1. entities[m] \in EntityRow \cup {Nil}
    BY DEF Inv, Types
  <2> QED BY <2>1 DEF EntityRow
<1>4. onward \subseteq Entities
  OBVIOUS
<1> HIDE DEF onward
<1>5. MergedIn(entities, m) /\ entities[m].case = c =>
        onward = {entities[m].merged}
  BY <1>2, <1>3, <1>4 DEF MergedIn
<1>6. ~MergedIn(entities, m) => onward = {}
  BY <1>2, <1>4 DEF MergedIn
<1> QED BY <1>1, <1>4, <1>5, <1>6

LEMMA EdgeByEdge ==
  ASSUME Inv, NEW e \in Entities
  PROVE  /\ Cardinality(Entities) \in Nat
         /\ AfterMerges(e) \in [0..Cardinality(Entities) -> Entities]
         /\ AfterMerges(e)[0] = e
         /\ \A n \in 1..Cardinality(Entities) :
              AfterMerges(e)[n] =
                Onward(AfterMerges(e)[n - 1], entities[e].case)
<1> DEFINE m == Cardinality(Entities)
           D(x) == Onward(x, entities[e].case)
           rule == [n \in 1..m |-> [x \in Entities |-> D(x)]]
           body(f) == [n \in 0..m |-> IF n = 0 THEN e ELSE D(f[n - 1])]
           after == CHOOSE f : f = body(f)
<1>1. m \in Nat
  BY FS_CardinalityType, CaseworkAssumption
<1>2. AfterMerges(e) = after
  BY DEF AfterMerges, Onward
<1>3. rule \in Rules(1..m, Entities)
  BY OneEdge DEF Rules
<1>4. \A n \in 1..m, x \in Entities : rule[n][x] = D(x)
  OBVIOUS
<1> HIDE DEF rule, m, D
<1>5. PICK f \in [0..m -> Entities] : FollowsUpTo(f, m, e, rule)
  BY <1>1, <1>3, RecursiveUpTo
<1>6. ASSUME NEW n \in 1..m
      PROVE  f[n] = D(f[n - 1])
  <2>1. n - 1 \in 0..m
    BY <1>1
  <2>2. f[n - 1] \in Entities
    BY <2>1
  <2> QED BY <1>4, <1>5, <2>2 DEF FollowsUpTo
<1>7. f[0] = e
  BY <1>5 DEF FollowsUpTo
<1>8. ASSUME NEW n \in 0..m
      PROVE  f[n] = IF n = 0 THEN e ELSE D(f[n - 1])
  <2>1. n # 0 => n \in 1..m
    BY <1>1
  <2> QED BY <1>6, <1>7, <2>1
<1>9. f = body(f)
  BY <1>8
<1>10. after = body(after)
  <2> HIDE DEF body
  <2> QED BY <1>9, Zenon
<1>11. /\ after[0] = e /\ DOMAIN after = 0..m
       /\ \A n \in 1..m : after[n] = D(after[n - 1])
       /\ after = [n \in 0..m |-> after[n]]
  <2> DEFINE g == after
  <2>1. g = body(g)
    BY <1>10
  <2> HIDE DEF g
  <2>2. g[0] = e /\ DOMAIN g = 0..m
    BY <1>1, <2>1
  <2>3. \A n \in 1..m : g[n] = D(g[n - 1])
    BY <1>1, <2>1
  <2>4. g = [n \in 0..m |-> g[n]]
    BY <2>1
  <2> QED BY <2>2, <2>3, <2>4 DEF g
<1> HIDE DEF after
<1> DEFINE same == {n \in 0..m : after[n] = f[n]}
<1>12. 0 \in same
  BY <1>1, <1>7, <1>11
<1>13. ASSUME NEW n \in 0..m, n # m, n \in same PROVE n + 1 \in same
  <2> DEFINE k == n + 1
  <2>1. k \in 1..m /\ k \in 0..m /\ k - 1 = n
    BY <1>1, <1>13
  <2> HIDE DEF k
  <2>2. after[k] = D(after[n]) /\ f[k] = D(f[n])
    BY <1>6, <1>11, <2>1
  <2>3. after[n] = f[n]
    BY <1>13
  <2>4. k \in same
    BY <2>1, <2>2, <2>3
  <2> HIDE DEF same
  <2> QED BY <2>4 DEF k
<1> HIDE DEF same
<1>14. 0..m \subseteq same
  BY <1>1, <1>12, <1>13, BoundedInduction
<1>15. \A n \in 0..m : after[n] \in Entities
  BY <1>14 DEF same
<1>16. after \in [0..m -> Entities]
  BY <1>11, <1>15
<1> QED BY <1>1, <1>2, <1>11, <1>16 DEF m, D

(* The way from an entity of a case stays in the case, and ends at what is *)
(* not merged unless it passes a blind one: otherwise it would climb       *)
(* through more ranks than there are entities.                             *)
LEMMA WaysEnd ==
  ASSUME Inv, MergeInv, NEW e \in Entities, entities[e] # Nil,
         \A n \in 0..Cardinality(Entities) : AfterMerges(e)[n] \notin blind
  PROVE  LET last == AfterMerges(e)[Cardinality(Entities)] IN
           /\ last \in Entities /\ entities[last] # Nil
           /\ entities[last].case = entities[e].case
           /\ entities[last].merged = Nil
<1> DEFINE m == Cardinality(Entities)
<1>1. PICK a : a = AfterMerges(e)
  OBVIOUS
<1>2. /\ m \in Nat /\ a \in [0..m -> Entities] /\ a[0] = e
      /\ \A n \in 1..m : a[n] = Onward(a[n - 1], entities[e].case)
      /\ \A n \in 0..m : a[n] \notin blind
  BY <1>1, EdgeByEdge
<1> HIDE DEF m
<1> DEFINE near == {n \in 0..m : /\ entities[a[n]] # Nil
                                /\ entities[a[n]].case = entities[e].case}
<1>3. 0 \in near
  BY <1>2
<1>4. ASSUME NEW n \in 0..m, n # m, n \in near PROVE n + 1 \in near
  <2>1. /\ n + 1 \in 1..m /\ n + 1 \in 0..m /\ n + 1 - 1 = n
        /\ a[n] \in Entities
    BY <1>2, <1>4
  <2>2. a[n + 1] = Onward(a[n], entities[e].case)
    BY <1>2, <2>1
  <2>3. CASE MergedIn(entities, a[n])
    <3>1. a[n + 1] = entities[a[n]].merged
      BY <1>4, <2>1, <2>2, <2>3, OneEdge
    <3> QED BY <1>4, <2>1, <2>3, <3>1 DEF MergeInv, OneCase
  <2>4. CASE ~MergedIn(entities, a[n])
    <3>1. a[n + 1] = a[n]
      BY <2>1, <2>2, <2>4, OneEdge
    <3> QED BY <1>4, <2>1, <3>1
  <2> QED BY <2>3, <2>4
<1> HIDE DEF near
<1>5. 0..m \subseteq near
  BY <1>2, <1>3, <1>4, BoundedInduction
<1>6. ASSUME NEW n \in 0..m
      PROVE  /\ a[n] \in Entities /\ entities[a[n]] # Nil
             /\ entities[a[n]].case = entities[e].case
  BY <1>2, <1>5 DEF near
<1>7. ASSUME NEW n \in 1..m
      PROVE  /\ MergedIn(entities, a[n - 1]) =>
                  a[n] = entities[a[n - 1]].merged
             /\ ~MergedIn(entities, a[n - 1]) => a[n] = a[n - 1]
  <2>1. n - 1 \in 0..m
    BY <1>2
  <2> QED BY <1>2, <1>6, <2>1, OneEdge
<1>8. ASSUME MergedIn(entities, a[m]) PROVE FALSE
  <2> DEFINE back == {n \in 0..m : MergedIn(entities, a[m - n])}
  <2>1. 0 \in back
    BY <1>2, <1>8
  <2>2. ASSUME NEW n \in 0..m, n # m, n \in back PROVE n + 1 \in back
    <3> DEFINE k == m - n
    <3>1. k \in 1..m /\ n + 1 \in 0..m /\ m - (n + 1) = k - 1
      BY <1>2, <2>2
    <3>2. MergedIn(entities, a[k])
      BY <2>2
    <3> HIDE DEF k
    <3>3. MergedIn(entities, a[k - 1])
      BY <1>7, <3>1, <3>2
    <3> QED BY <3>1, <3>3
  <2> HIDE DEF back
  <2>3. 0..m \subseteq back
    BY <1>2, <2>1, <2>2, BoundedInduction
  <2>4. ASSUME NEW n \in 0..m PROVE MergedIn(entities, a[n])
    <3>1. m - n \in 0..m /\ m - (m - n) = n
      BY <1>2
    <3>2. m - n \in back
      BY <2>3, <3>1
    <3>3. MergedIn(entities, a[m - (m - n)])
      BY <3>2 DEF back
    <3> QED BY <3>1, <3>3
  <2>5. PICK top \in Nat : \E rank \in [Entities -> 0..top] : Ranked(rank)
    BY DEF MergeInv, Ranks
  <2>6. PICK rank \in [Entities -> 0..top] : Ranked(rank)
    BY <2>5
  <2>7. ASSUME NEW n \in 1..m PROVE rank[a[n - 1]] < rank[a[n]]
    <3>1. n - 1 \in 0..m /\ n \in 0..m
      BY <1>2
    <3>2. a[n] = entities[a[n - 1]].merged
      BY <1>7, <2>4, <3>1
    <3>3. a[n - 1] \in Entities \ blind
      BY <1>2, <1>6, <3>1
    <3> QED BY <2>4, <2>6, <3>1, <3>2, <3>3 DEF Ranked
  <2> DEFINE above == {n \in 0..m : \A i \in 0..m :
                         i < n => rank[a[i]] < rank[a[n]]}
  <2>8. \A n \in 0..m : rank[a[n]] \in Nat
    BY <1>6, <2>5
  <2>9. 0 \in above
    BY <1>2
  <2>10. ASSUME NEW n \in 0..m, n # m, n \in above PROVE n + 1 \in above
    <3>1. /\ n + 1 \in 1..m /\ n + 1 \in 0..m /\ n + 1 - 1 = n
          /\ \A i \in 0..m : i < n + 1 => i < n \/ i = n
      BY <1>2, <2>10
    <3>2. rank[a[n]] < rank[a[n + 1]]
      BY <2>7, <3>1
    <3>3. ASSUME NEW i \in 0..m, i < n + 1
          PROVE  rank[a[i]] < rank[a[n + 1]]
      <4>1. i = n \/ rank[a[i]] < rank[a[n]]
        BY <2>10, <3>1, <3>3
      <4>2. /\ rank[a[i]] \in Nat /\ rank[a[n]] \in Nat
            /\ rank[a[n + 1]] \in Nat
        BY <2>8, <3>1
      <4> QED BY <3>2, <4>1, <4>2
    <3> QED BY <3>1, <3>3
  <2> HIDE DEF above
  <2>11. 0..m \subseteq above
    BY <1>2, <2>9, <2>10, BoundedInduction
  <2>12. \A i, j \in 0..m : i < j => rank[a[i]] < rank[a[j]]
    BY <2>11 DEF above
  <2>13. \A i, j \in 0..m : a[i] = a[j] => i = j
    <3>1. \A i, j \in 0..m : i < j \/ j < i \/ i = j
      BY <1>2
    <3> QED BY <2>8, <2>12, <3>1
  <2>14. IsFiniteSet(0..m) /\ Cardinality(0..m) = m + 1
    BY <1>2, FS_Interval
  <2> DEFINE steps == 0..m
  <2>15. /\ IsFiniteSet(steps) /\ a \in [steps -> Entities]
         /\ Cardinality(Entities) < Cardinality(steps)
    BY <1>2, <2>14 DEF m
  <2>16. \A i, j \in steps : a[i] = a[j] => i = j
    BY <2>13
  <2> HIDE DEF steps
  <2> QED BY <2>15, <2>16, CaseworkAssumption, FS_PigeonHole
<1>9. m \in 0..m
  BY <1>2
<1> QED BY <1>1, <1>6, <1>8, <1>9 DEF MergedIn, m

(* Whatever merges overlap, on whichever entities of the case: the owner   *)
(* of a live case finds each of its entities in the list, or the one that  *)
(* it was merged into, unless a merge on the way was into an entity that   *)
(* was merged already or into itself, which merge_entity does not rule out.*)
THEOREM MergesAlwaysEndInTheList == Spec => []MergesEndInTheList
<1>1. Inv /\ MergeInv => MergesEndInTheList
  <2> SUFFICES ASSUME Inv, MergeInv, NEW e \in Entities, entities[e] # Nil,
                      Live(entities[e].case),
                      \A n \in 0..Cardinality(Entities) :
                        AfterMerges(e)[n] \notin blind
               PROVE  AfterMerges(e)[Cardinality(Entities)] \in
                        ListedEntities(cases[entities[e].case].owner)
    BY DEF MergesEndInTheList
  <2>1. PICK last : last = AfterMerges(e)[Cardinality(Entities)]
    OBVIOUS
  <2>2. /\ last \in Entities /\ entities[last] # Nil
        /\ entities[last].case = entities[e].case
        /\ entities[last].merged = Nil
    BY <2>1, WaysEnd
  <2> QED BY <2>1, <2>2 DEF ListedEntities
<1> QED BY <1>1, MergeInit, MergeNext, Always, PTL DEF Spec
=============================================================================
