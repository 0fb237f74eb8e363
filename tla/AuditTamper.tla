---------------------------- MODULE AuditTamper ----------------------------
(***************************************************************************)
(* AuditChain next to an outside hand that changes rows of audit_chain     *)
(* directly, which is what verify_audit_chain is there to detect.          *)
(***************************************************************************)
EXTENDS AuditVerify

CONSTANT MaxTampers     \* bound: rows changed behind the program's back

VARIABLES
  tampers,   \* number of such changes so far
  written    \* history: the rows log_audit has committed, as it wrote them

tvars == <<vars, tampers, written>>

-----------------------------------------------------------------------------
(* Rewriting what a row records (time, action, user, resource, details),   *)
(* its hash left as it was.                                                *)
EditRow ==
  \E r \in chain : \E c \in Calls \ {r.rec} :
    chain' = (chain \ {r}) \cup {[r EXCEPT !.rec = c]}

(* Removing a row that another one follows.  (Nothing in the table tells   *)
(* that its LAST rows were removed, and verify_audit_chain cannot.)        *)
DropRow ==
  \E r, q \in chain : q.index > r.index /\ chain' = chain \ {r}

Tamper ==
  /\ tampers < MaxTampers
  /\ tampers' = tampers + 1
  /\ EditRow \/ DropRow
  /\ UNCHANGED <<logs, lock, pc, proc, lastRow, pending, crashes, written>>

TInit == Init /\ tampers = 0 /\ written = {}

TNext ==
  \/ Next /\ written' = written \cup (chain' \ chain) /\ UNCHANGED tampers
  \/ Tamper

TSpec == TInit /\ [][TNext]_tvars

-----------------------------------------------------------------------------
(* When calls do not overlap, verify_audit_chain is right both ways: it    *)
(* accepts every table that holds what log_audit wrote, and rejects every  *)
(* table in which a row differs from what was written, or was removed from *)
(* below another one, no matter what is appended afterwards.               *)
VerifyTellsTampering == \A v \in Verdicts(chain) : v.ok <=> chain = written
=============================================================================
