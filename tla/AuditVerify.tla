---------------------------- MODULE AuditVerify ----------------------------
(***************************************************************************)
(* verify_audit_chain of backend/app/core/audit.py, over the table that    *)
(* AuditChain builds.                                                      *)
(***************************************************************************)
EXTENDS AuditChain, SequencesExt

-----------------------------------------------------------------------------
(* SELECT ... ORDER BY index ASC: rows of equal index come in any order.   *)
Orderings(rows) ==
  {s \in SetToSeqs(rows) :
     \A i, j \in DOMAIN s : i < j => s[i].index <= s[j].index}

(* What the loop finds wrong with row i of s, given that all rows before   *)
(* it were accepted.                                                       *)
Reason(s, i) ==
  LET expected == IF i = 1 THEN Genesis ELSE s[i - 1].hash
  IN  CASE s[i].index # i - 1       -> "index_gap"
        [] s[i].index = i - 1 /\ s[i].previous # expected -> "previous_hash"
        [] s[i].index = i - 1 /\ s[i].previous = expected
           /\ s[i].hash # ComputeChainHash(expected, s[i].index, s[i].rec)
                                    -> "hash_mismatch"
        [] OTHER                    -> "none"

VerifyAuditChain(s) ==
  LET broken == {i \in DOMAIN s : Reason(s, i) # "none"}
      first  == Min(broken)
      good   == IF broken = {} THEN Len(s) ELSE first - 1
  IN  [ok       |-> broken = {},
       total    |-> Len(s),
       reason   |-> IF broken = {} THEN "none" ELSE Reason(s, first),
       lastHash |-> IF good = 0 THEN Genesis ELSE s[good].hash]

Verdicts(rows) == {VerifyAuditChain(s) : s \in Orderings(rows)}

-----------------------------------------------------------------------------
(* Rows that nobody has touched never look touched.  Concurrent calls can  *)
(* give two rows the same index, but whatever order the rows come back in, *)
(* verify_audit_chain then stops on "index_gap": it never answers          *)
(* "previous_hash" or "hash_mismatch", so these two do mean tampering.     *)
NoFalseTamperReason ==
  \A v \in Verdicts(chain) : v.reason \in {"none", "index_gap"}

(* What GET /audit/verify reports for a table that only log_audit has      *)
(* written: a chain with nothing broken in it.                             *)
UntamperedVerifies == \A v \in Verdicts(chain) : v.ok
=============================================================================
