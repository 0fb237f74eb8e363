----------------------------- MODULE MCCasework -----------------------------
(* Casework with an owner of cases and an administrator who has the scope  *)
(* but not every clearance.                                                *)
EXTENDS Casework, TLC

CONSTANTS owner, admin

MCProfile ==
  [u \in Users |->
     [scopes |-> IF u = admin THEN {"admin"}
                 ELSE {"read:cases", "write:cases", "write:reports"},
      superuser |-> FALSE, clearance |-> "RESTRICTED"]]

MCWorkloads ==
  {{"create_case", "update_case", "delete_case"},
   {"create_case", "delete_case", "create_entity", "merge_entity"},
   {"create_case", "delete_case", "upload_evidence", "delete_evidence"},
   {"create_case", "delete_case", "create_entity", "create_evidence",
    "generate_report"}}

Symmetry ==
  UNION {Permutations(S) : S \in {Requests, Cases, Entities, Evidences}}
=============================================================================
