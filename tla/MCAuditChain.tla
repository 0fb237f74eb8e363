--------------------------- MODULE MCAuditChain ---------------------------
(* AuditChain with interchangeable calls and processes.                    *)
EXTENDS AuditVerify, TLC

Symmetry == Permutations(Calls) \cup Permutations(Procs)
=============================================================================
