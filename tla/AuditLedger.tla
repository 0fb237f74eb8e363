---------------------------- MODULE AuditLedger ----------------------------
(***************************************************************************)
(* What the audit trail promises: one sequence of records, each recorded   *)
(* at most once, that only ever grows at its end.                          *)
(***************************************************************************)
EXTENDS Naturals, Sequences

CONSTANT Calls

VARIABLE ledger

Init == ledger = << >>

Record(c) ==
  /\ \A i \in DOMAIN ledger : ledger[i].rec # c
  /\ ledger' = Append(ledger, [index |-> Len(ledger), rec |-> c])

Next == \E c \in Calls : Record(c)

Spec == Init /\ [][Next]_ledger
=============================================================================
