----------------------------- MODULE MCAuditTrail -----------------------------
(* A small instance of AuditTrail: two runs, interleaved or one after a    *)
(* restart of the other.                                                   *)
EXTENDS AuditTrail

CONSTANTS r1, r2

TwoRuns == {r1, r2}
===============================================================================
