-------------------------- MODULE MCAuditRecorder --------------------------
(* A finite instance of AuditRecorder for TLC. *)
EXTENDS AuditRecorder, TLC

CONSTANTS r1, r2, r3, f1, f2
=============================================================================
