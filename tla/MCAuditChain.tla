---------------------------- MODULE MCAuditChain ----------------------------
(* The audit chain with a deque of three events.                            *)
EXTENDS AuditChain
=============================================================================
