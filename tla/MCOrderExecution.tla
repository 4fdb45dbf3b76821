-------------------------- MODULE MCOrderExecution --------------------------
(* Small instances of OrderExecution for TLC.                              *)
EXTENDS OrderExecution, TLC

CONSTANTS r1, r2, c1, a1

\* Two tries of one order.
MCRetry == [r \in Requests |-> c1]
\* r1 carries a client_order_id, r2 does not.
MCOneId == [r \in Requests |-> IF r = r1 THEN c1 ELSE NoId]

\* All present the same approval.
MCApprovalOf == [r \in Requests |-> a1]

MCSandbox == [trading_mode |-> "sandbox", reconciliation_enabled |-> TRUE,
              live_trading_enabled |-> FALSE, live_requires_confirmation |-> TRUE,
              max_open_orders |-> 2, redis |-> FALSE]
MCSandboxRedis == [MCSandbox EXCEPT !.redis = TRUE]
MCLiveRedis == [MCSandboxRedis EXCEPT !.trading_mode = "live", !.live_trading_enabled = TRUE]
=============================================================================
