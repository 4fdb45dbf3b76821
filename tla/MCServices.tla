----------------------------- MODULE MCServices -----------------------------
(***************************************************************************)
(* Small instances of the services around trading for TLC: notifications,  *)
(* the Settrade feed, sessions, rate limiting, the audit chain and the     *)
(* strategy registry.  As in MCTradingDesk, a behaviour is one of a single *)
(* component; only the component that moves is scheduled fairly.           *)
(***************************************************************************)
EXTENDS NotificationOutbox, SettradeFeed, AuthSessions, RateLimit, AuditChain, StrategyRegistry

VARIABLE component

serviceVars ==
    <<component, vars, settradeVars, authVars, rateVars, auditVars, registryVars>>

ServicesInit ==
    /\ component \in {"outbox", "settrade", "auth", "rate", "audit", "registry"}
    /\ Init /\ SettradeInit /\ AuthInit /\ RateInit /\ AuditInit /\ RegistryInit
    /\ redis => component = "rate"

OutboxMoves ==
    /\ component = "outbox" /\ Next
    /\ UNCHANGED <<component, settradeVars, authVars, rateVars, auditVars, registryVars>>
SettradeMoves ==
    /\ component = "settrade" /\ SettradeNext
    /\ UNCHANGED <<component, vars, authVars, rateVars, auditVars, registryVars>>
AuthMoves ==
    /\ component = "auth" /\ AuthNext
    /\ UNCHANGED <<component, vars, settradeVars, rateVars, auditVars, registryVars>>
RateMoves ==
    /\ component = "rate" /\ RateNext
    /\ UNCHANGED <<component, vars, settradeVars, authVars, auditVars, registryVars>>
AuditMoves ==
    /\ component = "audit" /\ AuditNext
    /\ UNCHANGED <<component, vars, settradeVars, authVars, rateVars, registryVars>>
RegistryMoves ==
    /\ component = "registry" /\ RegistryNext
    /\ UNCHANGED <<component, vars, settradeVars, authVars, rateVars, auditVars>>

ServicesNext ==
    OutboxMoves \/ SettradeMoves \/ AuthMoves \/ RateMoves \/ AuditMoves \/ RegistryMoves

\* Fairness of NotificationOutbox and SettradeFairness, of the component that
\* moves.
ServicesFairness ==
    /\ WF_vars(component = "outbox" /\ DispatchStep)
    /\ WF_vars(component = "outbox" /\ Tick)
    /\ \A i \in Supervisors :
         /\ WF_settradeVars(component = "settrade" /\ Poll(i))
         /\ WF_settradeVars(component = "settrade" /\ Cancelled(i))

ServicesSpec == ServicesInit /\ [][ServicesNext]_serviceVars /\ ServicesFairness

\* The variables of the component that moves have the types its module gives
\* them.
ServicesTypeOK ==
    /\ component = "outbox" => TypeOK
    /\ component = "settrade" => SettradeTypeOK
    /\ component = "auth" => AuthTypeOK
    /\ component = "rate" => RateTypeOK
    /\ component = "audit" => AuditTypeOK
    /\ component = "registry" => RegistryTypeOK
=============================================================================
