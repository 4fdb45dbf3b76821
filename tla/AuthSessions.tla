---------------------------- MODULE AuthSessions ----------------------------
(***************************************************************************)
(* Browser sessions and roles of zksato's API: AuthManager and             *)
(* require_roles (auth.py) and the session endpoints (api.py).             *)
(*                                                                         *)
(* A session token is a signed claim; the server keeps no list of valid    *)
(* sessions, only the revoked ones, in memory, until they would have       *)
(* expired.  The signature (HMAC-SHA256) is a Boolean: made with the       *)
(* server's secret or not.  A request carries an API key, or a session     *)
(* cookie and perhaps the session's CSRF token.                            *)
(***************************************************************************)
EXTENDS Integers, FiniteSets

CONSTANTS
    Sessions,     \* session ids (uuid4)
    SessionTTL,   \* settings.session_ttl_seconds
    MaxTime       \* bound on the clock

ASSUME AuthAssumption ==
    IsFiniteSet(Sessions) /\ SessionTTL \in Nat \ {0} /\ MaxTime \in Nat

VARIABLES
    issued,      \* the claim of each session, or NoClaim
    revokedExp,  \* AuthManager._revoked_sessions with _session_expiry
    loggedOut,   \* the sessions revoked since the process started
    authTime,    \* seconds
    verdict      \* the outcome of the request just handled

authVars == <<issued, revokedExp, loggedOut, authTime, verdict>>

-----------------------------------------------------------------------------
Roles == {"read_only", "strategy_operator", "order_approver", "risk_admin",
          "auditor", "platform_admin"}

\* ROLE_GRANTS
RoleGrants ==
    [read_only         |-> {"read_only"},
     strategy_operator |-> {"read_only", "strategy_operator"},
     order_approver    |-> {"read_only", "strategy_operator", "order_approver"},
     risk_admin        |-> {"read_only", "strategy_operator", "order_approver", "risk_admin"},
     auditor           |-> {"read_only", "auditor"},
     platform_admin    |-> Roles]

\* The dependencies of api.py: what an endpoint requires.
Accesses == {{"read_only"}, {"strategy_operator"}, {"order_approver"}, {"risk_admin"},
             {"auditor", "platform_admin"}}

NoClaim == [role |-> "none", exp |-> 0]
NotRevoked == -1

\* What a request with a session cookie presents.  An unsigned token claims
\* to be the session.
Requests == [sid: Sessions, signed: BOOLEAN, mutating: BOOLEAN, csrf: BOOLEAN,
             access: Accesses]

NoVerdict == [accepted |-> FALSE]

AuthInit ==
    /\ issued = [s \in Sessions |-> NoClaim]
    /\ revokedExp = [s \in Sessions |-> NotRevoked]
    /\ loggedOut = {}
    /\ authTime = 0
    /\ verdict = NoVerdict

\* issue_session, for the holder of an API key with that role.
IssueSession(s, role) ==
    /\ issued[s] = NoClaim
    /\ issued' = [issued EXCEPT ![s] = [role |-> role, exp |-> authTime + SessionTTL]]
    /\ UNCHANGED <<revokedExp, loggedOut, authTime, verdict>>

\* _prune_revoked_sessions
PruneRevoked ==
    [s \in Sessions |-> IF revokedExp[s] < authTime THEN NotRevoked ELSE revokedExp[s]]

\* authenticate and _authenticate_session, once the revoked sessions are pruned.
AuthenticateSession(q, revoked) ==
    /\ q.signed /\ issued[q.sid] # NoClaim
    /\ revoked[q.sid] = NotRevoked
    /\ issued[q.sid].exp > authTime
    /\ q.mutating => q.csrf

\* require
RequireRole(role, access) == RoleGrants[role] \cap access # {}

\* A request to an endpoint.
Authenticate(q) ==
    LET revoked == PruneRevoked
    IN  /\ revokedExp' = revoked
        /\ verdict' =
             [accepted |-> /\ AuthenticateSession(q, revoked)
                           /\ RequireRole(issued[q.sid].role, q.access),
              request |-> q]
    /\ UNCHANGED <<issued, loggedOut, authTime>>

\* Mutant: the revocation is kept without its expiry.
RevokedUntilZero(s) == 0

\* What revoke_session stores for a session: the exp of its claim.
RevokedUntil(s) == issued[s].exp

\* delete_session, asked for by the session itself or by an API key holder who
\* presents its cookie.
RevokeSession(s, byKey) ==
    /\ issued[s] # NoClaim
    /\ LET revoked == PruneRevoked
           own == [sid |-> s, signed |-> TRUE, mutating |-> TRUE, csrf |-> TRUE,
                   access |-> {"read_only"}]
       IN  /\ byKey \/ AuthenticateSession(own, revoked)
           /\ revokedExp' = [(IF byKey THEN revokedExp ELSE revoked) EXCEPT ![s] = RevokedUntil(s)]
    /\ loggedOut' = loggedOut \cup {s}
    /\ verdict' = NoVerdict
    /\ UNCHANGED <<issued, authTime>>

AuthTick ==
    /\ authTime < MaxTime
    /\ authTime' = authTime + 1
    /\ verdict' = NoVerdict
    /\ UNCHANGED <<issued, revokedExp, loggedOut>>

\* The revoked sessions are in memory only: a new process knows none.
AuthRestart ==
    /\ revokedExp' = [s \in Sessions |-> NotRevoked]
    /\ loggedOut' = {}
    /\ verdict' = NoVerdict
    /\ UNCHANGED <<issued, authTime>>

AuthNext ==
    \/ \E s \in Sessions, role \in Roles : IssueSession(s, role)
    \/ \E q \in Requests : Authenticate(q)
    \/ \E s \in Sessions, byKey \in BOOLEAN : RevokeSession(s, byKey)
    \/ AuthTick
    \/ AuthRestart

AuthSpec == AuthInit /\ [][AuthNext]_authVars

-----------------------------------------------------------------------------
(* Properties.                                                             *)

AuthTypeOK ==
    /\ issued \in [Sessions -> [role: Roles \cup {"none"}, exp: 0..(MaxTime + SessionTTL)]]
    /\ revokedExp \in [Sessions -> -1..(MaxTime + SessionTTL)]
    /\ loggedOut \subseteq Sessions
    /\ authTime \in 0..MaxTime

\* A session ends when it is revoked: until the process is replaced no request
\* with its cookie is accepted, although authenticate forgets revocations; and
\* a request that is accepted carries an unexpired session the server signed,
\* the CSRF token if it changes anything, and a role the endpoint asks for.
AcceptedIsAuthentic ==
    verdict.accepted =>
        LET q == verdict.request
        IN  /\ q.sid \notin loggedOut
            /\ q.signed /\ issued[q.sid].exp > authTime
            /\ q.mutating => q.csrf
            /\ q.access \cap RoleGrants[issued[q.sid].role] # {}
=============================================================================
