--------------------------- MODULE ServicesProofs ---------------------------
(***************************************************************************)
(* Proofs about the services around trading: the strategy registry, the    *)
(* browser sessions, the request limiter, the audit chain and the Settrade *)
(* feed, for any number of replicas, sessions, requests, events and        *)
(* supervisors; and about the suite that MCServices makes of them and of   *)
(* the notification outbox.                                                *)
(***************************************************************************)
EXTENDS MCServices, NotificationOutboxProofs, InductionFacts, FiniteSetTheorems, SequenceTheorems, TLAPS

-----------------------------------------------------------------------------
(* The strategy registry.                                                  *)

\* A replica that lost no insert knows the version of the table or none.
RegistryInv ==
    /\ RegistryTypeOK
    /\ OneMeaningPerVersion
    /\ \A r \in Replicas \ unsaved : known[r] \in {row, Unregistered}

\* Every registration, recorded run and restart keeps what was answered true.
LEMMA RegistryStep == ASSUME RegistryInv, [RegistryNext]_registryVars PROVE RegistryInv'
<1> USE RegistryAssumption DEF RegistryInv, RegistryTypeOK, OneMeaningPerVersion, Held
<1>1. CASE UNCHANGED registryVars
  BY <1>1 DEF registryVars
<1>2. ASSUME NEW r \in Replicas, NEW config \in VersionConfigs, RegisterKnown(r, config)
      PROVE  RegistryInv'
  BY <1>2 DEF RegisterKnown, Answer
<1>3. ASSUME NEW r \in Replicas, NEW config \in VersionConfigs, RegisterNew(r, config)
      PROVE  RegistryInv'
  BY <1>3 DEF RegisterNew, Answer
<1>4. ASSUME NEW r \in Replicas, NEW config \in VersionConfigs, RegisterLate(r, config)
      PROVE  RegistryInv'
  BY <1>4 DEF RegisterLate, Answer, TakeRow
<1>5. ASSUME NEW r \in Replicas, NEW config \in VersionConfigs, RegisterFails(r, config)
      PROVE  RegistryInv'
  BY <1>5 DEF RegisterFails
<1>6. ASSUME NEW r \in Replicas, RecordRun(r)
      PROVE  RegistryInv'
  BY <1>6 DEF RecordRun
<1>7. ASSUME NEW r \in Replicas, ReplicaRestarts(r)
      PROVE  RegistryInv'
  BY <1>7 DEF ReplicaRestarts
<1> QED
  BY <1>1, <1>2, <1>3, <1>4, <1>5, <1>6, <1>7 DEF RegistryNext

\* The invariant of the registry.
LEMMA RegistryInvariant == RegistrySpec => []RegistryInv
<1>1. RegistryInit => RegistryInv
  BY RegistryAssumption DEF RegistryInit, RegistryInv, RegistryTypeOK, OneMeaningPerVersion, Held
<1> QED
  BY <1>1, RegistryStep, PTL DEF RegistrySpec

\* What any replica answered or recorded under a version is what the table holds
\* (add_strategy_version), for any number of replicas and configurations.
THEOREM VersionsAreImmutable == RegistrySpec => []OneMeaningPerVersion
<1>1. RegistryInv => OneMeaningPerVersion
  BY DEF RegistryInv
<1> QED
  BY <1>1, RegistryInvariant, PTL

-----------------------------------------------------------------------------
(* Sessions.                                                               *)

\* The expiry kept for a revoked session is the one of its claim; it is
\* forgotten only when the claim has expired.
RevokedOK ==
    \A s \in loggedOut :
        /\ issued[s] # NoClaim
        /\ revokedExp[s] = issued[s].exp \/ issued[s].exp < authTime

AuthInv == AuthTypeOK /\ RevokedOK /\ AcceptedIsAuthentic

\* authenticate judges by the claims and the revocations.
LEMMA AuthenticateStep ==
    ASSUME AuthInv, NEW q \in Requests, Authenticate(q)
    PROVE  AuthInv'
<1> USE AuthAssumption DEF AuthInv
<1>1. AuthTypeOK'
  BY DEF AuthTypeOK, Authenticate, PruneRevoked, NotRevoked
<1>2. RevokedOK'
  BY DEF AuthTypeOK, RevokedOK, Authenticate, PruneRevoked, NotRevoked
<1>3. ASSUME verdict'.accepted
      PROVE  /\ verdict'.request = q /\ AuthenticateSession(q, PruneRevoked)
             /\ RequireRole(issued[q.sid].role, q.access)
  BY <1>3 DEF Authenticate
<1>4. ASSUME AuthenticateSession(q, PruneRevoked) PROVE q.sid \notin loggedOut
  BY <1>4 DEF AuthTypeOK, RevokedOK, Requests, AuthenticateSession, PruneRevoked, NotRevoked
<1>5. UNCHANGED <<issued, loggedOut, authTime>>
  BY DEF Authenticate
<1>6. AcceptedIsAuthentic'
  BY <1>3, <1>4, <1>5 DEF AcceptedIsAuthentic, AuthenticateSession, RequireRole
<1> QED
  BY <1>1, <1>2, <1>6

\* Every request, login, logout, tick and restart keeps the invariant.
LEMMA AuthStep == ASSUME AuthInv, [AuthNext]_authVars PROVE AuthInv'
<1> USE AuthAssumption DEF AuthInv
<1>1. CASE UNCHANGED authVars
  BY <1>1 DEF authVars, AuthTypeOK, RevokedOK, AcceptedIsAuthentic
<1>2. ASSUME NEW s \in Sessions, NEW role \in Roles, IssueSession(s, role)
      PROVE  AuthInv'
  <2>1. AuthTypeOK'
    BY <1>2 DEF AuthTypeOK, IssueSession
  <2>2. RevokedOK'
    BY <1>2 DEF AuthTypeOK, RevokedOK, IssueSession
  <2>3. AcceptedIsAuthentic'
    BY <1>2 DEF AuthTypeOK, AcceptedIsAuthentic, IssueSession, NoClaim
  <2> QED
    BY <2>1, <2>2, <2>3
<1>3. ASSUME NEW s \in Sessions, NEW byKey \in BOOLEAN, RevokeSession(s, byKey)
      PROVE  AuthInv'
  <2>1. AuthTypeOK'
    BY <1>3 DEF AuthTypeOK, RevokeSession, PruneRevoked, NotRevoked, RevokedUntil
  <2>2. RevokedOK'
    BY <1>3 DEF AuthTypeOK, RevokedOK, RevokeSession, PruneRevoked, NotRevoked, RevokedUntil
  <2>3. AcceptedIsAuthentic'
    BY <1>3 DEF AcceptedIsAuthentic, RevokeSession, NoVerdict
  <2> QED
    BY <2>1, <2>2, <2>3
<1>4. CASE AuthTick
  BY <1>4 DEF AuthTick, AuthTypeOK, RevokedOK, AcceptedIsAuthentic, NoVerdict
<1>5. CASE AuthRestart
  BY <1>5 DEF AuthRestart, AuthTypeOK, RevokedOK, AcceptedIsAuthentic, NoVerdict, NotRevoked
<1> QED
  BY <1>1, <1>2, <1>3, <1>4, <1>5, AuthenticateStep DEF AuthNext

\* The invariant of the sessions.
LEMMA AuthInvariant == AuthSpec => []AuthInv
<1>1. AuthInit => AuthInv
  BY AuthAssumption DEF AuthInit, AuthInv, AuthTypeOK, RevokedOK, AcceptedIsAuthentic, NoClaim,
                        NotRevoked, NoVerdict
<1> QED
  BY <1>1, AuthStep, PTL DEF AuthSpec

\* A request that authenticate and require let through carries a live, signed
\* session that was not logged out, its CSRF token and a sufficient role, for
\* any set of sessions and any lifetime.
THEOREM SessionsAreAuthentic == AuthSpec => []AcceptedIsAuthentic
<1>1. AuthInv => AcceptedIsAuthentic
  BY DEF AuthInv
<1> QED
  BY <1>1, AuthInvariant, PTL

-----------------------------------------------------------------------------
(* The request limiter.                                                    *)

\* Requests are admitted in the order of time.
InOrder ==
    /\ \A i, j \in DOMAIN admitted : i <= j => admitted[i] <= admitted[j]
    /\ \A i \in DOMAIN admitted : admitted[i] <= rateTime

\* Of more than span consecutive admitted requests the last came a Window after
\* the first.
Spaced(span) ==
    \A i \in DOMAIN admitted :
        i + span \in DOMAIN admitted => admitted[i] + Window <= admitted[i + span]

\* The deque holds the last admitted requests; the others are a Window old.
LocalOK ==
    LET older == Len(admitted) - Len(events)
    IN  /\ Len(events) <= RequestLimit /\ older >= 0
        /\ \A i \in DOMAIN events : events[i] = admitted[older + i]
        /\ \A i \in 1..older : admitted[i] + Window <= rateTime
        /\ Spaced(RequestLimit)

\* The requests the Redis count has admitted in its window.
Counted == IF counter.count <= RequestLimit THEN counter.count ELSE RequestLimit

\* The window of the count began at expires - Window: the requests it counts
\* came since then, the others before, and all but the last RequestLimit of
\* those a Window before.
RedisOK ==
    LET older == Len(admitted) - Counted
        start == counter.expires - Window
    IN  /\ older >= 0 /\ start <= rateTime
        /\ counter.count = 0 => older = 0
        /\ \A i \in DOMAIN admitted : admitted[i] < counter.expires
        /\ \A i \in (older + 1)..Len(admitted) : admitted[i] >= start
        /\ \A i \in 1..older : admitted[i] < start
        /\ \A i \in 1..(older - RequestLimit) : admitted[i] + Window <= start
        /\ Spaced(2 * RequestLimit)

\* A refused request had RequestLimit admitted ones before it in a Window.
LimitedOK ==
    limited => /\ Len(admitted) >= RequestLimit
               /\ admitted[Len(admitted) - RequestLimit + 1] > rateTime - Window

RateInv ==
    /\ RateTypeOK /\ InOrder /\ LimitedOK
    /\ IF redis THEN RedisOK ELSE LocalOK

\* Decide appends an admitted request.
LEMMA DecideFacts ==
    ASSUME RateTypeOK, NEW allowed \in BOOLEAN, Decide(allowed)
    PROVE  /\ limited' = ~allowed /\ redis' = redis /\ rateTime' = rateTime
           /\ Len(admitted) \in Nat /\ DOMAIN admitted = 1..Len(admitted)
           /\ \A i \in DOMAIN admitted : admitted[i] \in Int
           /\ admitted' \in Seq(0..MaxNow) /\ limited' \in BOOLEAN
           /\ DOMAIN admitted' = 1..Len(admitted')
           /\ \A i \in DOMAIN admitted : admitted'[i] = admitted[i]
           /\ IF allowed THEN Len(admitted') = Len(admitted) + 1 /\ admitted'[Len(admitted) + 1] = rateTime
                         ELSE admitted' = admitted
<1> DEFINE n == Len(admitted)
<1>1. n \in Nat /\ DOMAIN admitted = 1..n /\ admitted \in Seq(0..MaxNow) /\ rateTime \in 0..MaxNow
  BY LenProperties DEF RateTypeOK
<1>2. \A i \in DOMAIN admitted : admitted[i] \in Int
  <2>1. \A i \in 1..n : admitted[i] \in 0..MaxNow
    BY <1>1, ElementOfSeq
  <2> QED
    BY <1>1, <2>1
<1>3. CASE allowed
  <2>1. /\ Append(admitted, rateTime) \in Seq(0..MaxNow)
        /\ Len(Append(admitted, rateTime)) = n + 1
        /\ \A i \in 1..n : Append(admitted, rateTime)[i] = admitted[i]
        /\ Append(admitted, rateTime)[n + 1] = rateTime
    BY <1>1, AppendProperties
  <2>2. admitted' = Append(admitted, rateTime) /\ limited' = FALSE
    BY <1>3 DEF Decide
  <2> QED
    BY <1>1, <1>2, <1>3, <2>1, <2>2, LenProperties DEF Decide
<1>4. CASE ~allowed
  BY <1>1, <1>2, <1>4 DEF Decide
<1> QED
  BY <1>3, <1>4

\* dispatch without Redis.
LEMMA LocalStep == ASSUME RateInv, DispatchLocal PROVE RateInv'
<1>1. PICK k \in 0..Len(events) :
         LET recent == SubSeq(events, k + 1, Len(events))
         IN  /\ Pops(k)
             /\ Decide(Len(recent) < RequestLimit)
             /\ events' = IF Len(recent) < RequestLimit THEN Append(recent, rateTime) ELSE recent
  BY DEF DispatchLocal
<1>2. PICK recent : recent = SubSeq(events, k + 1, Len(events))
  OBVIOUS
<1>3. ~redis /\ counter' = counter
  BY DEF DispatchLocal
<1>4. RateTypeOK /\ InOrder /\ LimitedOK /\ LocalOK
  BY <1>3 DEF RateInv
<1> DEFINE n == Len(admitted)
           e == Len(events)
           m == Len(recent)
           allowed == m < RequestLimit
<1>5. n \in Nat /\ e \in Nat /\ k \in Nat /\ k <= e /\ rateTime \in Int /\ RequestLimit \in Nat
      /\ Window \in Nat /\ RequestLimit > 0 /\ DOMAIN events = 1..e /\ events \in Seq(0..MaxNow)
      /\ rateTime \in 0..MaxNow
  BY <1>1, <1>4, RateAssumption, LenProperties DEF RateTypeOK
<1>6. recent \in Seq(0..MaxNow) /\ m = e - k /\ m \in Nat /\ \A i \in 1..m : recent[i] = events[k + i]
  <2>1. \A i \in (k + 1)..e : events[i] \in 0..MaxNow
    <3>1. \A i \in 1..e : events[i] \in 0..MaxNow
      BY <1>5, ElementOfSeq
    <3> QED
      BY <1>5, <3>1
  <2>2. /\ SubSeq(events, k + 1, e) \in Seq(0..MaxNow)
        /\ Len(SubSeq(events, k + 1, e)) = IF k + 1 <= e THEN e - (k + 1) + 1 ELSE 0
        /\ \A i \in 1..(e - (k + 1) + 1) : SubSeq(events, k + 1, e)[i] = events[k + 1 + i - 1]
    <3>1. k + 1 \in Int /\ e \in Int
      BY <1>5
    <3> HIDE DEF e
    <3> QED
      BY <2>1, <3>1, SubSeqProperties
  <2>3. recent = SubSeq(events, k + 1, e)
    BY <1>2
  <2> HIDE DEF e
  <2>4. m = e - k /\ m \in Nat
    BY <1>5, <2>2, <2>3
  <2> HIDE DEF m
  <2>5. \A i \in 1..m : i \in 1..(e - (k + 1) + 1) /\ k + 1 + i - 1 = k + i
    BY <1>5, <2>4
  <2>6. \A i \in 1..m : recent[i] = events[k + i]
    BY <2>2, <2>3, <2>5
  <2> QED
    BY <2>2, <2>3, <2>4, <2>6
<1>7. Decide(allowed) /\ allowed \in BOOLEAN /\ Pops(k)
      /\ events' = IF allowed THEN Append(recent, rateTime) ELSE recent
  BY <1>1, <1>2
<1>8. /\ limited' = ~allowed /\ redis' = redis /\ rateTime' = rateTime
      /\ DOMAIN admitted = 1..n
      /\ \A i \in DOMAIN admitted : admitted[i] \in Int
      /\ admitted' \in Seq(0..MaxNow) /\ limited' \in BOOLEAN
      /\ DOMAIN admitted' = 1..Len(admitted')
      /\ \A i \in DOMAIN admitted : admitted'[i] = admitted[i]
      /\ IF allowed THEN Len(admitted') = n + 1 /\ admitted'[n + 1] = rateTime
                    ELSE admitted' = admitted
  <2> HIDE DEF allowed
  <2> QED
    BY <1>4, <1>7, DecideFacts
<1>9. /\ events' \in Seq(0..MaxNow) /\ DOMAIN events' = 1..Len(events')
      /\ \A i \in 1..m : events'[i] = recent[i]
      /\ IF allowed THEN Len(events') = m + 1 /\ events'[m + 1] = rateTime ELSE events' = recent
  <2>1. /\ Append(recent, rateTime) \in Seq(0..MaxNow)
        /\ Len(Append(recent, rateTime)) = m + 1
        /\ \A i \in 1..m : Append(recent, rateTime)[i] = recent[i]
        /\ Append(recent, rateTime)[m + 1] = rateTime
    <3>1. recent \in Seq(0..MaxNow) /\ rateTime \in 0..MaxNow
      BY <1>5, <1>6
    <3> QED
      BY <3>1, AppendProperties
  <2> HIDE DEF allowed
  <2> QED
    BY <1>6, <1>7, <2>1, LenProperties
<1> HIDE DEF n, e, m
<1>10. /\ n - e >= 0 /\ e <= RequestLimit
       /\ \A i \in 1..e : events[i] = admitted[n - e + i]
       /\ \A i \in 1..(n - e) : admitted[i] + Window <= rateTime
       /\ Spaced(RequestLimit)
  BY <1>4, <1>5 DEF LocalOK, n, e
<1>11. \A i \in 1..(n - m) : admitted[i] + Window <= rateTime
  <2> SUFFICES ASSUME NEW i \in 1..(n - m), ~(i <= n - e) PROVE admitted[i] + Window <= rateTime
    BY <1>5, <1>6, <1>10
  <2>1. i - (n - e) \in 1..k /\ i - (n - e) \in 1..e /\ n - e + (i - (n - e)) = i
    BY <1>5, <1>6
  <2>2. rateTime - events[i - (n - e)] >= Window /\ events[i - (n - e)] = admitted[i]
    BY <1>7, <1>10, <2>1 DEF Pops
  <2>3. admitted[i] \in Int
    BY <1>5, <1>6, <1>8
  <2> QED
    BY <1>5, <2>2, <2>3
<1>12. \A i \in 1..m : recent[i] = admitted[n - m + i]
  BY <1>5, <1>6, <1>10
<1>13. RateTypeOK'
  BY <1>3, <1>4, <1>8, <1>9 DEF RateTypeOK
<1>14. InOrder'
  <2>1. CASE allowed
    <3>1. DOMAIN admitted' = 1..(n + 1)
      BY <1>8, <2>1
    <3> HIDE DEF allowed
    <3> QED
      BY <1>4, <1>5, <1>8, <2>1, <3>1, SMTT(20) DEF InOrder
  <2>2. CASE ~allowed
    BY <1>4, <1>8, <2>2 DEF InOrder
  <2> QED
    BY <2>1, <2>2
<1>15. LocalOK'
  <2>1. CASE allowed
    <3>1. /\ Len(admitted') = n + 1 /\ Len(events') = m + 1 /\ m + 1 <= RequestLimit
          /\ Len(admitted') - Len(events') = n - m /\ n - m >= 0 /\ m \in Nat
      <4>1. Len(admitted') = n + 1 /\ Len(events') = m + 1
        BY <1>8, <1>9, <2>1
      <4>2. m + 1 <= RequestLimit /\ n - m >= 0 /\ m \in Nat
        BY <1>5, <1>6, <1>10, <2>1
      <4>3. n + 1 - (m + 1) = n - m
        BY <1>5, <4>2
      <4>4. Len(admitted') - Len(events') = n - m
        BY <1>5, <4>1, <4>2
      <4> QED
        BY <4>1, <4>2, <4>4, Zenon
    <3>2. \A i \in 1..(m + 1) : events'[i] = admitted'[n - m + i]
      <4> SUFFICES ASSUME NEW i \in 1..(m + 1) PROVE events'[i] = admitted'[n - m + i]
        OBVIOUS
      <4>1. CASE i = m + 1
        <5>1. n - m + i = n + 1
          BY <1>5, <3>1, <4>1
        <5> QED
          BY <1>8, <1>9, <2>1, <4>1, <5>1
      <4>2. CASE i # m + 1
        <5>1. i \in 1..m /\ n - m + i \in 1..n
          BY <1>5, <3>1, <4>2
        <5> QED
          BY <1>8, <1>9, <1>12, <5>1
      <4> QED
        BY <4>1, <4>2
    <3>3. \A i \in 1..(n - m) : admitted'[i] + Window <= rateTime'
      BY <1>5, <1>8, <1>11, <3>1
    <3>4. Spaced(RequestLimit)'
      <4> SUFFICES ASSUME NEW i \in 1..(n + 1), i + RequestLimit \in 1..(n + 1)
                   PROVE  admitted'[i] + Window <= admitted'[i + RequestLimit]
        BY <1>8, <3>1 DEF Spaced
      <4>1. CASE i + RequestLimit = n + 1
        <5>1. i \in 1..n /\ i \in 1..(n - m)
          BY <1>5, <3>1, <4>1
        <5> QED
          BY <1>8, <1>11, <2>1, <4>1, <5>1
      <4>2. CASE i + RequestLimit # n + 1
        <5>1. i \in 1..n /\ i + RequestLimit \in 1..n
          BY <1>5, <4>2
        <5> QED
          BY <1>8, <1>10, <5>1 DEF Spaced
      <4> QED
        BY <4>1, <4>2
    <3> HIDE DEF allowed
    <3> QED
      BY <1>9, <3>1, <3>2, <3>3, <3>4 DEF LocalOK
  <2>2. CASE ~allowed
    <3>1. /\ admitted' = admitted /\ events' = recent /\ Len(recent) = m /\ m <= RequestLimit
          /\ n - m >= 0 /\ DOMAIN recent = 1..m
      BY <1>5, <1>6, <1>8, <1>9, <1>10, <2>2 DEF m
    <3>2. Spaced(RequestLimit)'
      BY <1>10, <3>1 DEF Spaced
    <3> QED
      BY <1>8, <1>11, <1>12, <3>1, <3>2 DEF LocalOK, n
  <2> QED
    BY <2>1, <2>2
<1>16. LimitedOK'
  <2> SUFFICES ASSUME ~allowed
               PROVE  /\ Len(admitted') >= RequestLimit
                      /\ admitted'[Len(admitted') - RequestLimit + 1] > rateTime' - Window
    BY <1>8 DEF LimitedOK
  <2>1. m = RequestLimit /\ e = m /\ k = 0 /\ Len(admitted') = n /\ n >= RequestLimit
    BY <1>5, <1>6, <1>8, <1>10 DEF n
  <2>2. rateTime - events[1] < Window /\ events[1] = admitted[n - RequestLimit + 1]
    BY <1>5, <1>7, <1>10, <2>1 DEF Pops, e
  <2>3. admitted[n - RequestLimit + 1] \in Int
    BY <1>5, <1>8, <2>1
  <2> QED
    BY <1>5, <1>8, <2>1, <2>2, <2>3
<1> QED
  BY <1>3, <1>8, <1>13, <1>14, <1>15, <1>16 DEF RateInv

\* allow_request.
LEMMA RedisStep == ASSUME RateInv, DispatchRedis PROVE RateInv'
<1>1. PICK live \in BOOLEAN : live <=> (counter.count > 0 /\ rateTime < counter.expires)
  OBVIOUS
<1>2. PICK count : count = IF live THEN counter.count + 1 ELSE 1
  OBVIOUS
<1>3. PICK allowed \in BOOLEAN : allowed <=> (count <= RequestLimit)
  OBVIOUS
<1>4. /\ redis /\ events' = events /\ Decide(allowed)
      /\ counter' = [count |-> count, expires |-> IF live THEN counter.expires ELSE rateTime + Window]
  BY <1>1, <1>2, <1>3 DEF DispatchRedis, Decide
<1>5. RateTypeOK /\ InOrder /\ LimitedOK /\ RedisOK
  BY <1>4 DEF RateInv
<1>6. PICK n \in Nat : n = Len(admitted)
  BY <1>5, LenProperties DEF RateTypeOK
<1>7. /\ counter.count \in Nat /\ counter.expires \in Nat /\ count \in Nat /\ count > 0
      /\ rateTime \in Nat /\ RequestLimit \in Nat /\ RequestLimit > 0 /\ Window \in Nat /\ Window > 0
  BY <1>1, <1>2, <1>5, RateAssumption DEF RateTypeOK
<1>8. /\ limited' = ~allowed /\ redis' = redis /\ rateTime' = rateTime
      /\ DOMAIN admitted = 1..n
      /\ \A i \in DOMAIN admitted : admitted[i] \in Int
      /\ admitted' \in Seq(0..MaxNow) /\ limited' \in BOOLEAN
      /\ DOMAIN admitted' = 1..Len(admitted')
      /\ \A i \in DOMAIN admitted : admitted'[i] = admitted[i]
      /\ IF allowed THEN Len(admitted') = n + 1 /\ admitted'[n + 1] = rateTime
                    ELSE admitted' = admitted
  BY <1>4, <1>5, <1>6, DecideFacts
<1>9. PICK m \in Nat : m = Counted
  BY <1>7 DEF Counted
<1>10. PICK start \in Int : start = counter.expires - Window
  BY <1>7
<1>11. /\ m <= n /\ start <= rateTime /\ m <= RequestLimit /\ m <= counter.count
       /\ counter.count <= RequestLimit => m = counter.count
       /\ counter.count > RequestLimit => m = RequestLimit
       /\ counter.count = 0 => n = 0
       /\ \A i \in 1..n : admitted[i] < counter.expires
       /\ \A i \in (n - m + 1)..n : admitted[i] >= start
       /\ \A i \in 1..(n - m) : admitted[i] < start
       /\ \A i \in 1..(n - m - RequestLimit) : admitted[i] + Window <= start
       /\ Spaced(2 * RequestLimit)
  <2>1. /\ n - m >= 0 /\ counter.expires - Window <= rateTime
        /\ counter.count = 0 => n - m = 0
        /\ \A i \in DOMAIN admitted : admitted[i] < counter.expires
        /\ \A i \in (n - m + 1)..n : admitted[i] >= counter.expires - Window
        /\ \A i \in 1..(n - m) : admitted[i] < counter.expires - Window
        /\ \A i \in 1..(n - m - RequestLimit) : admitted[i] + Window <= counter.expires - Window
        /\ Spaced(2 * RequestLimit)
    BY <1>5, <1>6, <1>9 DEF RedisOK
  <2>2. /\ m <= RequestLimit /\ m <= counter.count
        /\ counter.count <= RequestLimit => m = counter.count
        /\ counter.count > RequestLimit => m = RequestLimit
    BY <1>7, <1>9 DEF Counted
  <2>3. m <= n /\ (counter.count = 0 => n = 0)
    BY <2>1, <2>2
  <2>4. \A i \in 1..n : admitted[i] < counter.expires
    BY <1>8, <2>1
  <2> QED
    BY <1>10, <2>1, <2>2, <2>3, <2>4
<1>12. RateTypeOK'
  <2>1. counter' \in [count: Nat, expires: Nat]
    BY <1>4, <1>7
  <2> QED
    BY <1>4, <1>5, <1>8, <2>1 DEF RateTypeOK
<1>kept. \A i \in 1..n : admitted'[i] = admitted[i] /\ admitted[i] \in Int
  BY <1>8
<1>13. InOrder'
  <2>1. CASE allowed
    <3>1. DOMAIN admitted' = 1..(n + 1)
      BY <1>8, <2>1
    <3> QED
      BY <1>5, <1>7, <1>8, <2>1, <3>1, SMTT(20) DEF InOrder
  <2>2. CASE ~allowed
    BY <1>5, <1>8, <2>2 DEF InOrder
  <2> QED
    BY <2>1, <2>2
<1>14. Len(admitted') = IF allowed THEN n + 1 ELSE n
  BY <1>6, <1>8
<1>15. CASE live
  <2>1. counter'.count = counter.count + 1 /\ counter'.expires = counter.expires
    BY <1>2, <1>4, <1>15
  <2>2. Counted' = (IF allowed THEN m + 1 ELSE m) /\ (allowed => m < RequestLimit)
        /\ (~allowed => m = RequestLimit)
    BY <1>2, <1>3, <1>7, <1>11, <1>15, <2>1 DEF Counted
  <2>3. LimitedOK'
    <3> SUFFICES ASSUME ~allowed
                 PROVE  /\ Len(admitted') >= RequestLimit
                        /\ admitted'[Len(admitted') - RequestLimit + 1] > rateTime' - Window
      BY <1>8 DEF LimitedOK
    <3>1. m = RequestLimit /\ n - RequestLimit + 1 \in (n - m + 1)..n /\ n - RequestLimit + 1 \in 1..n
      BY <1>7, <1>11, <2>2
    <3>2. admitted[n - RequestLimit + 1] >= start /\ admitted[n - RequestLimit + 1] \in Int
      BY <1>8, <1>11, <3>1
    <3>3. start > rateTime - Window
      BY <1>1, <1>7, <1>10, <1>15
    <3>4. admitted' = admitted /\ Len(admitted') = n /\ rateTime' = rateTime
      BY <1>8, <1>14
    <3> QED
      BY <1>7, <1>11, <3>1, <3>2, <3>3, <3>4
  <2>4. RedisOK'
    <3>1. CASE ~allowed
      <4>1. admitted' = admitted /\ Len(admitted') = n /\ Counted' = m
        BY <1>8, <1>14, <2>2, <3>1
      <4>2. Spaced(2 * RequestLimit)'
        BY <1>11, <4>1 DEF Spaced
      <4> QED
        BY <1>7, <1>8, <1>10, <1>11, <2>1, <4>1, <4>2 DEF RedisOK
    <3>2. CASE allowed
      <4>1. Len(admitted') = n + 1 /\ Counted' = m + 1 /\ m < RequestLimit
        BY <1>14, <2>2, <3>2
      <4>2. n + 1 - (m + 1) = n - m /\ counter'.expires - Window = start
        BY <1>10, <2>1
      <4>3. \A i \in (n - m + 1)..(n + 1) : admitted'[i] >= start
        BY <1>7, <1>8, <1>11, <1>kept, <3>2
      <4>4. \A i \in 1..(n + 1) : admitted'[i] < counter.expires
        BY <1>1, <1>7, <1>8, <1>11, <1>15, <1>kept, <3>2
      <4>5. \A i \in 1..(n - m) : admitted'[i] < start
        BY <1>11, <1>kept
      <4>6. \A i \in 1..(n - m - RequestLimit) : admitted'[i] + Window <= start
        BY <1>7, <1>11, <1>kept
      <4>7. Spaced(2 * RequestLimit)'
        <5> SUFFICES ASSUME NEW i \in 1..(n + 1), i + 2 * RequestLimit \in 1..(n + 1)
                     PROVE  admitted'[i] + Window <= admitted'[i + 2 * RequestLimit]
          BY <1>8, <4>1 DEF Spaced
        <5>1. CASE i + 2 * RequestLimit = n + 1
          <6>1. i \in 1..n /\ i \in 1..(n - m - RequestLimit)
            BY <1>7, <4>1, <5>1
          <6>2. admitted'[i] + Window <= start
            BY <4>6, <6>1
          <6>3. admitted'[i] \in Int
            BY <1>8, <6>1
          <6>4. admitted'[i + 2 * RequestLimit] = rateTime
            BY <1>8, <3>2, <5>1
          <6> QED
            BY <1>7, <1>11, <6>2, <6>3, <6>4
        <5>2. CASE i + 2 * RequestLimit # n + 1
          <6>1. i \in 1..n /\ i + 2 * RequestLimit \in 1..n
            BY <1>7, <5>2
          <6> QED
            BY <1>8, <1>11, <6>1 DEF Spaced
        <5> QED
          BY <5>1, <5>2
      <4> QED
        BY <1>7, <1>8, <1>11, <2>1, <4>1, <4>2, <4>3, <4>4, <4>5, <4>6, <4>7 DEF RedisOK
    <3> QED
      BY <3>1, <3>2
  <2> QED
    BY <1>4, <1>8, <1>12, <1>13, <2>3, <2>4 DEF RateInv
<1>16. CASE ~live
  <2>1. /\ counter'.count = 1 /\ counter'.expires = rateTime + Window /\ allowed
        /\ Len(admitted') = n + 1 /\ admitted'[n + 1] = rateTime /\ Counted' = 1
        /\ counter'.expires - Window = rateTime
    <3>1. counter'.count = 1 /\ counter'.expires = rateTime + Window /\ allowed
      BY <1>2, <1>3, <1>4, <1>7, <1>16
    <3> QED
      BY <1>7, <1>8, <3>1 DEF Counted
  <2>2. \A i \in 1..n : admitted'[i] < rateTime
    BY <1>1, <1>7, <1>11, <1>16, <1>kept
  <2>3. \A i \in 1..(n - RequestLimit) : admitted'[i] + Window <= rateTime
    <3> SUFFICES ASSUME NEW i \in 1..(n - RequestLimit) PROVE admitted'[i] + Window <= rateTime
      OBVIOUS
    <3>1. i \in 1..n /\ i \in 1..(n - m) /\ counter.count # 0
      BY <1>7, <1>11
    <3>2. admitted'[i] < start /\ admitted'[i] \in Int /\ counter.expires <= rateTime
      BY <1>1, <1>7, <1>11, <1>16, <1>kept, <3>1
    <3> QED
      BY <1>7, <1>10, <3>2
  <2>4. Spaced(2 * RequestLimit)'
    <3> SUFFICES ASSUME NEW i \in 1..(n + 1), i + 2 * RequestLimit \in 1..(n + 1)
                 PROVE  admitted'[i] + Window <= admitted'[i + 2 * RequestLimit]
      BY <1>8, <2>1 DEF Spaced
    <3>1. CASE i + 2 * RequestLimit = n + 1
      <4>1. i \in 1..(n - RequestLimit)
        BY <1>7, <3>1
      <4> QED
        BY <2>1, <2>3, <3>1, <4>1
    <3>2. CASE i + 2 * RequestLimit # n + 1
      <4>1. i \in 1..n /\ i + 2 * RequestLimit \in 1..n
        BY <1>7, <3>2
      <4> QED
        BY <1>8, <1>11, <4>1 DEF Spaced
    <3> QED
      BY <3>1, <3>2
  <2>5. RedisOK'
    BY <1>7, <1>8, <2>1, <2>2, <2>3, <2>4 DEF RedisOK
  <2>6. LimitedOK'
    BY <1>8, <2>1 DEF LimitedOK
  <2> QED
    BY <1>4, <1>8, <1>12, <1>13, <2>5, <2>6 DEF RateInv
<1> QED
  BY <1>15, <1>16

\* Time passes; the last answer is forgotten.
LEMMA RateTickStep == ASSUME RateInv, RateTick PROVE RateInv'
<1>1. /\ RateTypeOK /\ InOrder /\ rateTime' = rateTime + 1 /\ rateTime < MaxNow /\ limited' = FALSE
      /\ redis' = redis /\ events' = events /\ counter' = counter /\ admitted' = admitted
      /\ rateTime \in Int /\ Window \in Int
  BY RateAssumption DEF RateInv, RateTick, RateTypeOK
<1>2. Len(admitted) \in Nat /\ DOMAIN admitted = 1..Len(admitted) /\ Len(events) \in Nat
  BY <1>1, LenProperties DEF RateTypeOK
<1>3. \A i \in DOMAIN admitted : admitted[i] \in Int
  <2>1. \A i \in 1..Len(admitted) : admitted[i] \in 0..MaxNow
    BY <1>1, ElementOfSeq DEF RateTypeOK
  <2> QED
    BY <1>2, <2>1
<1>4. RateTypeOK' /\ InOrder' /\ LimitedOK'
  <2>1. RateTypeOK'
    <3>1. rateTime' \in 0..MaxNow
      BY <1>1, RateAssumption DEF RateTypeOK
    <3>2. limited' \in BOOLEAN /\ redis' \in BOOLEAN
      BY <1>1 DEF RateTypeOK
    <3> QED
      BY <1>1, <3>1, <3>2 DEF RateTypeOK
  <2>2. InOrder'
    BY <1>1, <1>3 DEF InOrder
  <2> QED
    BY <1>1, <2>1, <2>2 DEF LimitedOK
<1>5. CASE redis
  BY <1>1, <1>4, <1>5, RateAssumption DEF RateInv, RedisOK, Spaced, Counted, RateTypeOK
<1>6. CASE ~redis
  <2>1. Spaced(RequestLimit)'
    BY <1>1, <1>6 DEF RateInv, LocalOK, Spaced
  <2>2. \A i \in 1..(Len(admitted) - Len(events)) : admitted[i] + Window <= rateTime + 1
    BY <1>1, <1>2, <1>3, <1>6 DEF RateInv, LocalOK
  <2> QED
    BY <1>1, <1>4, <1>6, <2>1, <2>2 DEF RateInv, LocalOK
<1> QED
  BY <1>5, <1>6

\* The limiter starts with nothing admitted.
LEMMA RateInitInv == ASSUME RateInit PROVE RateInv
<1> USE RateAssumption DEF RateInit
<1>1. RateTypeOK /\ InOrder /\ LimitedOK /\ Spaced(RequestLimit) /\ Spaced(2 * RequestLimit)
  <2>1. RateTypeOK
    <3>1. counter \in [count: Nat, expires: Nat] /\ rateTime \in 0..MaxNow
      BY DEF NoCounter
    <3>2. limited \in BOOLEAN /\ redis \in BOOLEAN
      OBVIOUS
    <3>3. events \in Seq(0..MaxNow) /\ admitted \in Seq(0..MaxNow)
      BY EmptySeq
    <3> QED
      BY <3>1, <3>2, <3>3 DEF RateTypeOK
  <2> QED
    BY <2>1 DEF InOrder, LimitedOK, Spaced
<1>2. LocalOK
  BY <1>1, EmptySeq DEF LocalOK
<1>3. RedisOK
  BY <1>1, EmptySeq DEF RedisOK, NoCounter, Counted
<1> QED
  BY <1>1, <1>2, <1>3 DEF RateInv

\* Of requests admitted in order, with any two that are span apart a Window
\* apart, at most span fall into a Window.
LEMMA WindowBound ==
    ASSUME RateTypeOK, InOrder, NEW span \in Nat \ {0}, Spaced(span), NEW t \in Int
    PROVE  Cardinality({i \in DOMAIN admitted : admitted[i] \in t..(t + Window - 1)}) <= span
<1> DEFINE S == {i \in DOMAIN admitted : admitted[i] \in t..(t + Window - 1)}
<1>1. DOMAIN admitted = 1..Len(admitted) /\ Len(admitted) \in Nat /\ Window \in Nat
  BY LenProperties, RateAssumption DEF RateTypeOK
<1>2. CASE S = {}
  BY <1>2, FS_EmptySet
<1>3. CASE S # {}
  <2>1. S \subseteq Nat
    BY <1>1
  <2>2. PICK a \in S : \A b \in S : a <= b
    <3> HIDE DEF S
    <3> QED
      BY <1>3, <2>1, LeastNat
  <2>3. \A b \in S : a <= b
    BY <2>2
  <2>4. \A b \in S : b <= a + span - 1
    <3> SUFFICES ASSUME NEW b \in S, b >= a + span PROVE FALSE
      BY <2>1
    <3>1. a + span \in DOMAIN admitted /\ a \in DOMAIN admitted /\ b \in DOMAIN admitted
      BY <1>1
    <3>2. admitted[a] + Window <= admitted[a + span] /\ admitted[a + span] <= admitted[b]
      BY <2>1, <3>1 DEF Spaced, InOrder
    <3>3. \A i \in DOMAIN admitted : admitted[i] \in Int
      <4>1. \A i \in 1..Len(admitted) : admitted[i] \in 0..MaxNow
        BY ElementOfSeq DEF RateTypeOK
      <4> QED
        BY <1>1, <4>1
    <3>4. admitted[a] >= t /\ admitted[b] <= t + Window - 1
      BY <3>3
    <3> QED
      BY <1>1, <3>1, <3>2, <3>3, <3>4
  <2>5. S \subseteq a..(a + span - 1)
    BY <2>1, <2>3, <2>4
  <2>6. a \in Int /\ a + span - 1 \in Int /\ a <= a + span - 1
    BY <2>1
  <2>7. IsFiniteSet(a..(a + span - 1)) /\ Cardinality(a..(a + span - 1)) = span
    BY <2>6, FS_Interval
  <2> HIDE DEF S
  <2>8. Cardinality(S) <= Cardinality(a..(a + span - 1))
    BY <2>5, <2>7, FS_Subset
  <2> QED
    BY <2>7, <2>8 DEF S
<1> QED
  BY <1>2, <1>3

\* A refused request is refused for RequestLimit admitted ones.
LEMMA RefusedForCause ==
    ASSUME RateTypeOK, InOrder, LimitedOK, limited
    PROVE  AdmittedSince(rateTime - Window) >= RequestLimit
<1> DEFINE n == Len(admitted)
           S == {i \in DOMAIN admitted : admitted[i] > rateTime - Window}
<1>1. /\ DOMAIN admitted = 1..n /\ n \in Nat /\ RequestLimit \in Nat /\ RequestLimit > 0
      /\ rateTime \in Int /\ Window \in Int
  BY LenProperties, RateAssumption DEF RateTypeOK
<1>2. n >= RequestLimit /\ admitted[n - RequestLimit + 1] > rateTime - Window
  BY DEF LimitedOK
<1>3. \A i \in 1..n : admitted[i] \in Int
  <2>1. \A i \in 1..n : admitted[i] \in 0..MaxNow
    BY ElementOfSeq DEF RateTypeOK
  <2> QED
    BY <2>1
<1> HIDE DEF n
<1>4. (n - RequestLimit + 1)..n \subseteq S
  BY <1>1, <1>2, <1>3 DEF InOrder
<1>5. IsFiniteSet(1..n) /\ S \subseteq 1..n
  BY <1>1, FS_Interval
<1>6. Cardinality((n - RequestLimit + 1)..n) = RequestLimit
  BY <1>1, <1>2, FS_Interval
<1> HIDE DEF S
<1>7. IsFiniteSet(S)
  BY <1>5, FS_Subset
<1>8. Cardinality((n - RequestLimit + 1)..n) <= Cardinality(S)
  BY <1>4, <1>7, FS_Subset
<1>9. AdmittedSince(rateTime - Window) = Cardinality(S) /\ Cardinality(S) \in Nat
  BY <1>7, FS_CardinalityType DEF AdmittedSince, S
<1> QED
  BY <1>1, <1>6, <1>8, <1>9

\* The invariant of the request limiter, with Redis and without.
LEMMA RateInvariant == RateSpec => []RateInv
<1>1. RateInv /\ [RateNext]_rateVars => RateInv'
  <2> SUFFICES ASSUME RateInv, [RateNext]_rateVars PROVE RateInv'
    OBVIOUS
  <2>1. CASE UNCHANGED rateVars
    BY <2>1 DEF rateVars, RateInv, RateTypeOK, InOrder, LimitedOK, LocalOK, RedisOK, Spaced, Counted
  <2> QED
    BY <2>1, LocalStep, RedisStep, RateTickStep DEF RateNext
<1> QED
  BY <1>1, RateInitInv, PTL DEF RateSpec

\* RateLimitMiddleware: in any Window at most RequestLimit requests are admitted
\* (with Redis twice as many), and nobody is refused for less, for every limit
\* and every length of the window.
THEOREM LimiterIsFair == RateSpec => []RateFair
<1>1. ASSUME RateInv PROVE RateFair
  <2>1. RateTypeOK /\ InOrder /\ LimitedOK
    BY <1>1 DEF RateInv
  <2>2. PICK span \in Nat \ {0} : span = (IF redis THEN 2 ELSE 1) * RequestLimit
    BY RateAssumption
  <2>3. Spaced(span)
    BY <1>1, <2>2, RateAssumption DEF RateInv, RedisOK, LocalOK
  <2>4. \A t \in 0..rateTime :
          Cardinality({i \in DOMAIN admitted : admitted[i] \in t..(t + Window - 1)}) <= span
    BY <2>1, <2>3, WindowBound
  <2>5. limited => AdmittedSince(rateTime - Window) >= RequestLimit
    BY <2>1, RefusedForCause
  <2> QED
    BY <2>2, <2>4, <2>5 DEF RateFair
<1> QED
  BY <1>1, RateInvariant, PTL

-----------------------------------------------------------------------------
(* The audit chain.                                                        *)

\* A record, in memory or in the table, is as add_audit wrote it but for its
\* body; it names the hash of the event that was the newest then.
EventOK(e) ==
    /\ e \in [id: 1..Len(origin), body: {"written", "altered"}, at: Int,
              prev: {e.prev}, hash: {e.hash}]
    /\ e.hash = <<e.id, "written", e.prev, e.at>>
    /\ origin[e.id] = IF e.prev = NoHash THEN 0 ELSE e.prev[1]

AuditOK ==
    /\ origin \in Seq(0..MaxEvents) /\ Len(origin) <= MaxEvents
    /\ wallClock \in Nat /\ mishaps \in 0..MaxMishaps
    /\ audit \in Seq(Range(audit)) /\ Len(audit) <= HistorySize
    /\ IsFiniteSet(rows)
    /\ \A e \in rows \cup Range(audit) : EventOK(e)

\* While nothing was evicted or lost, the deque and the table hold every event,
\* the n-th stamped n.
WholeHistory ==
    /\ Len(audit) = Len(origin) /\ wallClock = Len(origin) + 1
    /\ \A i \in DOMAIN audit : audit[i].at = i
    /\ rows = Range(audit)
    /\ VerifyAuditChain

AuditInv ==
    /\ AuditOK
    /\ mishaps = 0 /\ Len(origin) <= HistorySize => WholeHistory

\* A chain that verifies is a chain of unaltered neighbours: SHA-256 binds each
\* record to the one before it.
LEMMA VerifiedChain == ASSUME AuditOK PROVE VerifiedIsAsWritten
<1> SUFFICES ASSUME VerifyAuditChain, NEW i \in DOMAIN audit
             PROVE  /\ audit[i].body = "written"
                    /\ origin[audit[i].id] = IF i = 1 THEN 0 ELSE audit[i - 1].id
  BY DEF VerifiedIsAsWritten
<1>1. EventOK(audit[i])
  BY DEF AuditOK, Range
<1>2. audit[i].hash = Canonical(audit[i]) /\ audit[i].prev = IF i = 1 THEN NoHash ELSE audit[i - 1].hash
  BY DEF VerifyAuditChain
<1>3. audit[i].body = "written"
  BY <1>1, <1>2 DEF EventOK, Canonical
<1>4. CASE i = 1
  BY <1>1, <1>2, <1>3, <1>4 DEF EventOK
<1>5. CASE i # 1
  <2>1. i - 1 \in DOMAIN audit
    BY <1>5, LenProperties DEF AuditOK
  <2>2. EventOK(audit[i - 1])
    BY <2>1 DEF AuditOK, Range
  <2>3. audit[i - 1].hash # NoHash /\ audit[i - 1].hash[1] = audit[i - 1].id
    BY <2>2 DEF EventOK, NoHash
  <2> QED
    BY <1>1, <1>2, <1>3, <1>5, <2>3 DEF EventOK
<1> QED
  BY <1>4, <1>5

\* The deque keeps the last events.
LEMMA RetainFacts ==
    ASSUME NEW S, NEW s \in Seq(S)
    PROVE  /\ Retain(s) \in Seq(S) /\ Len(Retain(s)) <= HistorySize
           /\ \A i \in DOMAIN Retain(s) : \E j \in DOMAIN s : Retain(s)[i] = s[j]
           /\ Len(s) <= HistorySize => Retain(s) = s
<1>1. Len(s) \in Nat /\ DOMAIN s = 1..Len(s) /\ HistorySize \in Nat
  BY LenProperties, AuditAssumption
<1>2. CASE Len(s) <= HistorySize
  BY <1>1, <1>2 DEF Retain
<1>3. CASE Len(s) > HistorySize
  <2>1. PICK a \in Int : a = Len(s) - HistorySize + 1
    BY <1>1
  <2>2. Retain(s) = SubSeq(s, a, Len(s)) /\ a >= 1 /\ Len(s) - a + 1 = HistorySize /\ Len(s) \in Int
    BY <1>1, <1>3, <2>1 DEF Retain
  <2>3. \A i \in a..Len(s) : s[i] \in S
    <3>1. \A i \in 1..Len(s) : s[i] \in S
      BY ElementOfSeq
    <3> QED
      BY <1>1, <2>2, <3>1
  <2>4. /\ SubSeq(s, a, Len(s)) \in Seq(S)
        /\ Len(SubSeq(s, a, Len(s))) = IF a <= Len(s) THEN Len(s) - a + 1 ELSE 0
        /\ \A i \in 1..(Len(s) - a + 1) : SubSeq(s, a, Len(s))[i] = s[a + i - 1]
    BY <2>2, <2>3, SubSeqProperties
  <2>5. Len(Retain(s)) <= HistorySize /\ DOMAIN Retain(s) \subseteq 1..HistorySize
    BY <1>1, <2>2, <2>4, LenProperties
  <2>6. \A i \in DOMAIN Retain(s) : a + i - 1 \in DOMAIN s /\ Retain(s)[i] = s[a + i - 1]
    BY <1>1, <2>2, <2>4, <2>5
  <2> QED
    BY <1>3, <1>1, <2>2, <2>4, <2>5, <2>6
<1> QED
  BY <1>1, <1>2, <1>3

\* A sequence is one over its own elements.
LEMMA SeqOverRange ==
    ASSUME NEW S, NEW s \in Seq(S)
    PROVE  s \in Seq(Range(s))
<1>1. Len(s) \in Nat /\ DOMAIN s = 1..Len(s)
  BY LenProperties
<1>2. \A i \in 1..Len(s) : s[i] \in Range(s)
  BY <1>1 DEF Range
<1>3. s = [i \in 1..Len(s) |-> s[i]]
  BY <1>1
<1> QED
  BY <1>1, <1>2, <1>3, IsASeq

\* An event that was right stays right when another event is written.
LEMMA EventKept ==
    ASSUME NEW e, EventOK(e), origin \in Seq(0..MaxEvents), NEW x, origin' = Append(origin, x),
           x \in 0..MaxEvents
    PROVE  EventOK(e)'
<1>1. /\ Len(origin) \in Nat /\ Len(origin') = Len(origin) + 1
      /\ \A i \in 1..Len(origin) : origin'[i] = origin[i]
  BY LenProperties, AppendProperties
<1>2. e.id \in 1..Len(origin) /\ 1..Len(origin) \subseteq 1..Len(origin')
  BY <1>1 DEF EventOK
<1>3. e \in [id: 1..Len(origin'), body: {"written", "altered"}, at: Int, prev: {e.prev}, hash: {e.hash}]
  BY <1>1, <1>2 DEF EventOK
<1> QED
  BY <1>1, <1>2, <1>3 DEF EventOK

\* add_audit writes an event that is right.
LEMMA NewEventOK ==
    ASSUME AuditOK, Len(origin) < MaxEvents,
           origin' = Append(origin, IF audit = <<>> THEN 0 ELSE Last(audit).id)
    PROVE  /\ (IF audit = <<>> THEN 0 ELSE Last(audit).id) \in 0..MaxEvents
           /\ \A e : e = NewEvent => EventOK(e)'
<1>1. PICK x : x = IF audit = <<>> THEN 0 ELSE Last(audit).id
  OBVIOUS
<1>2. PICK prev : prev = IF audit = <<>> THEN NoHash ELSE Last(audit).hash
  OBVIOUS
<1>3. /\ Len(origin) \in Nat /\ MaxEvents \in Nat /\ Len(audit) \in Nat
      /\ DOMAIN audit = 1..Len(audit) /\ (audit # <<>> => Len(audit) # 0)
  BY LenProperties, AuditAssumption, EmptySeq DEF AuditOK
<1>4. audit # <<>> => EventOK(Last(audit))
  BY <1>3 DEF AuditOK, Last, Range
<1>5. x \in 0..MaxEvents /\ x = IF prev = NoHash THEN 0 ELSE prev[1]
  <2>1. CASE audit = <<>>
    BY <1>1, <1>2, <1>3, <2>1
  <2>2. CASE audit # <<>>
    <3>1. /\ Last(audit).id \in 1..Len(origin)
          /\ Last(audit).hash = <<Last(audit).id, "written", Last(audit).prev, Last(audit).at>>
      BY <1>4, <2>2 DEF EventOK
    <3>2. Last(audit).hash # NoHash /\ Last(audit).hash[1] = Last(audit).id
      BY <3>1 DEF NoHash
    <3> QED
      BY <1>1, <1>2, <1>3, <2>2, <3>1, <3>2
  <2> QED
    BY <2>1, <2>2
<1>6. Len(origin') = Len(origin) + 1 /\ origin'[Len(origin) + 1] = x
  BY <1>1, <1>5, AppendProperties DEF AuditOK
<1>7. ASSUME NEW e, e = NewEvent PROVE EventOK(e)'
  <2>1. PICK id : id = Len(origin) + 1
    OBVIOUS
  <2>2. e = [id |-> id, body |-> "written", at |-> wallClock, prev |-> prev,
             hash |-> <<id, "written", prev, wallClock>>]
    BY <1>2, <1>7, <2>1 DEF NewEvent, Canonical
  <2>3. id \in 1..Len(origin') /\ wallClock \in Int
    BY <1>3, <1>6, <2>1 DEF AuditOK
  <2>4. e \in [id: 1..Len(origin'), body: {"written", "altered"}, at: Int, prev: {e.prev}, hash: {e.hash}]
    BY <2>2, <2>3
  <2>5. e.id = id /\ e.prev = prev /\ e.hash = <<id, "written", prev, wallClock>> /\ e.at = wallClock
    BY <2>2
  <2>6. origin'[e.id] = IF e.prev = NoHash THEN 0 ELSE e.prev[1]
    BY <1>5, <1>6, <2>1, <2>5
  <2> QED
    BY <2>4, <2>5, <2>6 DEF EventOK
<1> QED
  BY <1>1, <1>5, <1>7

\* add_audit, with and without its row.
LEMMA AddAuditStep == ASSUME AuditInv, NEW ok \in BOOLEAN, AddAudit(ok) PROVE AuditInv'
<1>1. AuditOK
  BY DEF AuditInv
<1>2. PICK ne : ne = NewEvent
  OBVIOUS
<1>3. PICK x : x = IF audit = <<>> THEN 0 ELSE Last(audit).id
  OBVIOUS
<1>4. /\ Len(origin) < MaxEvents /\ mishaps' = (IF ok THEN mishaps ELSE mishaps + 1)
      /\ ok \/ mishaps < MaxMishaps
      /\ audit' = Retain(Append(audit, ne)) /\ rows' = (IF ok THEN rows \cup {ne} ELSE rows)
      /\ origin' = Append(origin, x) /\ wallClock' = wallClock + 1
  BY <1>2, <1>3 DEF AddAudit
<1>5. x \in 0..MaxEvents /\ EventOK(ne)'
  BY <1>1, <1>2, <1>3, <1>4, NewEventOK
<1>6. \A e \in rows \cup Range(audit) : EventOK(e)'
  BY <1>1, <1>4, <1>5, EventKept DEF AuditOK
<1>7. PICK s : s = Append(audit, ne)
  OBVIOUS
<1>8. /\ s \in Seq(Range(audit) \cup {ne}) /\ Len(s) = Len(audit) + 1
      /\ DOMAIN audit = 1..Len(audit) /\ DOMAIN s = 1..(Len(audit) + 1) /\ Len(audit) \in Nat
      /\ \A i \in 1..Len(audit) : s[i] = audit[i]
      /\ s[Len(audit) + 1] = ne
  <2>1. audit \in Seq(Range(audit) \cup {ne}) /\ ne \in Range(audit) \cup {ne}
    BY <1>1, SeqMonotonic, Zenon DEF AuditOK
  <2>2. Len(audit) \in Nat /\ DOMAIN audit = 1..Len(audit)
    BY <2>1, LenProperties
  <2> QED
    BY <1>7, <2>1, <2>2, AppendProperties, LenProperties
<1>9. Len(origin) \in Nat /\ Len(origin') = Len(origin) + 1 /\ origin' \in Seq(0..MaxEvents)
  BY <1>1, <1>4, <1>5, AppendProperties, LenProperties DEF AuditOK
<1>10. /\ audit' \in Seq(Range(audit) \cup {ne}) /\ Len(audit') <= HistorySize
       /\ Range(audit') \subseteq Range(audit) \cup {ne}
       /\ Len(s) <= HistorySize => audit' = s
  <2>1. /\ audit' \in Seq(Range(audit) \cup {ne}) /\ Len(audit') <= HistorySize
        /\ Len(s) <= HistorySize => audit' = s
    BY <1>4, <1>7, <1>8, RetainFacts
  <2>2. \A i \in DOMAIN audit' : audit'[i] \in Range(audit) \cup {ne}
    BY <2>1
  <2> QED
    BY <2>1, <2>2 DEF Range
<1>11. AuditOK'
  <2>1. audit' \in Seq(Range(audit'))
    BY <1>10, SeqOverRange
  <2>2. IsFiniteSet(rows') /\ rows' \subseteq rows \cup {ne}
    BY <1>1, <1>4, FS_AddElement DEF AuditOK
  <2>3. \A e \in rows' \cup Range(audit') : EventOK(e)'
    BY <1>5, <1>6, <1>10, <2>2
  <2>4. wallClock' \in Nat /\ mishaps' \in 0..MaxMishaps /\ Len(origin') <= MaxEvents
    BY <1>1, <1>4, <1>9, AuditAssumption DEF AuditOK
  <2> QED
    BY <1>9, <1>10, <2>1, <2>2, <2>3, <2>4 DEF AuditOK
<1>12. ASSUME mishaps' = 0, Len(origin') <= HistorySize PROVE WholeHistory'
  <2>1. ok /\ mishaps = 0 /\ Len(origin) <= HistorySize /\ HistorySize \in Nat
    BY <1>1, <1>4, <1>9, <1>12, AuditAssumption DEF AuditOK
  <2>2. WholeHistory
    BY <2>1 DEF AuditInv
  <2>3. PICK n \in Nat : n = Len(audit) /\ n = Len(origin)
    BY <1>8, <2>2 DEF WholeHistory
  <2>4. audit' = s /\ Len(audit') = n + 1 /\ DOMAIN audit' = 1..(n + 1)
    BY <1>8, <1>9, <1>10, <1>12, <2>3
  <2>5. \A i \in 1..n : audit'[i] = audit[i]
    BY <1>8, <2>3, <2>4
  <2>6. audit'[n + 1] = ne
    BY <1>8, <2>3, <2>4
  <2>7. /\ ne.at = n + 1 /\ ne.hash = Canonical(ne)
        /\ ne.prev = IF n = 0 THEN NoHash ELSE audit[n].hash
    <3>1. PICK prev : prev = IF audit = <<>> THEN NoHash ELSE Last(audit).hash
      OBVIOUS
    <3>2. PICK id : id = Len(origin) + 1
      OBVIOUS
    <3>3. ne = [id |-> id, body |-> "written", at |-> wallClock, prev |-> prev,
                hash |-> <<id, "written", prev, wallClock>>]
      BY <1>2, <3>1, <3>2 DEF NewEvent, Canonical
    <3>4. ne.at = wallClock /\ ne.prev = prev /\ ne.hash = Canonical(ne)
      BY <3>3 DEF Canonical
    <3>5. (audit = <<>>) <=> n = 0
      BY <1>1, <2>3, EmptySeq DEF AuditOK
    <3> QED
      BY <2>2, <2>3, <3>1, <3>4, <3>5 DEF WholeHistory, Last
  <2>8. \A i \in DOMAIN audit' : audit'[i].at = i
    BY <1>8, <2>2, <2>3, <2>4, <2>5, <2>6, <2>7 DEF WholeHistory
  <2>9. rows' = Range(audit')
    <3>1. Range(audit') = Range(audit) \cup {ne}
      BY <1>8, <2>3, <2>4, <2>5, <2>6 DEF Range
    <3> QED
      BY <1>4, <2>1, <2>2, <3>1 DEF WholeHistory
  <2>10. VerifyAuditChain'
    <3> SUFFICES ASSUME NEW i \in 1..(n + 1)
                 PROVE  /\ audit'[i].prev = IF i = 1 THEN NoHash ELSE audit'[i - 1].hash
                        /\ audit'[i].hash = Canonical(audit'[i])
      BY <2>4 DEF VerifyAuditChain, Canonical
    <3>1. CASE i = n + 1
      <4>1. i - 1 = n /\ (n # 0 => audit'[n] = audit[n]) /\ (i = 1 <=> n = 0)
        BY <2>5, <3>1
      <4> QED
        BY <2>6, <2>7, <3>1, <4>1
    <3>2. CASE i # n + 1
      <4>1. i \in 1..n /\ audit'[i] = audit[i] /\ (i # 1 => audit'[i - 1] = audit[i - 1])
        BY <2>5, <3>2
      <4>2. i \in DOMAIN audit
        BY <1>8, <2>3, <4>1
      <4> QED
        BY <2>2, <4>1, <4>2 DEF WholeHistory, VerifyAuditChain
    <3> QED
      BY <3>1, <3>2
  <2> QED
    BY <1>4, <1>9, <2>2, <2>3, <2>4, <2>8, <2>9, <2>10 DEF WholeHistory
<1> QED
  BY <1>11, <1>12 DEF AuditInv

\* _load: rows whose time stamps are the numbers from 1 on, read in the order of
\* their time stamps, are read in the order they were written.
LEMMA LoadedInOrder ==
    ASSUME AuditOK, WholeHistory, NEW s \in LoadAudit
    PROVE  s = audit
<1>1. PICK n \in Nat : n = Len(audit)
  BY LenProperties DEF AuditOK
<1>2. /\ audit = [i \in 1..n |-> audit[i]] /\ DOMAIN audit = 1..n
      /\ \A i \in 1..n : audit[i].at = i
      /\ \A e \in rows : \E i \in 1..n : e = audit[i]
      /\ \A i \in 1..n : audit[i] \in rows
  BY <1>1, LenProperties DEF AuditOK, WholeHistory, Range
<1>3. IsFiniteSet(1..n) /\ Cardinality(1..n) = n
  BY FS_Interval
<1>4. Cardinality(rows) = n
  <2>1. audit \in Injection(1..n, rows)
    BY <1>2 DEF Injection, IsInjective
  <2>2. audit \in Surjection(1..n, rows)
    BY <1>2 DEF Surjection
  <2>3. ExistsBijection(1..n, rows)
    BY <2>1, <2>2 DEF ExistsBijection, Bijection
  <2> QED
    BY <1>3, <2>3, FS_Bijection
<1>5. /\ s \in [1..n -> rows]
      /\ \A i, j \in 1..n : i # j => s[i] # s[j]
      /\ \A i, j \in 1..n : i < j => s[i].at <= s[j].at
  BY <1>4 DEF LoadAudit, SetToSeqs
<1>6. s \in Surjection(1..n, rows)
  <2>1. s \in Injection(1..n, rows)
    BY <1>5 DEF Injection, IsInjective
  <2> QED
    BY <1>3, <1>4, <2>1, FS_Injection DEF AuditOK
<1>7. \A e \in rows : e.at \in 1..n /\ e = audit[e.at]
  BY <1>2
<1>8. \A i \in 1..n : s[i] = audit[i]
  <2> DEFINE Wrong == {i \in 1..n : s[i].at # i}
  <2>1. Wrong = {}
    <3> SUFFICES ASSUME Wrong # {} PROVE FALSE
      OBVIOUS
    <3>1. Wrong \subseteq Nat
      OBVIOUS
    <3>2. PICK a \in Wrong : \A b \in Wrong : a <= b
      <4> HIDE DEF Wrong
      <4> QED
        BY <3>1, LeastNat
    <3>3. a \in 1..n /\ s[a].at # a /\ \A i \in 1..n : i < a => s[i].at = i
      BY <3>2
    <3>4. s[a] \in rows /\ s[a].at \in 1..n
      BY <1>5, <1>7, <3>3
    <3>5. s[a].at > a
      <4> SUFFICES ASSUME s[a].at < a PROVE FALSE
        BY <3>3, <3>4
      <4>1. s[a].at \in 1..n /\ s[s[a].at].at = s[a].at /\ s[a].at # a
        BY <3>3, <3>4
      <4>2. s[s[a].at] = s[a]
        BY <1>5, <1>7, <3>4, <4>1
      <4> QED
        BY <1>5, <3>3, <4>1, <4>2
    <3>6. PICK k \in 1..n : s[k] = audit[a]
      BY <1>2, <1>6, <3>3 DEF Surjection
    <3>7. s[k].at = a
      BY <1>2, <3>3, <3>6
    <3>8. k > a
      BY <3>3, <3>7
    <3> QED
      BY <1>5, <3>3, <3>4, <3>5, <3>7, <3>8
  <2>2. \A i \in 1..n : s[i].at = i
    BY <2>1
  <2> QED
    BY <1>5, <1>7, <2>2
<1> QED
  BY <1>2, <1>5, <1>8

\* A new process loads the table.
LEMMA AuditRestartStep == ASSUME AuditInv, AuditRestart PROVE AuditInv'
<1>1. AuditOK /\ rows' = rows /\ origin' = origin /\ wallClock' = wallClock /\ mishaps' = mishaps
  BY DEF AuditInv, AuditRestart
<1>2. PICK s \in LoadAudit : audit' = Retain(s)
  BY DEF AuditRestart
<1>3. s \in Seq(rows)
  <2>1. s \in [1..Cardinality(rows) -> rows] /\ Cardinality(rows) \in Nat
    BY <1>1, FS_CardinalityType DEF LoadAudit, SetToSeqs, AuditOK
  <2> QED
    BY <2>1, IsASeq
<1>4. /\ audit' \in Seq(rows) /\ Len(audit') <= HistorySize
      /\ Len(s) <= HistorySize => audit' = s
  BY <1>2, <1>3, RetainFacts
<1>5. AuditOK'
  <2>1. Range(audit') \subseteq rows /\ audit' \in Seq(Range(audit'))
    <3>1. \A i \in DOMAIN audit' : audit'[i] \in rows
      BY <1>4
    <3> QED
      BY <1>4, <3>1, SeqOverRange DEF Range
  <2>2. \A e \in rows' \cup Range(audit') : EventOK(e)'
    BY <1>1, <2>1 DEF AuditOK, EventOK
  <2> QED
    BY <1>1, <1>4, <2>1, <2>2 DEF AuditOK
<1>6. ASSUME mishaps' = 0, Len(origin') <= HistorySize PROVE WholeHistory'
  <2>1. WholeHistory
    BY <1>1, <1>6 DEF AuditInv
  <2>2. s = audit
    BY <1>1, <2>1, LoadedInOrder
  <2>3. audit' = audit
    BY <1>4, <2>2, <1>1 DEF AuditOK
  <2> QED
    BY <1>1, <2>1, <2>3 DEF WholeHistory, VerifyAuditChain
<1> QED
  BY <1>5, <1>6 DEF AuditInv

\* Rows lost or altered, and the clock set back, are mishaps.
LEMMA MishapStep ==
    ASSUME AuditInv, ClockStepsBack \/ \E e \in rows : RowLost(e) \/ RowAltered(e)
    PROVE  AuditInv'
<1>1. AuditOK /\ origin' = origin /\ audit' = audit /\ mishaps' = mishaps + 1 /\ mishaps < MaxMishaps
  BY DEF AuditInv, ClockStepsBack, RowLost, RowAltered, Mishap
<1>2. mishaps' # 0 /\ mishaps' \in 0..MaxMishaps
  BY <1>1, AuditAssumption DEF AuditOK
<1>3. \A e : EventOK(e) => EventOK(e)'
  BY <1>1 DEF EventOK
<1>4. wallClock' \in Nat /\ IsFiniteSet(rows') /\ \A d \in rows' : EventOK(d)
  <2>1. CASE ClockStepsBack
    BY <1>1, <2>1 DEF ClockStepsBack, AuditOK
  <2>2. ASSUME NEW e \in rows, RowLost(e)
      PROVE  wallClock' \in Nat /\ IsFiniteSet(rows') /\ \A d \in rows' : EventOK(d)
    BY <1>1, <2>2, FS_RemoveElement DEF RowLost, AuditOK
  <2>3. ASSUME NEW e \in rows, RowAltered(e)
      PROVE  wallClock' \in Nat /\ IsFiniteSet(rows') /\ \A d \in rows' : EventOK(d)
    <3>1. PICK f : f = [e EXCEPT !.body = "altered"]
      OBVIOUS
    <3>2. rows' = (rows \ {e}) \cup {f} /\ wallClock' = wallClock
      BY <2>3, <3>1 DEF RowAltered
    <3>3. EventOK(e)
      BY <1>1 DEF AuditOK
    <3>4. EventOK(f)
      BY <3>1, <3>3 DEF EventOK
    <3>5. IsFiniteSet(rows')
      BY <1>1, <3>2, FS_RemoveElement, FS_AddElement DEF AuditOK
    <3> QED
      BY <1>1, <3>2, <3>4, <3>5 DEF AuditOK
  <2> QED
    BY <2>1, <2>2, <2>3
<1>5. AuditOK'
  BY <1>1, <1>2, <1>3, <1>4 DEF AuditOK
<1> QED
  BY <1>2, <1>5 DEF AuditInv

\* The invariant of the audit log, for every deque length and any mishaps.
LEMMA AuditInvariant == AuditSpec => []AuditInv
<1>1. AuditInit => AuditInv
  <2> SUFFICES ASSUME AuditInit PROVE AuditInv
    OBVIOUS
  <2>1. Range(audit) = {} /\ Len(audit) = 0 /\ Len(origin) = 0 /\ audit = <<>>
    BY EmptySeq DEF AuditInit, Range
  <2>2. AuditOK
    BY <2>1, AuditAssumption, EmptySeq, FS_EmptySet DEF AuditInit, AuditOK
  <2>3. WholeHistory
    BY <2>1 DEF AuditInit, WholeHistory, VerifyAuditChain
  <2> QED
    BY <2>2, <2>3 DEF AuditInv
<1>2. AuditInv /\ [AuditNext]_auditVars => AuditInv'
  <2> SUFFICES ASSUME AuditInv, [AuditNext]_auditVars PROVE AuditInv'
    OBVIOUS
  <2>1. CASE UNCHANGED auditVars
    BY <2>1 DEF auditVars, AuditInv, AuditOK, EventOK, WholeHistory, VerifyAuditChain
  <2>2. CASE AuditNext
    BY <2>2, AddAuditStep, AuditRestartStep, MishapStep DEF AuditNext
  <2> QED
    BY <2>1, <2>2
<1> QED
  BY <1>1, <1>2, PTL DEF AuditSpec

\* verify_audit_chain accepts only what add_audit wrote: no altered record, and
\* no record behind another than the one it was written behind.
THEOREM VerifiedChainIsAuthentic == AuditSpec => []VerifiedIsAsWritten
<1>1. AuditInv => VerifiedIsAsWritten
  BY VerifiedChain DEF AuditInv
<1> QED
  BY <1>1, AuditInvariant, PTL

\* verify_audit_chain raises no false alarm while the deque holds the whole
\* history, whatever restarts came in between.
THEOREM NoFalseAlarm == AuditSpec => []ShortChainVerifies
<1>1. AuditInv => ShortChainVerifies
  BY DEF AuditInv, WholeHistory, ShortChainVerifies
<1> QED
  BY <1>1, AuditInvariant, PTL

-----------------------------------------------------------------------------
(* The Settrade feed.                                                      *)

\* A number is accepted first when there is no previous one.
FirstOK ==
    /\ sequence.accepted = 0 => sequence.gaps = 0 /\ sequence.last = 0
    /\ sequence.accepted > 0 => sequence.last > 0

SettradeInv == SettradeTypeOK /\ GapsAccounted /\ FirstOK

\* _disconnect forgets the subscriptions it kept, or leaks them, and leaves the
\* callbacks running.
LEMMA DisconnectFacts ==
    ASSUME SettradeTypeOK, Disconnect
    PROVE  /\ subscribed' \subseteq Kinds /\ connected' \in BOOLEAN /\ heard' = heard
           /\ reading' \in [Threads -> Callback]
BY DEF SettradeTypeOK, Disconnect, Kinds, CallbacksOrphaned, Callback

\* The end of a callback.
LEMMA CallbackEndFacts ==
    ASSUME SettradeTypeOK, NEW t \in Threads, CallbackEnds(t)
    PROVE  reading' \in [Threads -> Callback]
<1>1. NoCallback \in Callback
  BY SettradeAssumption DEF NoCallback, Callback
<1> QED
  BY <1>1 DEF SettradeTypeOK, CallbackEnds

\* _accept_sequence: an old number is counted and dropped.
LEMMA DroppedStep ==
    ASSUME SettradeInv, NEW t \in Threads, PriceDropped(t)
    PROVE  SettradeInv'
<1>1. sequence \in SequenceState /\ sequence' = [sequence EXCEPT !.outOfOrder = @ + 1]
  BY DEF SettradeInv, SettradeTypeOK, PriceDropped
<1>2. /\ sequence' \in SequenceState
      /\ sequence'.last = sequence.last /\ sequence'.first = sequence.first
      /\ sequence'.accepted = sequence.accepted /\ sequence'.gaps = sequence.gaps
  BY <1>1 DEF SequenceState
<1>3. reading' \in [Threads -> Callback]
  BY CallbackEndFacts DEF SettradeInv, PriceDropped
<1>4. UNCHANGED <<supervisor, cancelled, feedTask, stopSet, stopper, subscribed, connected,
                  heard, spoken, overtaken>>
  BY DEF PriceDropped
<1>5. SettradeTypeOK'
  BY <1>2, <1>3, <1>4 DEF SettradeInv, SettradeTypeOK
<1>6. GapsAccounted' /\ FirstOK'
  BY <1>2, <1>4 DEF SettradeInv, GapsAccounted, FirstOK
<1> QED
  BY <1>5, <1>6 DEF SettradeInv

\* _accept_sequence: a new number is accepted with the gap before it, counted
\* from the previous number the callback read.
LEMMA AcceptedStep ==
    ASSUME SettradeInv, NEW t \in Threads, PriceAccepted(t)
    PROVE  SettradeInv'
<1> USE SettradeAssumption
<1>1. PICK r : r = reading[t]
  OBVIOUS
<1>2. /\ r \in Callback /\ r.number > r.previous
      /\ sequence' = [sequence EXCEPT !.last = r.number, !.accepted = @ + 1,
                                      !.first = IF sequence.accepted = 0 THEN r.number ELSE @,
                                      !.gaps = IF r.previous = 0 \/ Missed(r) < 1 THEN @
                                               ELSE @ + Missed(r)]
      /\ overtaken' = (overtaken \/ r.previous # sequence.last)
      /\ (Heard \/ UNCHANGED <<heard, spoken>>)
      /\ CallbackEnds(t)
      /\ UNCHANGED <<supervisor, cancelled, feedTask, stopSet, stopper, subscribed, connected>>
  BY <1>1 DEF SettradeInv, SettradeTypeOK, PriceAccepted
<1>3. /\ r.number \in 0..MaxSequence /\ r.previous \in 0..MaxSequence /\ r.number > r.previous
  BY <1>2 DEF Callback
<1>4. /\ sequence \in SequenceState /\ sequence.accepted \in Nat /\ sequence.gaps \in Int
      /\ sequence.first \in 0..MaxSequence /\ sequence.last \in 0..MaxSequence
  BY DEF SettradeInv, SettradeTypeOK, SequenceState
<1>5. PICK missed : missed = Missed(r)
  OBVIOUS
<1>6. missed = r.number - r.previous - 1
  BY <1>5 DEF Missed
<1>7. PICK first : first = IF sequence.accepted = 0 THEN r.number ELSE sequence.first
  OBVIOUS
<1>8. PICK gaps : gaps = IF r.previous = 0 \/ missed < 1 THEN sequence.gaps ELSE sequence.gaps + missed
  OBVIOUS
<1>9. PICK accepted : accepted = sequence.accepted + 1
  OBVIOUS
<1>10. PICK number : number = r.number
  OBVIOUS
<1>11. sequence' = [sequence EXCEPT !.last = number, !.accepted = accepted, !.first = first, !.gaps = gaps]
  BY <1>2, <1>4, <1>5, <1>7, <1>8, <1>9, <1>10
<1>12. first \in 0..MaxSequence /\ gaps \in Int /\ accepted \in Nat /\ number \in 0..MaxSequence
  BY <1>3, <1>4, <1>6, <1>7, <1>8, <1>9, <1>10
<1>13. /\ sequence' \in SequenceState /\ sequence'.last = number /\ sequence'.accepted = accepted
       /\ sequence'.first = first /\ sequence'.gaps = gaps
  BY <1>4, <1>11, <1>12 DEF SequenceState
<1>14. FirstOK'
  BY <1>3, <1>4, <1>9, <1>10, <1>13 DEF FirstOK
<1>15. GapsAccounted'
  <2> SUFFICES ASSUME ~overtaken, r.previous = sequence.last
               PROVE  number - first + 1 = accepted + gaps
    BY <1>2, <1>13 DEF GapsAccounted
  <2>1. CASE sequence.accepted = 0
    BY <1>3, <1>4, <1>7, <1>8, <1>9, <1>10, <2>1 DEF SettradeInv, FirstOK
  <2>2. CASE sequence.accepted > 0
    <3>1. sequence.last > 0 /\ sequence.last - sequence.first + 1 = sequence.accepted + sequence.gaps
      BY <2>2 DEF SettradeInv, FirstOK, GapsAccounted
    <3>2. first = sequence.first /\ accepted = sequence.accepted + 1
      BY <1>7, <1>9, <2>2
    <3>3. missed \in Int /\ missed >= 0 /\ missed = number - sequence.last - 1 /\ number \in Int
      BY <1>3, <1>4, <1>6, <1>10
    <3>4. gaps = sequence.gaps + missed
      BY <1>4, <1>8, <3>1, <3>3
    <3>5. /\ sequence.first \in Int /\ sequence.last \in Int /\ sequence.accepted \in Int
          /\ sequence.gaps \in Int
      BY <1>4
    <3>6. number - sequence.first + 1 = sequence.accepted + 1 + (sequence.gaps + missed)
      BY <3>1, <3>3, <3>5
    <3> QED
      BY <3>2, <3>4, <3>6
  <2> QED
    BY <1>4, <2>1, <2>2
<1>16. SettradeTypeOK'
  <2>1. heard' \in -1..StallAfter + 1 /\ spoken' \in BOOLEAN
    <3>1. heard \in -1..StallAfter + 1 /\ spoken \in BOOLEAN /\ 0 \in -1..StallAfter + 1
      BY DEF SettradeInv, SettradeTypeOK
    <3>2. (heard' = heard /\ spoken' = spoken) \/ (heard' = 0 /\ spoken' = TRUE)
      BY <1>2 DEF Heard
    <3> QED
      BY <3>1, <3>2, Zenon
  <2>2. reading' \in [Threads -> Callback] /\ overtaken' \in BOOLEAN
    BY <1>2, CallbackEndFacts DEF SettradeInv, SettradeTypeOK
  <2> QED
    BY <1>2, <1>13, <2>1, <2>2 DEF SettradeInv, SettradeTypeOK
<1> QED
  BY <1>14, <1>15, <1>16 DEF SettradeInv

\* Every other step leaves the sequence state alone.
LEMMA SettradeStep == ASSUME SettradeInv, [SettradeNext]_settradeVars PROVE SettradeInv'
<1> USE SettradeAssumption
<1>1. SUFFICES ASSUME sequence' = sequence, overtaken' = overtaken PROVE SettradeTypeOK'
  <2>1. CASE sequence' = sequence /\ overtaken' = overtaken
    BY <1>1, <2>1 DEF SettradeInv, GapsAccounted, FirstOK
  <2>2. CASE ~(sequence' = sequence /\ overtaken' = overtaken)
    BY <2>2, DroppedStep, AcceptedStep DEF SettradeNext, settradeVars, priceVars, FeedStart, Cancelled,
       Connect, Poll, BackoffEnds, ConnectFails, StopBegins, StopReturns, StopRaises, PriceArrives,
       OtherArrives, FeedTick
  <2> QED
    BY <2>1, <2>2
<1>2. SettradeTypeOK
  BY DEF SettradeInv
<1>a. CallbacksOrphaned => reading' \in [Threads -> Callback]
  BY <1>2 DEF SettradeTypeOK, CallbacksOrphaned, Callback
<1>3. CASE UNCHANGED settradeVars
  BY <1>2, <1>3 DEF settradeVars, SettradeTypeOK
<1>4. ASSUME NEW i \in Supervisors, FeedStart(i) PROVE SettradeTypeOK'
  BY <1>2, <1>4 DEF SettradeTypeOK, FeedStart, priceVars
<1>5. ASSUME NEW i \in Supervisors, Cancelled(i) PROVE SettradeTypeOK'
  BY <1>2, <1>5 DEF SettradeTypeOK, Cancelled, Becomes, priceVars
<1>6. ASSUME NEW i \in Supervisors, Connect(i) PROVE SettradeTypeOK'
  BY <1>2, <1>6, <1>a, DisconnectFacts DEF SettradeTypeOK, Connect, Becomes, Kinds
<1>7. ASSUME NEW i \in Supervisors, Poll(i) PROVE SettradeTypeOK'
  BY <1>2, <1>7, DisconnectFacts DEF SettradeTypeOK, Poll, Becomes
<1>8. ASSUME NEW i \in Supervisors, BackoffEnds(i) PROVE SettradeTypeOK'
  BY <1>2, <1>8 DEF SettradeTypeOK, BackoffEnds, Becomes, priceVars
<1>9. ASSUME NEW i \in Supervisors, NEW caught \in BOOLEAN, ConnectFails(i, caught)
      PROVE  SettradeTypeOK'
  BY <1>2, <1>9, <1>a DEF SettradeTypeOK, ConnectFails, Becomes, Kinds
<1>10. CASE StopBegins
  BY <1>2, <1>10, DisconnectFacts DEF SettradeTypeOK, StopBegins
<1>11. CASE StopReturns
  BY <1>2, <1>11, DisconnectFacts DEF SettradeTypeOK, StopReturns
<1>15. CASE StopRaises
  BY <1>2, <1>15 DEF SettradeTypeOK, StopRaises, priceVars
<1>12. ASSUME NEW t \in Threads, NEW n \in 1..MaxSequence, PriceArrives(t, n) PROVE SettradeTypeOK'
  <2>1. PICK from \in subscribed :
          reading' = [reading EXCEPT ![t] = [number |-> n, previous |-> sequence.last, from |-> from]]
    BY <1>12 DEF PriceArrives
  <2>2. [number |-> n, previous |-> sequence.last, from |-> from] \in Callback
    BY <1>2, <2>1 DEF SettradeTypeOK, SequenceState, Callback
  <2>3. reading' \in [Threads -> Callback]
    BY <1>2, <2>1, <2>2 DEF SettradeTypeOK
  <2> QED
    BY <1>2, <1>12, <2>3 DEF SettradeTypeOK, PriceArrives
<1>16. ASSUME NEW t \in Threads, PriceDropped(t) \/ PriceAccepted(t) PROVE SettradeTypeOK'
  BY <1>16, DroppedStep, AcceptedStep DEF SettradeInv
<1>13. CASE OtherArrives
  BY <1>2, <1>13 DEF SettradeTypeOK, OtherArrives, Heard, priceVars
<1>14. CASE FeedTick
  BY <1>2, <1>14 DEF SettradeTypeOK, FeedTick, priceVars
<1> QED
  BY <1>3, <1>4, <1>5, <1>6, <1>7, <1>8, <1>9, <1>10, <1>11, <1>12, <1>13, <1>14, <1>15, <1>16
     DEF SettradeNext

\* The feed starts with nothing accepted and no supervisor running.
LEMMA SettradeStart == SettradeInit => SettradeInv
<1> SUFFICES ASSUME SettradeInit PROVE SettradeInv
  OBVIOUS
<1>1. /\ sequence \in SequenceState
      /\ sequence.accepted = 0 /\ sequence.gaps = 0 /\ sequence.last = 0
  BY SettradeAssumption DEF SettradeInit, SequenceState
<1>2. SettradeTypeOK
  <2>1. supervisor \in [Supervisors -> {"unused", "looping", "polling", "backoff", "done", "failed"}]
    BY DEF SettradeInit
  <2>2. stopSet \in BOOLEAN /\ connected \in BOOLEAN /\ spoken \in BOOLEAN /\ overtaken \in BOOLEAN
    BY DEF SettradeInit
  <2>3. /\ cancelled = {} /\ feedTask = "none" /\ stopper = "none" /\ subscribed = {}
        /\ heard \in -1..StallAfter + 1
    BY SettradeAssumption DEF SettradeInit
  <2>4. reading \in [Threads -> Callback]
    <3>1. NoCallback \in Callback
      BY SettradeAssumption DEF NoCallback, Callback
    <3> QED
      BY <3>1 DEF SettradeInit
  <2> QED
    BY <1>1, <2>1, <2>2, <2>3, <2>4 DEF SettradeTypeOK
<1> QED
  BY <1>1, <1>2 DEF SettradeInv, GapsAccounted, FirstOK

\* _accept_sequence accounts for every sequence number, across any reconnects,
\* replays, cancelled supervisors, leaked subscriptions and threads, until one
\* thread accepts a number against a previous one another has replaced.
THEOREM GapsAreAccounted == SettradeSpec => []GapsAccounted
<1>1. SettradeInv => GapsAccounted
  BY DEF SettradeInv
<1> QED
  BY <1>1, SettradeStart, SettradeStep, PTL DEF SettradeSpec

-----------------------------------------------------------------------------
(* The suite.                                                              *)

\* In the suite every service behaves as it does alone: its own steps, and
\* stuttering while another service moves.
THEOREM ServicesStandAlone ==
    ServicesSpec => /\ Spec /\ AuthSpec /\ RateSpec /\ AuditSpec /\ RegistrySpec
                    /\ SettradeInit /\ [][SettradeNext]_settradeVars
<1>1. ServicesInit => Init /\ AuthInit /\ RateInit /\ AuditInit /\ RegistryInit /\ SettradeInit
  BY DEF ServicesInit
<1>2. [ServicesNext]_serviceVars =>
        /\ [Next]_vars /\ [AuthNext]_authVars /\ [RateNext]_rateVars
        /\ [AuditNext]_auditVars /\ [RegistryNext]_registryVars /\ [SettradeNext]_settradeVars
  BY DEF ServicesNext, serviceVars, OutboxMoves, SettradeMoves, AuthMoves, RateMoves, AuditMoves,
         RegistryMoves
<1> QED
  BY <1>1, <1>2, PTL DEF ServicesSpec, Spec, AuthSpec, RateSpec, AuditSpec, RegistrySpec

\* A record of the audit deque or table is one that add_audit wrote.
LEMMA AuditTyped == AuditOK => AuditTypeOK
<1> SUFFICES ASSUME AuditOK PROVE AuditTypeOK
  OBVIOUS
<1>1. \A e \in Range(audit) \cup rows : e.id \in 1..Len(origin)
  BY DEF AuditOK, EventOK
<1> QED
  BY <1>1 DEF AuditOK, AuditTypeOK

\* Whatever the services do, together with one another, every one of them keeps
\* the types of its state (the tables, deques, sessions and counters they keep).
THEOREM ServicesTypeCorrect == ServicesSpec => []ServicesTypeOK
<1>1. AuthInv /\ RateInv /\ AuditInv /\ RegistryInv /\ SettradeInv /\ TypeOK => ServicesTypeOK
  BY AuditTyped DEF AuthInv, RateInv, AuditInv, RegistryInv, SettradeInv, ServicesTypeOK
<1>2. SettradeInit /\ [][SettradeNext]_settradeVars => []SettradeInv
  BY SettradeStart, SettradeStep, PTL
<1> QED
  BY <1>1, <1>2, ServicesStandAlone, TypeCorrect, AuthInvariant, RateInvariant, AuditInvariant,
     RegistryInvariant, PTL
=============================================================================
