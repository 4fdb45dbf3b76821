----------------------------- MODULE AuditChain -----------------------------
(***************************************************************************)
(* The hash-linked audit log of zksato: StateStore.add_audit and           *)
(* verify_audit_chain (store.py), the audit table and its loading          *)
(* (persistence.py).                                                       *)
(*                                                                         *)
(* SHA-256 over the canonical JSON of an event is an injection: the hash   *)
(* of an event is the tuple of what is hashed.  Bodies (type, message,     *)
(* data) are two values: what the program wrote, and something else.       *)
(***************************************************************************)
EXTENDS Integers, SequencesExt

CONSTANTS
    HistorySize,  \* StateStore(history_size): the length of the deque
    MaxEvents,    \* bound on the events written
    MaxMishaps    \* bound on failed inserts, lost or altered rows, clock steps

ASSUME AuditAssumption ==
    HistorySize \in Nat \ {0} /\ MaxEvents \in Nat /\ MaxMishaps \in Nat

VARIABLES
    audit,     \* StateStore.audit
    rows,      \* the audit table
    origin,    \* for each event written, the id of the event before it then
    wallClock, \* the time the next event is stamped with
    mishaps

auditVars == <<audit, rows, origin, wallClock, mishaps>>

-----------------------------------------------------------------------------
NoHash == <<>>

Canonical(e) == <<e.id, e.body, e.prev, e.at>>

AuditInit ==
    /\ audit = <<>>
    /\ rows = {}
    /\ origin = <<>>
    /\ wallClock = 1
    /\ mishaps = 0

\* Mutant: the deque has no maximum length.
RetainAll(s) == s

\* deque(maxlen=history_size).append
Retain(s) == IF Len(s) > HistorySize THEN SubSeq(s, Len(s) - HistorySize + 1, Len(s)) ELSE s

NewEvent ==
    LET id == Len(origin) + 1
        prev == IF audit = <<>> THEN NoHash ELSE Last(audit).hash
    IN  [id |-> id, body |-> "written", at |-> wallClock, prev |-> prev,
         hash |-> Canonical([id |-> id, body |-> "written", prev |-> prev, at |-> wallClock])]

\* add_audit: append to the deque, then INSERT, which may fail.
AddAudit(ok) ==
    /\ Len(origin) < MaxEvents
    /\ ok \/ mishaps < MaxMishaps
    /\ mishaps' = IF ok THEN mishaps ELSE mishaps + 1
    /\ audit' = Retain(Append(audit, NewEvent))
    /\ rows' = IF ok THEN rows \cup {NewEvent} ELSE rows
    /\ origin' = Append(origin, IF audit = <<>> THEN 0 ELSE Last(audit).id)
    /\ wallClock' = wallClock + 1

\* Mutant: the newest rows are appended newest first.
LoadAuditReversed ==
    {s \in SetToSeqs(rows) : \A i, j \in DOMAIN s : i < j => s[i].at >= s[j].at}

\* _load: the newest rows by created_at, oldest first.
LoadAudit ==
    {s \in SetToSeqs(rows) : \A i, j \in DOMAIN s : i < j => s[i].at <= s[j].at}

AuditRestart ==
    /\ \E s \in LoadAudit : audit' = Retain(s)
    /\ UNCHANGED <<rows, origin, wallClock, mishaps>>

-----------------------------------------------------------------------------
(* What may befall the table and the clock behind the program's back.      *)

Mishap == mishaps < MaxMishaps /\ mishaps' = mishaps + 1

RowLost(e) ==
    /\ Mishap
    /\ rows' = rows \ {e}
    /\ UNCHANGED <<audit, origin, wallClock>>

RowAltered(e) ==
    /\ Mishap
    /\ rows' = (rows \ {e}) \cup {[e EXCEPT !.body = "altered"]}
    /\ UNCHANGED <<audit, origin, wallClock>>

\* The wall clock, which orders the rows, is set back.
ClockStepsBack ==
    /\ Mishap
    /\ wallClock > 1
    /\ wallClock' = wallClock - 1
    /\ UNCHANGED <<audit, rows, origin>>

AuditNext ==
    \/ \E ok \in BOOLEAN : AddAudit(ok)
    \/ AuditRestart
    \/ \E e \in rows : RowLost(e) \/ RowAltered(e)
    \/ ClockStepsBack

AuditSpec == AuditInit /\ [][AuditNext]_auditVars

-----------------------------------------------------------------------------
\* Mutant: each event is checked on its own, not against the one before it.
VerifyEachEvent == \A i \in DOMAIN audit : audit[i].hash = Canonical(audit[i])

\* verify_audit_chain
VerifyAuditChain ==
    \A i \in DOMAIN audit :
        /\ audit[i].prev = IF i = 1 THEN NoHash ELSE audit[i - 1].hash
        /\ audit[i].hash = Canonical(audit[i])

-----------------------------------------------------------------------------
(* Properties.                                                             *)

AuditTypeOK ==
    /\ Len(audit) <= HistorySize
    /\ {e.id : e \in Range(audit) \cup rows} \subseteq 1..Len(origin)
    /\ origin \in Seq(0..MaxEvents)
    /\ wallClock \in Nat /\ mishaps \in 0..MaxMishaps

\* A chain that verifies is what add_audit wrote: each event unaltered, and
\* directly behind the event that was the newest when it was written, so that a
\* record lost from the middle, or taken from another place, never goes unseen.
VerifiedIsAsWritten ==
    VerifyAuditChain =>
        \A i \in DOMAIN audit :
            /\ audit[i].body = "written"
            /\ origin[audit[i].id] = IF i = 1 THEN 0 ELSE audit[i - 1].id

\* No false alarm while the deque still holds the whole history: without a
\* mishap the chain verifies (and /readyz is green), also after a restart.
ShortChainVerifies ==
    mishaps = 0 /\ Len(origin) <= HistorySize => VerifyAuditChain

\* docs/GLOSSARY.md: the audit records "detect tampering in retained application
\* history".  So without a mishap the retained records verify.  They do not once
\* the deque has evicted the first event: verify_audit_chain still expects the
\* oldest retained event to have no predecessor.
RetainedChainVerifies == mishaps = 0 => VerifyAuditChain
=============================================================================
