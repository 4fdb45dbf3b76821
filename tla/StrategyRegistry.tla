-------------------------- MODULE StrategyRegistry --------------------------
(***************************************************************************)
(* The strategy versions of zksato's research service: register_strategy   *)
(* (research.py), add_strategy_version of StateStore (store.py) and of     *)
(* SqlStateStore (persistence.py).  Replicas share the table and each      *)
(* keeps its own dictionary, written before the insert.                    *)
(*                                                                         *)
(* One name:version key; a configuration stands for its canonical hash.    *)
(***************************************************************************)
EXTENDS Naturals

CONSTANTS
    Replicas,         \* processes of the service
    VersionConfigs,   \* configurations registered under the key
    Unregistered,     \* the key is absent
    MaxRegistryFaults \* bound on failed inserts and restarts

ASSUME RegistryAssumption ==
    Unregistered \notin VersionConfigs /\ MaxRegistryFaults \in Nat

VARIABLES
    known,      \* per replica, strategy_versions[key]
    row,        \* the row of strategy_versions_table
    answered,   \* per replica, the configurations it answered as registered
    recorded,   \* per replica, the versions its strategy runs were recorded under
    unsaved,    \* replicas that keep a version whose insert failed
    registryFaults

registryVars == <<known, row, answered, recorded, unsaved, registryFaults>>

Held == VersionConfigs \cup {Unregistered}

RegistryTypeOK ==
    /\ known \in [Replicas -> Held] /\ row \in Held
    /\ answered \in [Replicas -> SUBSET VersionConfigs]
    /\ recorded \in [Replicas -> SUBSET VersionConfigs]
    /\ unsaved \subseteq Replicas /\ registryFaults \in 0 .. MaxRegistryFaults

RegistryInit ==
    /\ known = [r \in Replicas |-> Unregistered] /\ row = Unregistered
    /\ answered = [r \in Replicas |-> {}] /\ recorded = [r \in Replicas |-> {}]
    /\ unsaved = {} /\ registryFaults = 0

Answer(r, held, config) ==
    answered' = IF held = config THEN [answered EXCEPT ![r] = @ \cup {config}] ELSE answered

\* The dictionary has the key: an equal version is returned, another refused.
RegisterKnown(r, config) ==
    /\ known[r] # Unregistered
    /\ Answer(r, known[r], config)
    /\ UNCHANGED <<known, row, recorded, unsaved, registryFaults>>

\* The dictionary takes the version and the insert succeeds.
RegisterNew(r, config) ==
    /\ known[r] = Unregistered /\ row = Unregistered
    /\ known' = [known EXCEPT ![r] = config]
    /\ row' = config
    /\ Answer(r, config, config)
    /\ UNCHANGED <<recorded, unsaved, registryFaults>>

\* Mutant: the replica that lost the race keeps its own version.
KeepOwn(r, config) == config

\* IntegrityError: the row of another replica replaces what the dictionary took.
TakeRow(r, config) == row

RegisterLate(r, config) ==
    /\ known[r] = Unregistered /\ row # Unregistered
    /\ known' = [known EXCEPT ![r] = TakeRow(r, config)]
    /\ Answer(r, row, config)
    /\ UNCHANGED <<row, recorded, unsaved, registryFaults>>

\* Any other database error leaves the dictionary as it is and is raised.
RegisterFails(r, config) ==
    /\ known[r] = Unregistered /\ registryFaults < MaxRegistryFaults
    /\ known' = [known EXCEPT ![r] = config]
    /\ unsaved' = unsaved \cup {r}
    /\ registryFaults' = registryFaults + 1
    /\ UNCHANGED <<row, answered, recorded>>

\* A strategy run is recorded under the version the dictionary resolves.
RecordRun(r) ==
    /\ known[r] # Unregistered
    /\ recorded' = [recorded EXCEPT ![r] = @ \cup {known[r]}]
    /\ UNCHANGED <<known, row, answered, unsaved, registryFaults>>

\* The dictionary is read from the table when the process starts.
ReplicaRestarts(r) ==
    /\ registryFaults < MaxRegistryFaults
    /\ known' = [known EXCEPT ![r] = row]
    /\ answered' = [answered EXCEPT ![r] = {}]
    /\ recorded' = [recorded EXCEPT ![r] = {}]
    /\ unsaved' = unsaved \ {r}
    /\ registryFaults' = registryFaults + 1
    /\ UNCHANGED row

RegistryNext ==
    \E r \in Replicas :
        \/ \E config \in VersionConfigs :
              \/ RegisterKnown(r, config) \/ RegisterNew(r, config)
              \/ RegisterLate(r, config) \/ RegisterFails(r, config)
        \/ RecordRun(r)
        \/ ReplicaRestarts(r)

RegistrySpec == RegistryInit /\ [][RegistryNext]_registryVars

-----------------------------------------------------------------------------
\* A version is immutable (store.py: "strategy version ... is immutable") for
\* everyone who was told of it: what a replica answered or recorded runs under
\* is what the table holds, whichever replica registered first and whatever
\* restarted since.  A replica that kept a version whose insert failed is
\* excepted until it restarts.
OneMeaningPerVersion ==
    \A r \in Replicas \ unsaved : answered[r] \cup recorded[r] \subseteq {row}
=============================================================================
