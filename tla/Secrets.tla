-------------------------------- MODULE Secrets --------------------------------
(***************************************************************************)
(* Encrypted secrets of the secret-broker and the rotation of their keys.  *)
(*                                                                         *)
(* A broker process loads its KeyRegistry from the environment once.  The  *)
(* highest version encrypts, the version stored with a secret decrypts it. *)
(* A rotation reads all the rows of a workspace and then re-encrypts them  *)
(* one by one, each in a transaction of its own, without a lock: secrets   *)
(* are created and deleted meanwhile, a second rotation may run, and the   *)
(* process may die between two rows.                                       *)
(*                                                                         *)
(* The operator follows docs/ops/secret-rotation.md: add a key, restart    *)
(* the brokers, rotate, check the status, remove the old key, restart.     *)
(***************************************************************************)
EXTENDS Integers, FiniteSets, FiniteSetsExt, Functions

CONSTANTS Secrets,      \* ids of secrets of a workspace
          Brokers,      \* processes of the secret-broker
          Keys,         \* how many keys there will ever be: key material
          Legacy,       \* is SECRET_ENCRYPTION_KEY set, to the first key?
          None,         \* no value
          MaxDeaths     \* bound: brokers that die

ASSUME KeysAssumption == Keys \in Nat \ {0}
ASSUME LegacyAssumption == Legacy \in BOOLEAN
ASSUME DeathBound == MaxDeaths \in Nat

Material == 1..Keys

\* Versions a registry may give: the variables' and one for the legacy key.
Versions == 1..(Keys + 1)

VARIABLES
    env,        \* the versioned variables: a function from versions to keys
    legacy,     \* SECRET_ENCRYPTION_KEY, or None
    registry,   \* [Brokers -> keys by version, or None when it is down]
    stored,     \* [Secrets -> [version, key], or None]; no key, no ciphertext
    job,        \* [Brokers -> rows a rotation has read and not yet handled]
    rotating,   \* brokers with a rotation request under way
    phase,      \* where the operator is in the procedure
    deaths

vars == <<env, legacy, registry, stored, job, rotating, phase, deaths>>

Phases == {"steady", "added", "rotate", "verified", "removed"}

\* The variables name keys Material; any subset of versions may be set.
Registries == UNION {[V -> Material] : V \in SUBSET Versions}

\* KeyRegistry.current_version: the highest version.
CurrentVersion(keys) == Max(DOMAIN keys)

\* KeyRegistry._load_from_env: a legacy key that no variable holds becomes
\* version 1 when it is alone, and the highest version otherwise.
Load(versioned, old) ==
    IF old = None \/ old \in Range(versioned) THEN versioned
    ELSE IF DOMAIN versioned = {} THEN [v \in {1} |-> old]
    ELSE LET next == Max(DOMAIN versioned) + 1
         IN  [v \in DOMAIN versioned \cup {next} |-> IF v = next THEN old ELSE versioned[v]]

\* Mutant: the lowest version encrypts.
EncryptsWithOldest(keys) ==
    [version |-> Min(DOMAIN keys), key |-> keys[Min(DOMAIN keys)]]

\* encrypt_value: the ciphertext of a secret is told by the key it was made
\* with.
Encrypt(keys) ==
    [version |-> CurrentVersion(keys), key |-> keys[CurrentVersion(keys)]]

\* decrypt_value: the version must be known, and its key must be the one the
\* ciphertext was made with (AES-GCM authenticates).
CanDecrypt(keys, row) == row.version \in DOMAIN keys /\ keys[row.version] = row.key

\* A secret from before encryption has no ciphertext, and version 1 by the
\* column's default.
Row    == [version : Versions, key : Material \cup {None}]
OldRow == [version |-> 1, key |-> None]

ASSUME NoneAssumption == None \notin Row \cup Registries \cup Material

\* The table secrets.
SecretRows == [Secrets -> Row \cup {None}]

TypeOK ==
    /\ env \in Registries
    /\ legacy \in Material \cup {None}
    /\ registry \in [Brokers -> Registries \cup {None}]
    /\ stored \in SecretRows
    /\ job \in [Brokers -> SUBSET (Secrets \X Row)]
    /\ rotating \subseteq Brokers
    /\ phase \in Phases
    /\ deaths \in 0..MaxDeaths

Init ==
    /\ env = IF Legacy THEN [v \in {} |-> 1] ELSE [v \in {1} |-> 1]
    /\ legacy = IF Legacy THEN 1 ELSE None
    /\ registry = [b \in Brokers |-> Load(env, legacy)]
    /\ stored \in [Secrets -> {None, OldRow}]
    /\ job = [b \in Brokers |-> {}]
    /\ rotating = {}
    /\ phase = "steady"
    /\ deaths = 0

Up(b) == registry[b] # None

-----------------------------------------------------------------------------
(* The broker *)

\* create_secret.
CreateSecret(b, s) ==
    /\ Up(b)
    /\ stored[s] = None
    /\ stored' = [stored EXCEPT ![s] = Encrypt(registry[b])]
    /\ UNCHANGED <<env, legacy, registry, job, rotating, phase, deaths>>

\* delete_secret.
DeleteSecret(s) ==
    /\ \E b \in Brokers : Up(b)
    /\ stored[s] # None
    /\ stored' = [stored EXCEPT ![s] = None]
    /\ UNCHANGED <<env, legacy, registry, job, rotating, phase, deaths>>

\* Mutant: only the secrets of the current version are re-encrypted.
CurrentOnes(b) == {r \in Secrets \X Row :
    stored[r[1]] = r[2] /\ r[2].version = CurrentVersion(registry[b])}

\* rotate_workspace_secrets reads every row, with a ciphertext or without;
\* those of the current version are passed over.
RowsToRotate(b) == {r \in Secrets \X Row :
    stored[r[1]] = r[2] /\ r[2].version # CurrentVersion(registry[b])}

\* The operator posts to .../secrets/rotate; a broker takes the request.
StartRotation(b) ==
    /\ phase = "rotate"
    /\ Up(b)
    /\ b \notin rotating
    /\ \E s \in Secrets : stored[s] # None /\ stored[s].version # CurrentVersion(registry[b])
    /\ rotating' = rotating \cup {b}
    /\ job' = [job EXCEPT ![b] = RowsToRotate(b)]
    /\ UNCHANGED <<env, legacy, registry, stored, phase, deaths>>

\* One row: decrypted, re-encrypted and committed.  A row that has no ciphertext
\* or cannot be decrypted is reported and left; one that has been deleted is not
\* updated.
RotateRow(b, r) ==
    /\ r \in job[b]
    /\ job' = [job EXCEPT ![b] = @ \ {r}]
    /\ stored' = IF CanDecrypt(registry[b], r[2]) /\ stored[r[1]] # None
                   THEN [stored EXCEPT ![r[1]] = Encrypt(registry[b])]
                   ELSE stored
    /\ UNCHANGED <<env, legacy, registry, rotating, phase, deaths>>

EndRotation(b) ==
    /\ b \in rotating
    /\ job[b] = {}
    /\ rotating' = rotating \ {b}
    /\ UNCHANGED <<env, legacy, registry, stored, job, phase, deaths>>

\* The process ends, by itself or for a restart, with what it was doing.
Stop(b) ==
    /\ registry' = [registry EXCEPT ![b] = None]
    /\ job' = [job EXCEPT ![b] = {}]
    /\ rotating' = rotating \ {b}

BrokerDies(b) ==
    /\ Up(b)
    /\ deaths < MaxDeaths
    /\ deaths' = deaths + 1
    /\ Stop(b)
    /\ UNCHANGED <<env, legacy, stored, phase>>

\* A process starts and loads its registry; one without a key is of no use.
BrokerStarts(b) ==
    /\ ~Up(b)
    /\ registry' = [registry EXCEPT ![b] = Load(env, legacy)]
    /\ UNCHANGED <<env, legacy, stored, job, rotating, phase, deaths>>

-----------------------------------------------------------------------------
(* The operator *)

\* Step 2: the new key becomes the next version; a key that was only in the
\* legacy variable is named V1 with it.
AddKey ==
    /\ phase = "steady"
    /\ LET known == IF DOMAIN env = {} THEN [v \in {1} |-> legacy] ELSE env
           next == CurrentVersion(known) + 1
       IN  /\ next <= Keys
           /\ env' = [v \in DOMAIN known \cup {next} |-> IF v = next THEN next ELSE known[v]]
    /\ phase' = "added"
    /\ UNCHANGED <<legacy, registry, stored, job, rotating, deaths>>

\* Step 3 and the restart after step 6: a broker that runs with another
\* environment is restarted.
Restart(b) ==
    /\ phase \in {"added", "removed"}
    /\ Up(b) /\ registry[b] # Load(env, legacy)
    /\ Stop(b)
    /\ UNCHANGED <<env, legacy, stored, phase, deaths>>

\* Mutant: one broker with the new environment is enough.
OneRestarted == \E b \in Brokers : registry[b] = Load(env, legacy)

AllRestarted == \A b \in Brokers : registry[b] \in {None, Load(env, legacy)}

FinishRestart ==
    /\ phase \in {"added", "removed"}
    /\ AllRestarted
    /\ phase' = IF phase = "added" THEN "rotate" ELSE "steady"
    /\ UNCHANGED <<env, legacy, registry, stored, job, rotating, deaths>>

\* Mutant: a rotation that has come to its end is taken for a clean status.
NobodyRotates == rotating = {}

\* get_rotation_status: no secret, with a ciphertext or without, is on an older
\* version.
StatusIsClean ==
    \A s \in Secrets : stored[s] # None => stored[s].version = CurrentVersion(env)

\* Step 5: a broker is asked how many secrets are on each version.
CheckStatus ==
    /\ phase = "rotate"
    /\ \E b \in Brokers : Up(b)
    /\ StatusIsClean
    /\ phase' = "verified"
    /\ UNCHANGED <<env, legacy, registry, stored, job, rotating, deaths>>

\* Step 6: the versions but the highest are removed.
RemoveOldKey ==
    /\ phase = "verified"
    /\ env' = [v \in {CurrentVersion(env)} |-> env[v]]
    /\ phase' = "removed"
    /\ UNCHANGED <<legacy, registry, stored, job, rotating, deaths>>

-----------------------------------------------------------------------------
Operator == AddKey \/ FinishRestart \/ CheckStatus \/ RemoveOldKey
            \/ \E b \in Brokers : Restart(b) \/ StartRotation(b)

Rotate(b) == (\E r \in job[b] : RotateRow(b, r)) \/ EndRotation(b)

Next ==
    \/ Operator
    \/ \E b \in Brokers : Rotate(b) \/ BrokerDies(b) \/ BrokerStarts(b)
    \/ \E b \in Brokers, s \in Secrets : CreateSecret(b, s)
    \/ \E s \in Secrets : DeleteSecret(s)

Spec == Init /\ [][Next]_vars

\* Processes are restarted when they stop and finish what they are asked,
\* and the operator goes on with the procedure.
Fairness ==
    /\ \A b \in Brokers : WF_vars(Rotate(b)) /\ WF_vars(BrokerStarts(b))
    /\ \A b \in Brokers : WF_vars(Restart(b)) /\ SF_vars(StartRotation(b))
    /\ WF_vars(FinishRestart) /\ SF_vars(CheckStatus) /\ WF_vars(RemoveOldKey)

FairSpec == Spec /\ Fairness

-----------------------------------------------------------------------------
(* Properties *)

\* The secret is stored, and encrypted.
HasValue(s) == stored[s] # None /\ stored[s].key # None

\* No key is removed, and no version reused, while a secret needs it: a broker
\* that starts now can decrypt everything that is stored.  Violated with
\* Legacy: after the first rotation the legacy key, no longer named V1, comes
\* back above the new one, and its version is given to the next key.
StoredSecretsAreReadable ==
    \A s \in Secrets : HasValue(s) => CanDecrypt(Load(env, legacy), stored[s])

\* Neither a late row of a rotation nor a broker with an older registry puts
\* a secret back under an older key.
VersionNeverFalls ==
    [][\A s \in Secrets : stored[s] # None /\ stored'[s] # None
                              => stored'[s].version >= stored[s].version]_stored

\* New secrets are encrypted with the newest key once the brokers have been
\* restarted for it: from then on a key the operator means to remove is not
\* used again.
NewestKeyEncrypts ==
    [][phase = "verified" => \A s \in Secrets :
          stored'[s] # None => stored'[s].version = CurrentVersion(env)]_stored

\* A rotation gets through: every value comes under the newest key, however many
\* rows a dying broker has left, and nothing but rows without a value keeps the
\* status from coming out clean.
RotationCompletes ==
    phase = "rotate" ~>
        /\ \A s \in Secrets : HasValue(s) => stored[s].version = CurrentVersion(env)
        /\ phase = "verified" \/ \E s \in Secrets : stored[s] # None /\ ~ HasValue(s)

\* Violated by rows without a value: no rotation touches them, the status counts
\* them, and the operator who waits for a clean one never removes the old key.
StatusComesOutClean == phase = "rotate" ~> phase = "verified"
=============================================================================
