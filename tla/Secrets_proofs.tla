----------------------------- MODULE Secrets_proofs -----------------------------
(***************************************************************************)
(* What is proved about the secret-broker and the rotation of its keys,    *)
(* when no legacy variable is set: for any number of keys, rotations,      *)
(* secrets and brokers.  With the legacy variable it is not true.          *)
(*                                                                         *)
(* Without it a key is known by its number everywhere, so a secret can be  *)
(* read as long as its version is set.  A version is removed only when no  *)
(* secret has it, and then no broker encrypts with it any more: the phases *)
(* of the procedure say which version the brokers encrypt with.            *)
(***************************************************************************)
EXTENDS Secrets, WellFoundedInduction, TLAPS

\* The types of the variables are always expanded.
USE DEF SecretRows

\* A set of naturals has a least element.
LEMMA LeastExists ==
    ASSUME NEW T \in SUBSET Nat, T # {}
    PROVE  \E x \in T : \A y \in T : x <= y
<1> DEFINE R == OpToRel(<, Nat)
<1>1. IsWellFoundedOn(R, Nat)
  BY NatLessThanWellFounded
<1>2. \A x, y \in Nat : y < x => <<y, x>> \in R
  BY DEF OpToRel
<1> HIDE DEF R
<1>3. PICK x \in T : \A y \in T : ~(<<y, x>> \in R)
  BY <1>1, WFMin
<1>4. ASSUME NEW y \in T PROVE x <= y
  <2>1. x \in Nat /\ y \in Nat
    OBVIOUS
  <2>2. ~(y < x)
    BY <1>2, <1>3, <2>1, Zenon
  <2> QED
    BY <2>1, <2>2
<1> QED
  BY <1>4

\* The maximum of a set of versions is one of them, and the highest.
LEMMA MaxIsHighest ==
    ASSUME NEW n \in Nat, NEW S \in SUBSET (1..n), S # {}
    PROVE  Max(S) \in S /\ \A y \in S : Max(S) >= y
<1> DEFINE T == {k \in Nat : \E x \in S : k = n - x}
<1>1. T # {} /\ T \in SUBSET Nat
  <2>1. PICK x : x \in S
    OBVIOUS
  <2>2. n - x \in T
    BY <2>1
  <2> QED
    BY <2>2
<1>2. PICK k \in T : \A j \in T : k <= j
  BY <1>1, LeastExists
<1>3. PICK x \in S : k = n - x
  BY <1>2
<1>4. \A y \in S : x >= y
  <2> SUFFICES ASSUME NEW y \in S PROVE x >= y
    OBVIOUS
  <2>1. n - y \in T
    OBVIOUS
  <2> QED
    BY <1>2, <1>3, <2>1
<1> QED
  BY <1>4 DEF Max

-----------------------------------------------------------------------------
(* The inductive invariant *)

\* A registry in which every key has the number it was made with.
Numbered(keys) ==
    /\ keys \in Registries
    /\ DOMAIN keys # {}
    /\ DOMAIN keys \subseteq Material
    /\ \A v \in DOMAIN keys : keys[v] = v

RowOK(row) == row.version \in DOMAIN env /\ row.key \in {None, row.version}

\* The version a broker encrypts with is set; a stopped broker rotates nothing.
BrokerOK(b) ==
    /\ Up(b) => Numbered(registry[b]) /\ CurrentVersion(registry[b]) \in DOMAIN env
    /\ ~Up(b) => job[b] = {}

\* What the steps of the procedure have achieved.
PhaseOK ==
    /\ phase # "added" => \A b \in Brokers : Up(b) =>
                            CurrentVersion(registry[b]) = CurrentVersion(env)
    /\ phase \in {"verified", "removed", "steady"} => StatusIsClean
    /\ phase \in {"rotate", "verified"} => \A b \in Brokers : Up(b) => registry[b] = env
    /\ phase \in {"added", "rotate", "verified"} =>
            \E v \in DOMAIN env : v # CurrentVersion(env)
    /\ phase \in {"steady", "added"} => \A b \in Brokers : job[b] = {}
    /\ phase = "removed" => \A b \in Brokers : registry[b] = env => job[b] = {}

IInv ==
    /\ TypeOK
    /\ legacy = None
    /\ Numbered(env)
    /\ \A b \in Brokers : BrokerOK(b)
    /\ \A s \in Secrets : stored[s] # None => RowOK(stored[s])
    /\ PhaseOK

LEMMA LoadIsEnv ==
    ASSUME legacy = None
    PROVE  Load(env, legacy) = env
BY DEF Load

LEMMA RegistryIntro ==
    ASSUME NEW V \in SUBSET Versions, NEW keys \in [V -> Material]
    PROVE  keys \in Registries
BY DEF Registries

\* What a numbered registry encrypts with.
LEMMA Current ==
    ASSUME NEW keys, Numbered(keys)
    PROVE  /\ CurrentVersion(keys) \in DOMAIN keys
           /\ CurrentVersion(keys) \in Material
           /\ \A v \in DOMAIN keys : CurrentVersion(keys) >= v
           /\ Encrypt(keys) =
                 [version |-> CurrentVersion(keys), key |-> CurrentVersion(keys)]
           /\ Encrypt(keys) \in Row
<1>1. Keys \in Nat /\ DOMAIN keys \in SUBSET (1..Keys) /\ DOMAIN keys # {}
  BY KeysAssumption DEF Numbered, Material
<1>2. Max(DOMAIN keys) \in DOMAIN keys /\ \A v \in DOMAIN keys : Max(DOMAIN keys) >= v
  BY <1>1, MaxIsHighest
<1>3. CurrentVersion(keys) \in DOMAIN keys /\ \A v \in DOMAIN keys : CurrentVersion(keys) >= v
  BY <1>2 DEF CurrentVersion
<1>4. keys[CurrentVersion(keys)] = CurrentVersion(keys)
  BY <1>3 DEF Numbered
<1>5. CurrentVersion(keys) \in Material
  BY <1>3 DEF Numbered
<1>6. CurrentVersion(keys) \in Versions
  BY <1>5, KeysAssumption DEF Material, Versions
<1> QED
  BY <1>3, <1>4, <1>5, <1>6 DEF Encrypt, Row

LEMMA InitHolds == ~Legacy /\ Init => IInv
<1> SUFFICES ASSUME ~Legacy, Init PROVE IInv
  OBVIOUS
<1>1. legacy = None /\ env = [v \in {1} |-> 1]
  BY LegacyAssumption DEF Init
<1>2. {1} \in SUBSET Versions /\ env \in [{1} -> Material] /\ {1} \subseteq Material
  BY <1>1, KeysAssumption DEF Versions, Material
<1>3. env \in Registries
  BY <1>2, RegistryIntro
<1>4. Numbered(env)
  BY <1>1, <1>2, <1>3 DEF Numbered
<1>5. registry = [b \in Brokers |-> env]
  BY <1>1, LoadIsEnv DEF Init
<1>6. env # None
  BY <1>3, NoneAssumption
<1>a. OldRow \in Row /\ OldRow.version = 1 /\ OldRow.key = None
  BY KeysAssumption DEF OldRow, Row, Versions
<1>b. \A s \in Secrets : stored[s] \in {None, OldRow}
  BY DEF Init
<1>7. TypeOK
  BY <1>1, <1>3, <1>5, <1>a, DeathBound DEF Init, TypeOK, Phases
<1>8. \A b \in Brokers : BrokerOK(b)
  BY <1>4, <1>5, <1>6, Current DEF BrokerOK, Up
<1>9. CurrentVersion(env) = 1
  BY <1>1, <1>4, Current
<1>10. PhaseOK
  BY <1>5, <1>9, <1>a, <1>b DEF Init, PhaseOK, StatusIsClean
<1>11. \A s \in Secrets : stored[s] # None => RowOK(stored[s])
  BY <1>1, <1>a, <1>b DEF RowOK
<1> QED
  BY <1>1, <1>4, <1>7, <1>8, <1>10, <1>11 DEF IInv

-----------------------------------------------------------------------------
(* The broker *)

\* Storing a row of a broker's current version keeps the invariant.
LEMMA StoreKeeps ==
    ASSUME IInv, NEW b \in Brokers, Up(b), NEW s \in Secrets,
           stored' = [stored EXCEPT ![s] = Encrypt(registry[b])],
           NEW rows \in SUBSET (Secrets \X Row), rows \subseteq job[b],
           job' = [job EXCEPT ![b] = rows],
           phase # "added" \/ stored[s] = None,
           UNCHANGED <<env, legacy, registry, rotating, phase, deaths>>
    PROVE  IInv'
<1> DEFINE c == CurrentVersion(registry[b])
           row == Encrypt(registry[b])
<1>1. Numbered(registry[b]) /\ c \in DOMAIN env
  BY DEF IInv, BrokerOK
<1>2. row = [version |-> c, key |-> c] /\ row \in Row /\ row # None
  BY <1>1, Current, NoneAssumption
<1>3. \A t \in Secrets : stored'[t] = IF t = s THEN row ELSE stored[t]
  BY DEF IInv, TypeOK
<1>4. TypeOK'
  BY <1>2 DEF IInv, TypeOK
<1>5. (\A t \in Secrets : stored[t] # None => RowOK(stored[t]))'
  BY <1>1, <1>2, <1>3 DEF IInv, RowOK
<1>6. \A d \in Brokers : job'[d] \subseteq job[d]
  BY DEF IInv, TypeOK
<1>7. (\A d \in Brokers : BrokerOK(d))'
  BY <1>6 DEF IInv, BrokerOK, Up
<1>8. PhaseOK'
  <2>1. phase \in {"verified", "removed", "steady"} => StatusIsClean'
    BY <1>2, <1>3 DEF IInv, PhaseOK, StatusIsClean
  <2> QED
    BY <2>1, <1>6 DEF IInv, PhaseOK, Up
<1> QED
  BY <1>4, <1>5, <1>7, <1>8 DEF IInv

LEMMA CreateKeeps ==
    ASSUME IInv, NEW b \in Brokers, NEW s \in Secrets, CreateSecret(b, s)
    PROVE  IInv'
<1>1. job' = [job EXCEPT ![b] = job[b]] /\ job[b] \in SUBSET (Secrets \X Row)
  BY DEF CreateSecret, IInv, TypeOK
<1> QED
  BY <1>1, StoreKeeps DEF CreateSecret

LEMMA DeleteKeeps ==
    ASSUME IInv, NEW s \in Secrets, DeleteSecret(s)
    PROVE  IInv'
<1>1. \A t \in Secrets : stored'[t] = IF t = s THEN None ELSE stored[t]
  BY DEF IInv, TypeOK, DeleteSecret
<1>2. TypeOK'
  BY DEF IInv, TypeOK, DeleteSecret
<1>3. StatusIsClean => StatusIsClean'
  BY <1>1 DEF StatusIsClean, DeleteSecret
<1> QED
  BY <1>1, <1>2, <1>3 DEF IInv, DeleteSecret, BrokerOK, RowOK, PhaseOK, Up

LEMMA RotationKeeps ==
    ASSUME IInv, NEW b \in Brokers, StartRotation(b) \/ Rotate(b)
    PROVE  IInv'
<1>1. CASE StartRotation(b)
  <2>1. RowsToRotate(b) \in SUBSET (Secrets \X Row)
    BY DEF RowsToRotate
  <2>2. TypeOK'
    BY <1>1, <2>1 DEF IInv, TypeOK, StartRotation
  <2>3. \A d \in Brokers : ~Up(d) => job'[d] = job[d]
    BY <1>1 DEF IInv, TypeOK, StartRotation, Up
  <2> QED
    BY <1>1, <2>2, <2>3 DEF IInv, StartRotation, BrokerOK, RowOK, PhaseOK, Up, StatusIsClean
<1>2. ASSUME NEW r \in job[b], RotateRow(b, r)
      PROVE  IInv'
  <2> DEFINE rows == job[b] \ {r}
  <2>1. job' = [job EXCEPT ![b] = rows] /\ rows \in SUBSET (Secrets \X Row)
    BY <1>2 DEF RotateRow, IInv, TypeOK
  <2>2. Up(b) /\ phase # "added"
    BY DEF IInv, BrokerOK, PhaseOK
  <2>3. CASE stored' = stored
    <3>1. TypeOK'
      BY <1>2, <2>1, <2>3 DEF IInv, TypeOK, RotateRow
    <3>2. \A d \in Brokers : job'[d] \subseteq job[d]
      BY <2>1 DEF IInv, TypeOK
    <3> QED
      BY <1>2, <2>3, <3>1, <3>2
         DEF IInv, RotateRow, BrokerOK, RowOK, PhaseOK, Up, StatusIsClean
  <2>4. CASE stored' = [stored EXCEPT ![r[1]] = Encrypt(registry[b])]
    <3>1. r[1] \in Secrets
      BY DEF IInv, TypeOK
    <3>2. UNCHANGED <<env, legacy, registry, rotating, phase, deaths>>
      BY <1>2 DEF RotateRow
    <3>3. rows \subseteq job[b]
      OBVIOUS
    <3> HIDE DEF rows
    <3> QED
      BY <2>1, <2>2, <2>4, <3>1, <3>2, <3>3, StoreKeeps
  <2> QED
    BY <1>2, <2>3, <2>4 DEF RotateRow
<1>3. CASE EndRotation(b)
  BY <1>3 DEF IInv, TypeOK, EndRotation, BrokerOK, RowOK, PhaseOK, Up, StatusIsClean
<1> QED
  BY <1>1, <1>2, <1>3 DEF Rotate

\* A broker that stops takes its rotation along.
LEMMA StopKeeps ==
    ASSUME IInv, NEW b \in Brokers, Stop(b), deaths' \in 0..MaxDeaths,
           UNCHANGED <<env, legacy, stored, phase>>
    PROVE  IInv'
<1>1. TypeOK'
  BY DEF IInv, TypeOK, Stop
<1>2. ASSUME NEW d \in Brokers, d # b PROVE registry'[d] = registry[d] /\ job'[d] = job[d]
  BY <1>2 DEF IInv, TypeOK, Stop
<1>3. registry'[b] = None /\ job'[b] = {}
  BY DEF IInv, TypeOK, Stop
<1>4. (\A d \in Brokers : BrokerOK(d))'
  <2> SUFFICES ASSUME NEW d \in Brokers PROVE BrokerOK(d)'
    OBVIOUS
  <2>1. BrokerOK(d)
    BY DEF IInv
  <2> QED
    BY <1>2, <1>3, <2>1 DEF BrokerOK, Up
<1>5. PhaseOK'
  BY <1>2, <1>3 DEF IInv, PhaseOK, Up, StatusIsClean
<1> QED
  BY <1>1, <1>4, <1>5 DEF IInv, RowOK

LEMMA StartKeeps ==
    ASSUME IInv, NEW b \in Brokers, BrokerStarts(b)
    PROVE  IInv'
<1>1. registry' = [registry EXCEPT ![b] = env]
  BY LoadIsEnv DEF BrokerStarts, IInv
<1>2. Numbered(env) /\ env \in Registries /\ CurrentVersion(env) \in DOMAIN env
  BY Current DEF IInv, Numbered
<1>3. TypeOK'
  BY <1>1, <1>2 DEF IInv, TypeOK, BrokerStarts
<1>4. \A d \in Brokers : registry'[d] = IF d = b THEN env ELSE registry[d]
  BY <1>1 DEF IInv, TypeOK
<1>5. job[b] = {}
  BY DEF IInv, BrokerOK, BrokerStarts
<1>6. env # None
  BY <1>2, NoneAssumption
<1>7. (\A d \in Brokers : BrokerOK(d))'
  BY <1>2, <1>4, <1>6 DEF IInv, BrokerOK, Up, BrokerStarts
<1>8. PhaseOK'
  BY <1>4, <1>5 DEF IInv, PhaseOK, Up, StatusIsClean, BrokerStarts
<1> QED
  BY <1>3, <1>7, <1>8 DEF IInv, RowOK, BrokerStarts

-----------------------------------------------------------------------------
(* The operator *)

LEMMA AddKeyKeeps ==
    ASSUME IInv, AddKey
    PROVE  IInv'
<1> DEFINE next == CurrentVersion(env) + 1
           V == DOMAIN env \cup {next}
<1>1. Numbered(env) /\ DOMAIN env # {}
  BY DEF IInv, Numbered
<1>2. CurrentVersion(env) \in DOMAIN env /\ CurrentVersion(env) \in Material
  BY <1>1, Current
<1>3. /\ phase = "steady" /\ next <= Keys /\ phase' = "added"
      /\ env' = [v \in V |-> IF v = next THEN next ELSE env[v]]
      /\ UNCHANGED <<legacy, registry, stored, job, rotating, deaths>>
  BY <1>1 DEF AddKey
<1>4. V \subseteq Material /\ V \in SUBSET Versions
  BY <1>1, <1>2, <1>3, KeysAssumption DEF Numbered, Material, Versions
<1>5. \A v \in V : env'[v] = v
  BY <1>1, <1>3 DEF Numbered
<1>6. env' \in [V -> Material]
  BY <1>3, <1>4, <1>5
<1>7. env' \in Registries
  BY <1>4, <1>6, RegistryIntro
<1>8. Numbered(env')
  BY <1>3, <1>4, <1>5, <1>7 DEF Numbered
<1>9. TypeOK'
  BY <1>3, <1>7 DEF IInv, TypeOK, Phases
<1>10. DOMAIN env \subseteq DOMAIN env'
  BY <1>3
<1>11. (\A b \in Brokers : BrokerOK(b))'
  BY <1>3, <1>10 DEF IInv, BrokerOK, Up
<1>12. \E v \in DOMAIN env' : v # CurrentVersion(env')
  <2>1. CurrentVersion(env) \in DOMAIN env' /\ next \in DOMAIN env'
    BY <1>2, <1>3
  <2>2. next # CurrentVersion(env)
    BY <1>2, KeysAssumption DEF Material
  <2> QED
    BY <2>1, <2>2
<1>13. PhaseOK'
  BY <1>3, <1>12 DEF IInv, PhaseOK
<1> QED
  BY <1>3, <1>8, <1>9, <1>10, <1>11, <1>13 DEF IInv, RowOK

LEMMA FinishRestartKeeps ==
    ASSUME IInv, FinishRestart
    PROVE  IInv'
<1>1. \A b \in Brokers : registry[b] \in {None, env}
  BY LoadIsEnv DEF FinishRestart, AllRestarted, IInv
<1>2. TypeOK'
  BY DEF IInv, TypeOK, FinishRestart, Phases
<1>3. \A b \in Brokers : BrokerOK(b)
  BY DEF IInv
<1>4. CASE phase = "added"
  BY <1>1, <1>2, <1>3, <1>4
     DEF IInv, FinishRestart, BrokerOK, RowOK, PhaseOK, Up, StatusIsClean
<1>5. CASE phase = "removed"
  <2>1. \A b \in Brokers : job[b] = {}
    BY <1>1, <1>3, <1>5 DEF IInv, PhaseOK, BrokerOK, Up
  <2> QED
    BY <1>1, <1>2, <1>5, <2>1
       DEF IInv, FinishRestart, BrokerOK, RowOK, PhaseOK, Up, StatusIsClean
<1> QED
  BY <1>4, <1>5 DEF FinishRestart

LEMMA CheckStatusKeeps ==
    ASSUME IInv, CheckStatus
    PROVE  IInv'
BY DEF IInv, TypeOK, Phases, CheckStatus, BrokerOK, RowOK, PhaseOK, Up, StatusIsClean

\* The key that stays is the one every secret has been seen with.
LEMMA RemoveKeeps ==
    ASSUME IInv, RemoveOldKey
    PROVE  IInv'
<1> DEFINE c == CurrentVersion(env)
<1>1. Numbered(env) /\ c \in DOMAIN env /\ c \in Material /\ env[c] = c
  BY Current DEF IInv, Numbered
<1>2. /\ phase = "verified" /\ phase' = "removed" /\ env' = [v \in {c} |-> env[v]]
      /\ UNCHANGED <<legacy, registry, stored, job, rotating, deaths>>
  BY DEF RemoveOldKey
<1>3. {c} \in SUBSET Versions /\ DOMAIN env' = {c} /\ env'[c] = c
  BY <1>1, <1>2, KeysAssumption DEF Versions, Material
<1>4. env' \in [{c} -> Material]
  BY <1>1, <1>2
<1>5. env' \in Registries
  BY <1>3, <1>4, RegistryIntro
<1>6. Numbered(env')
  BY <1>1, <1>3, <1>5 DEF Numbered
<1>7. CurrentVersion(env') = c
  BY <1>3, <1>6, Current
<1>8. TypeOK'
  BY <1>2, <1>5 DEF IInv, TypeOK, Phases
<1>9. StatusIsClean'
  BY <1>2, <1>7 DEF IInv, PhaseOK, StatusIsClean
<1>10. \A b \in Brokers : Up(b) => CurrentVersion(registry[b]) = c
  BY <1>2 DEF IInv, PhaseOK
<1>11. (\A b \in Brokers : BrokerOK(b))'
  BY <1>2, <1>3, <1>10 DEF IInv, BrokerOK, Up
<1>12. (\A s \in Secrets : stored[s] # None => RowOK(stored[s]))'
  BY <1>2, <1>3, <1>7, <1>9 DEF IInv, RowOK, StatusIsClean
<1>13. \A b \in Brokers : registry[b] = env' => job[b] = {}
  <2> SUFFICES ASSUME NEW b \in Brokers, registry[b] = env', job[b] # {} PROVE FALSE
    OBVIOUS
  <2>1. registry[b] = env
    BY <1>2 DEF IInv, BrokerOK, PhaseOK
  <2> QED
    BY <1>2, <1>3, <2>1 DEF IInv, PhaseOK
<1>14. PhaseOK'
  BY <1>2, <1>7, <1>9, <1>10, <1>13 DEF PhaseOK, Up
<1> QED
  BY <1>2, <1>6, <1>8, <1>11, <1>12, <1>14 DEF IInv

-----------------------------------------------------------------------------
(* The theorems *)

LEMMA NextKeeps == IInv /\ [Next]_vars => IInv'
<1> SUFFICES ASSUME IInv, [Next]_vars PROVE IInv'
  OBVIOUS
<1>1. CASE AddKey
  BY <1>1, AddKeyKeeps
<1>2. CASE FinishRestart
  BY <1>2, FinishRestartKeeps
<1>3. CASE CheckStatus
  BY <1>3, CheckStatusKeeps
<1>4. CASE RemoveOldKey
  BY <1>4, RemoveKeeps
<1>5. ASSUME NEW b \in Brokers, Restart(b) \/ BrokerDies(b)
      PROVE  IInv'
  <2>1. Stop(b) /\ UNCHANGED <<env, legacy, stored, phase>>
    BY <1>5 DEF Restart, BrokerDies
  <2>2. deaths' \in 0..MaxDeaths
    BY <1>5, DeathBound DEF Restart, BrokerDies, IInv, TypeOK
  <2> QED
    BY <2>1, <2>2, StopKeeps
<1>6. ASSUME NEW b \in Brokers, StartRotation(b) \/ Rotate(b)
      PROVE  IInv'
  BY <1>6, RotationKeeps
<1>7. ASSUME NEW b \in Brokers, BrokerStarts(b)
      PROVE  IInv'
  BY <1>7, StartKeeps
<1>8. ASSUME NEW b \in Brokers, NEW s \in Secrets, CreateSecret(b, s)
      PROVE  IInv'
  BY <1>8, CreateKeeps
<1>9. ASSUME NEW s \in Secrets, DeleteSecret(s)
      PROVE  IInv'
  BY <1>9, DeleteKeeps
<1>10. CASE UNCHANGED vars
  BY <1>10 DEF vars, IInv, TypeOK, BrokerOK, RowOK, PhaseOK, Up, StatusIsClean
<1> QED
  BY <1>1, <1>2, <1>3, <1>4, <1>5, <1>6, <1>7, <1>8, <1>9, <1>10 DEF Next, Operator

LEMMA Invariance == ~Legacy => (Spec => []IInv)
<1> SUFFICES ASSUME ~Legacy PROVE Spec => []IInv
  OBVIOUS
<1>1. Init => IInv
  BY InitHolds
<1> QED
  BY <1>1, NextKeeps, PTL DEF Spec

\* Type correctness, without the legacy variable.
THEOREM TypeCorrect == ~Legacy => (Spec => []TypeOK)
<1> SUFFICES ASSUME ~Legacy PROVE Spec => []TypeOK
  OBVIOUS
<1>1. IInv => TypeOK
  BY DEF IInv
<1>2. Spec => []IInv
  BY Invariance
<1> QED
  BY <1>1, <1>2, PTL

\* Whoever follows the procedure never loses a secret, however many keys are
\* rotated, and wherever rotations overlap and brokers die.
THEOREM SecretsStayReadable == ~Legacy => (Spec => []StoredSecretsAreReadable)
<1> SUFFICES ASSUME ~Legacy PROVE Spec => []StoredSecretsAreReadable
  OBVIOUS
<1>1. IInv => StoredSecretsAreReadable
  BY LoadIsEnv DEF IInv, Numbered, RowOK, StoredSecretsAreReadable, HasValue, CanDecrypt
<1>2. Spec => []IInv
  BY Invariance
<1> QED
  BY <1>1, <1>2, PTL

\* A late row of a rotation never takes a secret back to an older key.
LEMMA RotatedRowRises ==
    ASSUME IInv, NEW b \in Brokers, NEW r \in job[b], RotateRow(b, r), NEW s \in Secrets,
           stored[s] # None, stored'[s] # None
    PROVE  stored'[s].version >= stored[s].version
<1>1. stored[s].version \in DOMAIN env /\ stored[s] \in Row
  BY DEF IInv, RowOK, TypeOK
<1>2. CASE stored'[s] = stored[s]
  BY <1>1, <1>2 DEF Row, Versions
<1>3. CASE stored'[s] # stored[s]
  <2>1. stored'[s] = Encrypt(registry[b])
    BY <1>3 DEF RotateRow, IInv, TypeOK
  <2>2. Up(b) /\ phase # "added"
    BY DEF IInv, BrokerOK, PhaseOK
  <2>3. CurrentVersion(registry[b]) = CurrentVersion(env) /\ Numbered(registry[b])
    BY <2>2 DEF IInv, PhaseOK, BrokerOK
  <2>4. stored'[s] = [version |-> CurrentVersion(env), key |-> CurrentVersion(env)]
    BY <2>1, <2>3, Current
  <2>5. CurrentVersion(env) >= stored[s].version
    BY <1>1, Current DEF IInv
  <2> QED
    BY <2>4, <2>5
<1> QED
  BY <1>2, <1>3

\* No secret goes back to an older key.
THEOREM VersionsRise == ~Legacy => (Spec => VersionNeverFalls)
<1> SUFFICES ASSUME ~Legacy PROVE Spec => VersionNeverFalls
  OBVIOUS
<1> DEFINE Rises == \A s \in Secrets : stored[s] # None /\ stored'[s] # None
                              => stored'[s].version >= stored[s].version
<1>1. IInv /\ [Next]_vars => [Rises]_stored
  <2> SUFFICES ASSUME IInv, Next, stored' # stored, NEW s \in Secrets,
                      stored[s] # None, stored'[s] # None
               PROVE  stored'[s].version >= stored[s].version
    BY DEF vars
  <2>1. stored[s].version \in Nat
    BY KeysAssumption DEF IInv, TypeOK, Row, Versions
  <2>2. ASSUME stored'[s] = stored[s] PROVE stored'[s].version >= stored[s].version
    BY <2>1, <2>2
  <2>3. ASSUME NEW b \in Brokers, NEW r \in job[b], RotateRow(b, r)
        PROVE  stored'[s].version >= stored[s].version
    BY <2>3, RotatedRowRises
  <2>4. ASSUME NEW b \in Brokers, NEW t \in Secrets, CreateSecret(b, t)
        PROVE  stored'[s] = stored[s]
    BY <2>4 DEF CreateSecret, IInv, TypeOK
  <2>5. ASSUME NEW t \in Secrets, DeleteSecret(t)
        PROVE  stored'[s] = stored[s]
    BY <2>5 DEF DeleteSecret, IInv, TypeOK
  <2>6. \/ \E b \in Brokers : \E r \in job[b] : RotateRow(b, r)
        \/ \E b \in Brokers, t \in Secrets : CreateSecret(b, t)
        \/ \E t \in Secrets : DeleteSecret(t)
    BY DEF Next, Operator, Rotate, AddKey, FinishRestart, CheckStatus, RemoveOldKey, Restart,
           StartRotation, EndRotation, BrokerDies, BrokerStarts
  <2> QED
    BY <2>2, <2>3, <2>4, <2>5, <2>6
<1>2. Spec => []IInv
  BY Invariance
<1> QED
  BY <1>1, <1>2, PTL DEF Spec, VersionNeverFalls

\* Once the status has been seen clean, nothing is stored under a key that is
\* about to be removed.
THEOREM NewestEncrypts == ~Legacy => (Spec => NewestKeyEncrypts)
<1> SUFFICES ASSUME ~Legacy PROVE Spec => NewestKeyEncrypts
  OBVIOUS
<1> DEFINE Newest == phase = "verified" => \A s \in Secrets :
                       stored'[s] # None => stored'[s].version = CurrentVersion(env)
<1>1. IInv /\ [Next]_vars => [Newest]_stored
  <2> SUFFICES ASSUME IInv, Next, stored' # stored, phase = "verified", NEW s \in Secrets,
                      stored'[s] # None
               PROVE  stored'[s].version = CurrentVersion(env)
    BY DEF vars
  <2>1. IInv'
    BY NextKeeps
  <2>2. phase' = "verified" /\ env' = env
    BY DEF Next, Operator, Rotate, AddKey, FinishRestart, CheckStatus, RemoveOldKey, Restart,
           StartRotation, EndRotation, BrokerDies, BrokerStarts, RotateRow, CreateSecret,
           DeleteSecret
  <2> QED
    BY <2>1, <2>2 DEF IInv, PhaseOK, StatusIsClean
<1>2. Spec => []IInv
  BY Invariance
<1> QED
  BY <1>1, <1>2, PTL DEF Spec, NewestKeyEncrypts

=============================================================================
