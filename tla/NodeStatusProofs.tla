-------------------------- MODULE NodeStatusProofs --------------------------
(* Proofs about NodeStatus for every set of GetStatus calls and every        *)
(* sequence of keys.                                                         *)
EXTENDS NodeStatus, NodeStateProofs

-----------------------------------------------------------------------------
(* GetStatus and SetMetadata disturb neither tasks nor lifecycle. *)

\* NodeStatus implements NodeState: reading the status and setting metadata
\* are no steps of the state and the count.
THEOREM StatusImplementsNodeState == StatusSpec => Spec
<1>1. StatusInit => Init
  BY DEF StatusInit
<1>2. [StatusNext]_<<vars, statusVars>> => [Next]_vars
  BY DEF StatusNext, SetMetadata, GetStatus, GetState, GetActiveTasks,
         LockMetadata, CopyKey, ReturnStatus, Read, statusVars
<1> QED BY <1>1, <1>2, PTL DEF StatusSpec, Spec

-----------------------------------------------------------------------------
(* Counting the calls of SetMetadata *)

\* One more call is one more for its key, and none for the others.
LEMMA SetsOfStep ==
    ASSUME NEW k, NEW n \in Nat
    PROVE  /\ SetsOf(k, n) \in Nat
           /\ SetsOf(k, n + 1) =
                  IF Keys[n + 1] = k THEN SetsOf(k, n) + 1 ELSE SetsOf(k, n)
<1> DEFINE S == {m \in 1 .. n : Keys[m] = k}
           T == {m \in 1 .. n + 1 : Keys[m] = k}
<1>1. IsFiniteSet(S) /\ Cardinality(S) \in Nat
  <2>1. IsFiniteSet(1 .. n)
    BY FS_Interval
  <2>2. IsFiniteSet(S)
    BY <2>1, FS_Subset
  <2> QED BY <2>2, FS_CardinalityType
<1>2. CASE Keys[n + 1] = k
  <2>1. T = S \cup {n + 1} /\ n + 1 \notin S
    BY <1>2
  <2>2. Cardinality(T) = Cardinality(S) + 1
    BY <2>1, <1>1, FS_AddElement
  <2> QED BY <2>2, <1>1, <1>2 DEF SetsOf
<1>3. CASE Keys[n + 1] # k
  <2>1. T = S
    BY <1>3
  <2> QED BY <2>1, <1>1, <1>3 DEF SetsOf
<1> QED BY <1>2, <1>3

LEMMA SetsOfNone == ASSUME NEW k PROVE SetsOf(k, 0) = 0
<1>1. {m \in 1 .. 0 : Keys[m] = k} = {}
  OBVIOUS
<1> QED BY <1>1, FS_EmptySet DEF SetsOf

-----------------------------------------------------------------------------
(* The invariant *)

StatusTyped ==
    /\ metadata \in [MetadataKeys -> Nat]
    /\ sets \in 0 .. Len(Keys)
    /\ at \in [Readers -> {"idle", "count", "lock", "copy"}]
    /\ result \in [Readers -> [MetadataKeys -> Nat \cup {Missing}]]

\* The map holds what the calls so far have made of it.
MetadataExact == \A k \in MetadataKeys : metadata[k] = SetsOf(k, sets)

\* A reader has copied nothing but under the lock, and then what is there now.
CopyFaithful ==
    \A r \in Readers, k \in MetadataKeys :
        result[r][k] # Missing =>
            at[r] = "copy" /\ result[r][k] = metadata[k]

StatusInv == StatusTyped /\ MetadataExact /\ CopyFaithful

LEMMA StatusInvInit == StatusInit => StatusInv
<1> SUFFICES ASSUME StatusInit PROVE StatusInv
  OBVIOUS
<1>1. Len(Keys) \in Nat
  BY StatusAssumption
<1>2. StatusTyped
  BY <1>1 DEF StatusInit, StatusTyped, NoResult, Missing
<1>3. MetadataExact
  BY SetsOfNone DEF StatusInit, MetadataExact
<1>4. CopyFaithful
  BY DEF StatusInit, CopyFaithful, NoResult
<1> QED BY <1>2, <1>3, <1>4 DEF StatusInv

\* A call of SetMetadata counts for its key, and finds nobody copying.
LEMMA SetMetadataStep == StatusInv /\ SetMetadata => StatusInv'
<1> SUFFICES ASSUME StatusInv, SetMetadata PROVE StatusInv'
  OBVIOUS
<1> USE DEF StatusInv, StatusTyped
<1>1. Len(Keys) \in Nat /\ sets \in Nat /\ sets + 1 \in DOMAIN Keys
  BY StatusAssumption DEF SetMetadata
<1>2. Keys[sets + 1] \in MetadataKeys
  BY <1>1 DEF MetadataKeys
<1>3. /\ sets' = sets + 1
      /\ metadata' = [metadata EXCEPT ![Keys[sets + 1]] = @ + 1]
      /\ UNCHANGED <<at, result>>
  BY DEF SetMetadata
<1>4. StatusTyped'
  BY <1>1, <1>2, <1>3 DEF SetMetadata
<1>5. MetadataExact'
  <2> SUFFICES ASSUME NEW k \in MetadataKeys
               PROVE  metadata'[k] = SetsOf(k, sets + 1)
    BY <1>3 DEF MetadataExact, SetsOf
  <2>1. metadata[k] = SetsOf(k, sets)
    BY DEF MetadataExact
  <2>2. SetsOf(k, sets + 1) =
            IF Keys[sets + 1] = k THEN SetsOf(k, sets) + 1 ELSE SetsOf(k, sets)
    BY <1>1, SetsOfStep
  <2>3. metadata'[k] =
            IF Keys[sets + 1] = k THEN metadata[k] + 1 ELSE metadata[k]
    BY <1>2, <1>3
  <2> QED BY <2>1, <2>2, <2>3
<1>6. CopyFaithful'
  BY <1>3 DEF SetMetadata, ReadLocked, CopyFaithful
<1> QED BY <1>4, <1>5, <1>6

\* A step of a GetStatus copies what is there, or forgets all that it copied.
LEMMA GetStatusStep ==
    ASSUME NEW r \in Readers, StatusInv, GetStatus(r)
    PROVE  StatusInv'
<1> USE DEF StatusInv, StatusTyped, Read
<1>k. ASSUME UNCHANGED <<metadata, sets>> PROVE MetadataExact'
  BY <1>k DEF MetadataExact, SetsOf
<1>1. CASE GetState(r)
  BY <1>1, <1>k DEF GetState, CopyFaithful
<1>2. CASE GetActiveTasks(r)
  BY <1>2, <1>k DEF GetActiveTasks, CopyFaithful
<1>3. CASE LockMetadata(r)
  BY <1>3, <1>k DEF LockMetadata, CopyFaithful
<1>4. ASSUME NEW k \in MetadataKeys, CopyKey(r, k) PROVE StatusInv'
  <2>1. /\ at[r] = "copy" /\ at' = [at EXCEPT ![r] = "copy"]
        /\ result' = [result EXCEPT ![r] = [@ EXCEPT ![k] = metadata[k]]]
        /\ UNCHANGED <<metadata, sets>>
    BY <1>4 DEF CopyKey
  <2>2. StatusTyped' /\ CopyFaithful'
    BY <2>1 DEF CopyFaithful
  <2> QED BY <2>1, <2>2, <1>k
<1>5. CASE ReturnStatus(r)
  <2>1. /\ at' = [at EXCEPT ![r] = "idle"]
        /\ result' = [result EXCEPT ![r] = NoResult]
        /\ UNCHANGED <<metadata, sets>>
    BY <1>5 DEF ReturnStatus
  <2>2. StatusTyped' /\ CopyFaithful'
    BY <2>1 DEF CopyFaithful, NoResult
  <2> QED BY <2>1, <2>2, <1>k
<1> QED BY <1>1, <1>2, <1>3, <1>4, <1>5 DEF GetStatus

LEMMA StatusInvStep ==
    StatusInv /\ [StatusNext]_<<vars, statusVars>> => StatusInv'
<1> SUFFICES ASSUME StatusInv, [StatusNext]_<<vars, statusVars>>
             PROVE  StatusInv'
  OBVIOUS
<1>1. ASSUME UNCHANGED statusVars PROVE StatusInv'
  BY <1>1 DEF StatusInv, StatusTyped, MetadataExact, SetsOf, CopyFaithful,
              statusVars
<1>2. CASE SetMetadata
  BY <1>2, SetMetadataStep
<1>3. ASSUME NEW r \in Readers, GetStatus(r) PROVE StatusInv'
  BY <1>3, GetStatusStep
<1> QED BY <1>1, <1>2, <1>3 DEF StatusNext

\* The moment a complete copy shows is the present one.
LEMMA SnapshotFollows == StatusInv => MetadataSnapshot
<1> SUFFICES ASSUME StatusInv, NEW r \in Readers, Copied(r)
             PROVE  \E n \in 0 .. sets :
                        \A k \in MetadataKeys : result[r][k] = SetsOf(k, n)
  BY DEF MetadataSnapshot
<1>1. \A k \in MetadataKeys : result[r][k] = SetsOf(k, sets)
  BY DEF StatusInv, MetadataExact, CopyFaithful, Copied
<1>2. sets \in 0 .. sets
  BY StatusAssumption DEF StatusInv, StatusTyped
<1> QED BY <1>1, <1>2

-----------------------------------------------------------------------------
(* The theorems *)

\* For any number of GetStatus calls at once and whatever keys are set, the
\* metadata of a status is the map as it was at one moment (state.go:100).
THEOREM SnapshotCorrect == StatusSpec => []MetadataSnapshot
<1>1. StatusSpec => []StatusInv
  BY StatusInvInit, StatusInvStep, PTL DEF StatusSpec
<1> QED BY <1>1, SnapshotFollows, PTL
=============================================================================
