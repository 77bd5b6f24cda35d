----------------------------- MODULE NodeStatus -----------------------------
(***************************************************************************)
(* GetStatus (pkg/control/control.go) beside the tasks and the lifecycle   *)
(* of NodeState, and the metadata of pkg/control/state.go, which is under  *)
(* a lock of its own.                                                      *)
(*                                                                         *)
(* GetStatus reads the state, then the count, then the metadata: three     *)
(* moments, between which anything may happen.  GetMetadata copies the map *)
(* key by key, in no particular order, under the read lock; SetMetadata    *)
(* sets one key under the write lock.                                      *)
(*                                                                         *)
(* Nothing in src/ calls SetMetadata but the tests, which set one key      *)
(* after another as the embedding program here does.  The n-th call sets   *)
(* the key Keys[n], and the value is how often that key was set.           *)
(***************************************************************************)
EXTENDS NodeState, Sequences

CONSTANTS
    Readers,    \* the GetStatus calls that may be in progress at once
    Keys        \* the keys the embedding program sets, in this order

MetadataKeys == {Keys[n] : n \in DOMAIN Keys}

ASSUME StatusAssumption == Keys \in Seq(MetadataKeys)

VARIABLES
    metadata,   \* State.metadata
    sets,       \* how many calls of SetMetadata there were
    at,         \* where each GetStatus is
    response,   \* what it has read of the state and of the count
    result      \* its copy of the metadata so far

statusVars == <<metadata, sets, at, response, result>>

\* A key that was not copied yet
Missing == -1
Nothing == [state |-> "STARTING", activeTasks |-> 0]
NoResult == [k \in MetadataKeys |-> Missing]

\* NewState makes the map; a key that was never set is 0 here.
StatusInit ==
    /\ Init
    /\ metadata = [k \in MetadataKeys |-> 0]
    /\ sets = 0
    /\ at = [r \in Readers |-> "idle"]
    /\ response = [r \in Readers |-> Nothing]
    /\ result = [r \in Readers |-> NoResult]

-----------------------------------------------------------------------------
(* A bug in one operation, used to confirm that the properties see it. *)
BugNoLock == FALSE
-----------------------------------------------------------------------------

\* State.mu is held for reading: by a GetMetadata, which may have to share it
\* with others but not with a SetMetadata.
ReadLocked == \E r \in Readers : at[r] = "copy"

SetMetadata ==
    /\ sets < Len(Keys)
    /\ ~ReadLocked
    /\ sets' = sets + 1
    /\ metadata' = [metadata EXCEPT ![Keys[sets + 1]] = @ + 1]
    /\ UNCHANGED <<vars, at, response, result>>

Read(r, from, to) ==
    /\ at[r] = from
    /\ at' = [at EXCEPT ![r] = to]
    /\ UNCHANGED <<vars, metadata, sets>>

\* The control server answers once run() has called SetReady.
GetState(r) ==
    /\ caller # "boot"
    /\ Read(r, "idle", "count")
    /\ response' = [response EXCEPT ![r].state = state]
    /\ UNCHANGED result

GetActiveTasks(r) ==
    /\ Read(r, "count", "lock")
    /\ response' = [response EXCEPT ![r].activeTasks = activeTasks]
    /\ UNCHANGED result

\* GetMetadata: RLock, each key, and RUnlock with the return of GetStatus
LockMetadata(r) == Read(r, "lock", "copy") /\ UNCHANGED <<response, result>>

CopyKey(r, k) ==
    /\ result[r][k] = Missing
    /\ Read(r, "copy", "copy")
    /\ result' = [result EXCEPT ![r][k] = metadata[k]]
    /\ UNCHANGED response

Copied(r) == at[r] = "copy" /\ \A k \in MetadataKeys : result[r][k] # Missing

ReturnStatus(r) ==
    /\ Copied(r)
    /\ Read(r, "copy", "idle")
    /\ response' = [response EXCEPT ![r] = Nothing]
    /\ result' = [result EXCEPT ![r] = NoResult]

GetStatus(r) ==
    \/ GetState(r) \/ GetActiveTasks(r) \/ LockMetadata(r)
    \/ \E k \in MetadataKeys : CopyKey(r, k)
    \/ ReturnStatus(r)

StatusNext ==
    \/ Next /\ UNCHANGED statusVars
    \/ SetMetadata
    \/ \E r \in Readers : GetStatus(r)

StatusSpec == StatusInit /\ [][StatusNext]_<<vars, statusVars>>

-----------------------------------------------------------------------------
(* Properties *)

\* The metadata of a status is the map as it was at one moment, although it is
\* copied key by key while other goroutines set keys: a status that shows one
\* call of SetMetadata shows every earlier one.
SetsOf(k, n) == Cardinality({m \in 1 .. n : Keys[m] = k})
MetadataSnapshot ==
    \A r \in Readers :
        Copied(r) =>
            \E n \in 0 .. sets :
                \A k \in MetadataKeys : result[r][k] = SetsOf(k, n)
=============================================================================
