----------------------------- MODULE ObjectList -----------------------------
(***************************************************************************)
(* What a storage backend promises about one list of objects (the records  *)
(* of a collection, the collections of a bucket...), when no caller forces *)
(* a last_modified: kinto/core/storage/__init__.py, StorageBase.           *)
(*                                                                         *)
(* Every change of an object takes a stamp beyond the timestamp of the     *)
(* list, and becomes the timestamp of the list in the same step.  An       *)
(* object is its last_modified: as every change gets a new stamp, the      *)
(* stamp stands for the version, content included.  A deleted object       *)
(* leaves a tombstone with the stamp of its deletion.                      *)
(*                                                                         *)
(* MemoryStorage is shown to implement this module; ResourceRequests and   *)
(* ChangesFeed are built on it.                                            *)
(***************************************************************************)
EXTENDS Naturals

CONSTANTS
    Ids,            \* object ids
    Absent,         \* no object, no tombstone
    MaxTimestamp    \* bound: no stamp beyond it is handed out

ASSUME ListAssumption == Absent \notin Nat /\ MaxTimestamp \in Nat

VARIABLES
    objects,        \* objects[i]: the last_modified of live object i
    tombstones,     \* tombstones[i]: the last_modified of its tombstone
    timestamp       \* the timestamp of the list, 0 when it has none yet

listVars == <<objects, tombstones, timestamp>>

Stamp == Nat \cup {Absent}

ListTypeOK ==
    /\ objects \in [Ids -> Stamp]
    /\ tombstones \in [Ids -> Stamp]
    /\ timestamp \in Nat

ListInit ==
    /\ objects = [i \in Ids |-> Absent]
    /\ tombstones = [i \in Ids |-> Absent]
    /\ timestamp = 0

Later(s) == s > timestamp /\ s <= MaxTimestamp

\* resource_timestamp() of a list that has none.
Stamped(s) ==
    /\ timestamp = 0
    /\ Later(s)
    /\ timestamp' = s
    /\ UNCHANGED <<objects, tombstones>>

\* create() of an object that does not exist, and update() of any.
Put(i, s) ==
    /\ Later(s)
    /\ timestamp' = s
    /\ objects' = [objects EXCEPT ![i] = s]
    /\ tombstones' = [tombstones EXCEPT ![i] = Absent]

\* delete(), delete_all() and trim_objects(): the live objects S are deleted
\* with different stamps, the last one of which is the list's.
DeleteEach(S, stamps, withDeleted) ==
    /\ S # {}
    /\ \A i \in S : objects[i] # Absent /\ Later(stamps[i]) /\ stamps[i] <= timestamp'
    /\ \A i, j \in S : i # j => stamps[i] # stamps[j]
    /\ \E i \in S : timestamp' = stamps[i]
    /\ objects' = [i \in Ids |-> IF i \in S THEN Absent ELSE objects[i]]
    /\ tombstones' = [i \in Ids |->
                         IF i \in S /\ withDeleted THEN stamps[i] ELSE tombstones[i]]

ListNext ==
    \/ \E s \in 1..MaxTimestamp : Stamped(s) \/ \E i \in Ids : Put(i, s)
    \/ \E S \in SUBSET Ids, withDeleted \in BOOLEAN :
          \E stamps \in [S -> 1..MaxTimestamp], last \in 1..MaxTimestamp :
             timestamp' = last /\ DeleteEach(S, stamps, withDeleted)

ListSpec == ListInit /\ [][ListNext]_listVars
=============================================================================
