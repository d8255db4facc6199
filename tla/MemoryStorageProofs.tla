------------------------ MODULE MemoryStorageProofs ------------------------
(***************************************************************************)
(* Proofs about MemoryStorage, for any set of parents, resources, objects, *)
(* patterns and forced stamps, and any bounds; and, from "Queries" on,     *)
(* about the filters, orders and pages of Queries, for any lists of        *)
(* objects, any queries, and any number of writes between their pages.     *)
(***************************************************************************)
EXTENDS MemoryStorageRefinement, Queries,
        FiniteSetTheorems, SequenceTheorems, WellFoundedInduction, TLAPS

(***************************************************************************)
(* Timestamps                                                              *)
(***************************************************************************)

\* What bump_timestamp guarantees for any input: the list timestamp never
\* goes back and covers the new stamp; an unforced stamp is beyond it.
LEMMA BumpLemma ==
    ASSUME NEW current \in Nat, NEW lm \in Stamp, NEW time \in Nat
    PROVE  LET b == BumpTimestamp(current, lm, time)
           IN /\ b.stamp \in Nat
              /\ b.resource \in Nat
              /\ b.resource >= current
              /\ b.resource >= b.stamp
              /\ lm = Absent => b.stamp > current /\ b.resource > current
              /\ b.resource = current => lm # Absent /\ b.stamp = lm /\ lm < current
  BY StorageAssumption DEF BumpTimestamp, Stamp

LEMMA ResourceTimestampType ==
    ASSUME ListsTypeOK, NEW k \in Slots
    PROVE  /\ ResourceTimestamp(k) \in Nat
           /\ timestamps[k] # Absent => ResourceTimestamp(k) = timestamps[k]
           /\ timestamps[k] = Absent => ResourceTimestamp(k) = 0
  BY StorageAssumption DEF ListsTypeOK, ResourceTimestamp, Stamp

LEMMA BumpInSlot ==
    ASSUME ListsTypeOK, NEW k \in Slots, NEW lm \in Stamp
    PROVE  /\ Bump(k, lm).stamp \in Nat
           /\ Bump(k, lm).resource \in Nat
           /\ Bump(k, lm).resource >= ResourceTimestamp(k)
           /\ Bump(k, lm).resource >= Bump(k, lm).stamp
           /\ lm = Absent => Bump(k, lm).stamp > ResourceTimestamp(k)
           /\ lm = Absent => Bump(k, lm).resource > ResourceTimestamp(k)
           /\ Bump(k, lm).resource = ResourceTimestamp(k)
                 => /\ lm # Absent
                    /\ Bump(k, lm).stamp = lm
                    /\ lm < ResourceTimestamp(k)
  <1>1. ResourceTimestamp(k) \in Nat
    BY ResourceTimestampType
  <1>2. now \in Nat
    BY DEF ListsTypeOK
  <1> QED
    BY <1>1, <1>2, BumpLemma DEF Bump

\* The stamps that one call hands out to the objects S of a slot are beyond
\* its list timestamp, at most the new one, and all different.
LEMMA StampsLemma ==
    ASSUME ListsTypeOK, NEW k \in Slots, NEW S \in SUBSET Ids, S # {},
           NEW order \in Bijection(Ids, 1..Cardinality(Ids))
    PROVE  /\ FirstStamp(k) \in Nat
           /\ FirstStamp(k) > ResourceTimestamp(k)
           /\ LastStamp(k, S) \in Nat
           /\ LastStamp(k, S) >= FirstStamp(k)
           /\ \A i \in S : /\ Nth(S, order, i) \in Nat
                           /\ Nth(S, order, i) >= 1
                           /\ FirstStamp(k) + Nth(S, order, i) - 1 <= LastStamp(k, S)
           /\ \A i, j \in S : i # j => Nth(S, order, i) # Nth(S, order, j)
  <1>1. IsFiniteSet(S) /\ Cardinality(S) \in Nat /\ Cardinality(S) >= 1
    <2>1. IsFiniteSet(S)
      BY FS_Subset, StorageAssumption
    <2>2. Cardinality(S) \in Nat
      BY <2>1, FS_CardinalityType
    <2>3. Cardinality(S) # 0
      BY <2>1, FS_EmptySet
    <2> QED
      BY <2>1, <2>2, <2>3
  <1>2. FirstStamp(k) \in Nat /\ FirstStamp(k) > ResourceTimestamp(k)
    BY BumpInSlot DEF FirstStamp, Stamp
  <1>3. /\ order \in [Ids -> 1..Cardinality(Ids)]
        /\ \A i, j \in Ids : order[i] = order[j] => i = j
    BY DEF Bijection, Injection, IsInjective
  <1>4. \A i \in Ids : order[i] \in Int
    BY <1>3
  <1> DEFINE Upto(i) == {j \in S : order[j] <= order[i]}
  <1> HIDE DEF Upto
  <1>5. ASSUME NEW i \in S
        PROVE  /\ IsFiniteSet(Upto(i))
               /\ Cardinality(Upto(i)) \in Nat
               /\ Cardinality(Upto(i)) <= Cardinality(S)
               /\ Cardinality(Upto(i)) >= 1
    <2>1. Upto(i) \in SUBSET S
      BY DEF Upto
    <2>2. IsFiniteSet(Upto(i)) /\ Cardinality(Upto(i)) <= Cardinality(S)
      BY <1>1, <2>1, FS_Subset
    <2>3. Cardinality(Upto(i)) \in Nat
      BY <2>2, FS_CardinalityType
    <2>4. i \in Upto(i)
      BY <1>4 DEF Upto
    <2>5. Cardinality(Upto(i)) # 0
      BY <2>2, <2>4, FS_EmptySet
    <2> QED
      BY <2>2, <2>3, <2>5
  <1>6. ASSUME NEW i \in S, NEW j \in S, order[i] < order[j]
        PROVE  Cardinality(Upto(i)) < Cardinality(Upto(j))
    <2>1. Upto(i) \in SUBSET Upto(j)
      BY <1>4, <1>6 DEF Upto
    <2>2. j \in Upto(j) /\ j \notin Upto(i)
      BY <1>4, <1>6 DEF Upto
    <2>3. Cardinality(Upto(i)) <= Cardinality(Upto(j))
      BY <1>5, <2>1, FS_Subset
    <2>4. Cardinality(Upto(i)) # Cardinality(Upto(j))
      BY <1>5, <2>1, <2>2, FS_Subset
    <2> QED
      BY <1>5, <2>3, <2>4
  <1>7. \A i, j \in S : i # j => Cardinality(Upto(i)) # Cardinality(Upto(j))
    <2> SUFFICES ASSUME NEW i \in S, NEW j \in S, i # j
                 PROVE  Cardinality(Upto(i)) # Cardinality(Upto(j))
      OBVIOUS
    <2>1. order[i] < order[j] \/ order[j] < order[i]
      BY <1>3, <1>4
    <2> QED
      BY <1>5, <1>6, <2>1
  <1>8. \A i \in S : Nth(S, order, i) = Cardinality(Upto(i))
    BY DEF Nth, Upto
  <1>9. LastStamp(k, S) = FirstStamp(k) + Cardinality(S) - 1
    BY DEF LastStamp
  <1> QED
    BY <1>1, <1>2, <1>5, <1>7, <1>8, <1>9

(***************************************************************************)
(* The inductive invariant: the type invariant, disjointness and coverage  *)
(* hold together because deletions stamp a tombstone where there was an    *)
(* object, and stamps are computed from the list timestamp.                *)
(***************************************************************************)
ListsInv == ListsTypeOK /\ LiveAndBuriedDisjoint /\ TimestampCovers

\* No object and no tombstone of slot k has a stamp beyond n.
AtMost(k, n) ==
    \A i \in Ids : /\ store[k][i] # Absent => store[k][i] <= n
                   /\ cemetery[k][i] # Absent => cemetery[k][i] <= n

\* The stamp that the open call was given: a forced one or one beyond what the
\* call read.  The list timestamp is the one that came with it, or a flush
\* took it away.
GivenStamp ==
    /\ call.stamp \in Nat
    /\ call.stamp \in Specified \/ call.stamp > call.current
    /\ timestamps[call.slot] # Absent =>
          /\ timestamps[call.slot] >= call.stamp
          /\ \/ timestamps[call.slot] > call.current
             \/ call.stamp \in Specified /\ call.stamp < call.current
    /\ call.slot \notin dropped => timestamps[call.slot] # Absent

\* What a call taken step by step knows stays true while flush() goes on
\* beside it: only a flush acts then, and it only takes away.
CallInv ==
    call # Absent =>
       /\ call.step # "begun" /\ call.slot \notin dropped => AtMost(call.slot, call.current)
       /\ call.step # "bumped" => call.stamp \in Specified \cup {Absent}
       /\ call.step = "bumped" => GivenStamp

Inv == ListsInv /\ call \in OpenCall \cup {Absent} /\ CallInv

LEMMA InitInv == Init => Inv
  BY StorageAssumption
     DEF Init, Inv, ListsInv, ListsTypeOK, Stamp, LiveAndBuriedDisjoint, TimestampCovers, Covers, CallInv

LEMMA PutInv ==
    ASSUME ListsInv, NEW k \in Slots, NEW i \in Ids, NEW lm \in Stamp, Put(k, i, lm)
    PROVE  ListsInv'
  <1> DEFINE b == Bump(k, lm)
  <1>1. /\ ListsTypeOK
        /\ LiveAndBuriedDisjoint
        /\ TimestampCovers
    BY DEF ListsInv
  <1>2. /\ b.stamp \in Nat
        /\ b.resource \in Nat
        /\ b.resource >= ResourceTimestamp(k)
        /\ b.resource >= b.stamp
    BY <1>1, BumpInSlot
  <1>3. /\ timestamps' = [timestamps EXCEPT ![k] = b.resource]
        /\ knownParents' = knownParents \cup {k[1]}
        /\ store' = [store EXCEPT ![k][i] = b.stamp]
        /\ cemetery' = [cemetery EXCEPT ![k][i] = Absent]
        /\ now' = now /\ flushing' = flushing /\ dropped' = dropped
    BY DEF Put, StoreTimestamp
  <1>4. timestamps[k] # Absent => timestamps[k] = ResourceTimestamp(k)
    BY <1>1, ResourceTimestampType
  <1> HIDE DEF b
  <1>5. ListsTypeOK'
    <2>1. k[1] \in Parents
      BY DEF Slots
    <2> QED
      BY <1>1, <1>2, <1>3, <2>1 DEF ListsTypeOK, Stamp
  <1>6. LiveAndBuriedDisjoint'
    BY <1>1, <1>3 DEF LiveAndBuriedDisjoint, ListsTypeOK
  <1>7. TimestampCovers'
    <2> SUFFICES ASSUME NEW l \in Slots, l \notin dropped, NEW j \in Ids
                 PROVE  Covers(l, store[l][j])' /\ Covers(l, cemetery[l][j])'
      BY <1>3 DEF TimestampCovers
    <2>1. Covers(l, store[l][j]) /\ Covers(l, cemetery[l][j])
      BY <1>1 DEF TimestampCovers
    <2>2. CASE l = k
      BY <1>1, <1>2, <1>3, <1>4, <2>1, <2>2, StorageAssumption
         DEF Covers, ListsTypeOK, Stamp
    <2>3. CASE l # k
      BY <1>1, <1>3, <2>1, <2>3 DEF Covers, ListsTypeOK
    <2> QED
      BY <2>2, <2>3
  <1> QED
    BY <1>5, <1>6, <1>7 DEF ListsInv

LEMMA DeleteInv ==
    ASSUME ListsInv, NEW k \in Slots, NEW i \in Ids, NEW withDeleted \in BOOLEAN,
           NEW lm \in Stamp, Delete(k, i, withDeleted, lm)
    PROVE  ListsInv'
  <1> DEFINE b == Bump(k, lm)
  <1>1. /\ ListsTypeOK
        /\ LiveAndBuriedDisjoint
        /\ TimestampCovers
    BY DEF ListsInv
  <1>2. /\ b.stamp \in Nat
        /\ b.resource \in Nat
        /\ b.resource >= ResourceTimestamp(k)
        /\ b.resource >= b.stamp
    BY <1>1, BumpInSlot
  <1>3. /\ timestamps' = [timestamps EXCEPT ![k] = b.resource]
        /\ knownParents' = knownParents \cup {k[1]}
        /\ store' = [store EXCEPT ![k][i] = Absent]
        /\ cemetery' = IF withDeleted THEN [cemetery EXCEPT ![k][i] = b.stamp]
                                      ELSE cemetery
        /\ now' = now /\ flushing' = flushing /\ dropped' = dropped
    BY DEF Delete, StoreTimestamp
  <1>4. timestamps[k] # Absent => timestamps[k] = ResourceTimestamp(k)
    BY <1>1, ResourceTimestampType
  <1> HIDE DEF b
  <1>5. ListsTypeOK'
    <2>1. k[1] \in Parents
      BY DEF Slots
    <2> QED
      BY <1>1, <1>2, <1>3, <2>1 DEF ListsTypeOK, Stamp
  <1>6. LiveAndBuriedDisjoint'
    BY <1>1, <1>3 DEF LiveAndBuriedDisjoint, ListsTypeOK
  <1>7. TimestampCovers'
    <2> SUFFICES ASSUME NEW l \in Slots, l \notin dropped, NEW j \in Ids
                 PROVE  Covers(l, store[l][j])' /\ Covers(l, cemetery[l][j])'
      BY <1>3 DEF TimestampCovers
    <2>1. Covers(l, store[l][j]) /\ Covers(l, cemetery[l][j])
      BY <1>1 DEF TimestampCovers
    <2>2. CASE l = k
      BY <1>1, <1>2, <1>3, <1>4, <2>1, <2>2, StorageAssumption
         DEF Covers, ListsTypeOK, Stamp
    <2>3. CASE l # k
      BY <1>1, <1>3, <2>1, <2>3 DEF Covers, ListsTypeOK
    <2> QED
      BY <2>2, <2>3
  <1> QED
    BY <1>5, <1>6, <1>7 DEF ListsInv

LEMMA InitTimestampInv ==
    ASSUME ListsInv, NEW k \in Slots, InitTimestamp(k)
    PROVE  ListsInv'
  <1>1. ListsTypeOK /\ LiveAndBuriedDisjoint /\ TimestampCovers
    BY DEF ListsInv
  <1>2. Bump(k, Absent).resource \in Nat
    BY <1>1, BumpInSlot DEF Stamp
  <1>3. /\ timestamps[k] = Absent
        /\ timestamps' = [timestamps EXCEPT ![k] = Bump(k, Absent).resource]
        /\ knownParents' = knownParents \cup {k[1]}
        /\ UNCHANGED <<store, cemetery, now, flushing, dropped>>
    BY DEF InitTimestamp, StoreTimestamp
  <1>4. ListsTypeOK'
    <2>1. k[1] \in Parents
      BY DEF Slots
    <2> QED
      BY <1>1, <1>2, <1>3, <2>1 DEF ListsTypeOK, Stamp
  <1>5. LiveAndBuriedDisjoint'
    BY <1>1, <1>3 DEF LiveAndBuriedDisjoint
  <1>6. TimestampCovers'
    BY <1>1, <1>2, <1>3, StorageAssumption DEF TimestampCovers, Covers, ListsTypeOK, Stamp
  <1> QED
    BY <1>4, <1>5, <1>6 DEF ListsInv

\* delete_all and trim_objects: every stamp they hand out is at most the list
\* timestamp that they leave behind.
LEMMA DeleteEachInv ==
    ASSUME ListsInv, NEW sel \in [Slots -> SUBSET Ids], NEW order \in Orders,
           NEW withDeleted \in BOOLEAN, DeleteEach(sel, order, withDeleted)
    PROVE  ListsInv'
  <1>1. ListsTypeOK /\ LiveAndBuriedDisjoint /\ TimestampCovers
    BY DEF ListsInv
  <1> DEFINE stamp(k, i) == FirstStamp(k) + Nth(sel[k], order[k], i) - 1
  <1>2. ASSUME NEW k \in Slots, sel[k] # {}
        PROVE  /\ LastStamp(k, sel[k]) \in Nat
               /\ LastStamp(k, sel[k]) >= ResourceTimestamp(k)
               /\ \A i \in sel[k] : /\ stamp(k, i) \in Nat
                                    /\ stamp(k, i) <= LastStamp(k, sel[k])
    <2>1. order[k] \in Bijection(Ids, 1..Cardinality(Ids))
      BY DEF Orders
    <2>2. ResourceTimestamp(k) \in Nat
      BY <1>1, ResourceTimestampType
    <2> QED
      BY <1>1, <1>2, <2>1, <2>2, StampsLemma
  <1> HIDE DEF stamp
  <1>3. /\ store' = [k \in Slots |-> [i \in Ids |->
                        IF i \in sel[k] THEN Absent ELSE store[k][i]]]
        /\ cemetery' = [k \in Slots |-> [i \in Ids |->
                        IF i \in sel[k] /\ withDeleted THEN stamp(k, i) ELSE cemetery[k][i]]]
        /\ timestamps' = [k \in Slots |->
                        IF sel[k] = {} THEN timestamps[k] ELSE LastStamp(k, sel[k])]
        /\ UNCHANGED <<now, flushing, dropped>>
    BY DEF DeleteEach, stamp
  <1>4. knownParents' \in SUBSET Parents
    BY <1>1 DEF DeleteEach, ListsTypeOK
  <1>5. ListsTypeOK'
    <2>1. store' \in [Slots -> [Ids -> Stamp]]
      BY <1>1, <1>3 DEF ListsTypeOK, Stamp
    <2>2. cemetery' \in [Slots -> [Ids -> Stamp]]
      <3> SUFFICES ASSUME NEW k \in Slots, NEW i \in Ids
                   PROVE  (IF i \in sel[k] /\ withDeleted THEN stamp(k, i)
                                                          ELSE cemetery[k][i]) \in Stamp
        BY <1>3
      <3> QED
        BY <1>1, <1>2 DEF ListsTypeOK, Stamp
    <2>3. timestamps' \in [Slots -> Stamp]
      BY <1>1, <1>2, <1>3 DEF ListsTypeOK, Stamp
    <2> QED
      BY <1>1, <1>3, <1>4, <2>1, <2>2, <2>3 DEF ListsTypeOK
  <1>6. LiveAndBuriedDisjoint'
    BY <1>1, <1>3 DEF LiveAndBuriedDisjoint
  <1>7. TimestampCovers'
    <2> SUFFICES ASSUME NEW k \in Slots, k \notin dropped, NEW i \in Ids
                 PROVE  Covers(k, store[k][i])' /\ Covers(k, cemetery[k][i])'
      BY <1>3 DEF TimestampCovers
    <2>1. Covers(k, store[k][i]) /\ Covers(k, cemetery[k][i])
      BY <1>1 DEF TimestampCovers
    <2>2. CASE sel[k] = {}
      BY <1>3, <2>1, <2>2 DEF Covers
    <2>3. CASE sel[k] # {}
      <3>1. timestamps'[k] = LastStamp(k, sel[k]) /\ timestamps'[k] \in Nat
        BY <1>2, <1>3, <2>3
      <3>2. timestamps[k] # Absent => timestamps[k] \in Nat /\ timestamps'[k] >= timestamps[k]
        BY <1>1, <1>2, <2>3, <3>1, ResourceTimestampType DEF ListsTypeOK, Stamp
      <3>3. store[k][i] \in Stamp /\ cemetery[k][i] \in Stamp
        BY <1>1 DEF ListsTypeOK
      <3>4. store'[k][i] = Absent \/ store'[k][i] = store[k][i]
        BY <1>3
      <3>5. \/ cemetery'[k][i] = cemetery[k][i]
            \/ cemetery'[k][i] \in Nat /\ cemetery'[k][i] <= timestamps'[k]
        BY <1>2, <1>3, <2>3, <3>1
      <3> QED
        BY <2>1, <3>1, <3>2, <3>3, <3>4, <3>5, StorageAssumption DEF Covers, Stamp
    <2> QED
      BY <2>2, <2>3
  <1> QED
    BY <1>5, <1>6, <1>7 DEF ListsInv

\* purge_deleted: a slot that loses its list timestamp is either empty or
\* recorded in dropped.
LEMMA ForgetInv ==
    ASSUME ListsInv, NEW lost \in SUBSET Slots, NEW purged \in SUBSET Slots,
           NEW kept \in [Slots -> SUBSET Ids], Forget(lost, purged, kept),
           knownParents' \in SUBSET Parents, flushing' \in [1..2 -> Nat]
    PROVE  ListsInv'
  <1>1. ListsTypeOK /\ LiveAndBuriedDisjoint /\ TimestampCovers
    BY DEF ListsInv
  <1>2. /\ timestamps' = [k \in Slots |-> IF k \in lost THEN Absent ELSE timestamps[k]]
        /\ cemetery' = [k \in Slots |-> [i \in Ids |->
                          IF k \in purged /\ i \notin kept[k] THEN Absent ELSE cemetery[k][i]]]
        /\ dropped' = (dropped \ lost) \cup
               {k \in lost : \E i \in Ids : store[k][i] # Absent \/ cemetery'[k][i] # Absent}
        /\ UNCHANGED <<store, now>>
    BY DEF Forget
  <1>3. ListsTypeOK'
    BY <1>1, <1>2 DEF ListsTypeOK, Stamp
  <1>4. LiveAndBuriedDisjoint'
    BY <1>1, <1>2 DEF LiveAndBuriedDisjoint
  <1>5. TimestampCovers'
    <2> SUFFICES ASSUME NEW k \in Slots, k \notin dropped', NEW i \in Ids
                 PROVE  Covers(k, store[k][i])' /\ Covers(k, cemetery[k][i])'
      BY DEF TimestampCovers
    <2>1. CASE k \in lost
      BY <1>2, <2>1 DEF Covers
    <2>2. CASE k \notin lost
      <3>1. k \notin dropped /\ timestamps'[k] = timestamps[k]
        BY <1>2, <2>2
      <3>2. Covers(k, store[k][i]) /\ Covers(k, cemetery[k][i])
        BY <1>1, <3>1 DEF TimestampCovers
      <3> QED
        BY <1>2, <3>1, <3>2 DEF Covers
    <2> QED
      BY <2>1, <2>2
  <1> QED
    BY <1>3, <1>4, <1>5 DEF ListsInv

LEMMA FlushCounts ==
    ASSUME ListsTypeOK, NEW n \in 1..2, FlushAssigns(n)
    PROVE  flushing' \in [1..2 -> Nat]
  <1>1. flushing \in [1..2 -> Nat]
    BY DEF ListsTypeOK
  <1> QED
    BY <1>1 DEF FlushAssigns

\* The slots that purge_deleted goes through, whether or not a flush replaces
\* the cemetery meanwhile.
LEMMA PurgeSlotsInv ==
    ASSUME ListsInv, NEW purged \in SUBSET Slots, NEW kept \in [Slots -> SUBSET Ids],
           NEW rule, NEW n, PurgeSlots(purged, kept, rule, n), knownParents' \in SUBSET Parents
    PROVE  ListsInv'
  <1> DEFINE lost == {k \in purged : k[1] \in knownParents}
  <1>1. lost \in SUBSET Slots /\ Slots \in SUBSET Slots
    OBVIOUS
  <1>2. ListsTypeOK /\ flushing \in [1..2 -> Nat]
    BY DEF ListsInv, ListsTypeOK
  <1>3. flushing' \in [1..2 -> Nat]
    BY <1>2, FlushCounts DEF PurgeSlots
  <1>4. Forget(lost, purged, kept) \/ Forget(lost, Slots, kept)
    BY DEF PurgeSlots
  <1> HIDE DEF lost
  <1> QED
    BY <1>1, <1>3, <1>4, ForgetInv

LEMMA FlushInv ==
    ASSUME ListsInv, Storing \in SUBSET Slots, Flushing
    PROVE  ListsInv'
  <1>1. ListsTypeOK /\ LiveAndBuriedDisjoint /\ TimestampCovers
    BY DEF ListsInv
  <1>2. CASE FlushStore
    <2>1. flushing' \in [1..2 -> Nat]
      <3>1. flushing \in [1..2 -> Nat] /\ flushing[1] + 1 \in Nat
        BY <1>1 DEF ListsTypeOK
      <3> QED
        BY <1>2, <3>1 DEF FlushStore
    <2>2. ListsTypeOK'
      BY <1>1, <1>2, <2>1 DEF FlushStore, ListsTypeOK, Stamp
    <2> QED
      BY <1>1, <1>2, <2>2 DEF FlushStore, ListsInv, LiveAndBuriedDisjoint, TimestampCovers, Covers
  <1>3. CASE FlushCemetery
    <2>1. ListsTypeOK'
      BY <1>1, <1>3, FlushCounts DEF FlushCemetery, ListsTypeOK, Stamp
    <2> QED
      BY <1>1, <1>3, <2>1 DEF FlushCemetery, ListsInv, LiveAndBuriedDisjoint, TimestampCovers, Covers
  <1>4. CASE FlushTimestamps
    <2>1. ListsTypeOK'
      <3>1. flushing' \in [1..2 -> Nat]
        BY <1>1, <1>4, FlushCounts DEF FlushTimestamps
      <3>2. knownParents' \in SUBSET Parents
        BY <1>1, <1>4 DEF FlushTimestamps, ListsTypeOK
      <3>3. dropped' \in SUBSET Slots
        BY <1>4 DEF FlushTimestamps
      <3> QED
        BY <1>1, <1>4, <3>1, <3>2, <3>3 DEF FlushTimestamps, ListsTypeOK, Stamp
    <2>2. LiveAndBuriedDisjoint'
      BY <1>1, <1>4 DEF FlushTimestamps, LiveAndBuriedDisjoint
    <2>3. TimestampCovers'
      BY <1>4 DEF FlushTimestamps, TimestampCovers, Covers, Live, Buried
    <2> QED
      BY <2>1, <2>2, <2>3 DEF ListsInv
  <1> QED
    BY <1>2, <1>3, <1>4 DEF Flushing

\* A flush takes nothing from what the open call knows, except the list
\* timestamp of a list that is then left out.
LEMMA FlushCallInv ==
    ASSUME Inv, Flushing
    PROVE  CallInv'
  <1> USE DEF Inv
  <1>1. call' = call
    BY DEF Flushing, FlushStore, FlushCemetery, FlushTimestamps
  <1> SUFFICES ASSUME call # Absent
               PROVE  /\ call.step # "begun" /\ call.slot \notin dropped' => AtMost(call.slot, call.current)'
                      /\ call.step = "bumped" => GivenStamp'
    BY <1>1 DEF CallInv
  <1>2. call \in OpenCall /\ call.slot \in Slots
    BY DEF OpenCall
  <1>3. CASE FlushStore \/ FlushCemetery
    <2>1. UNCHANGED <<timestamps, dropped>>
      BY <1>3 DEF FlushStore, FlushCemetery
    <2>2. \A k \in Slots, i \in Ids : /\ store'[k][i] \in {Absent, store[k][i]}
                                     /\ cemetery'[k][i] \in {Absent, cemetery[k][i]}
      BY <1>3 DEF FlushStore, FlushCemetery
    <2>3. AtMost(call.slot, call.current) => AtMost(call.slot, call.current)'
      <3> DEFINE k == call.slot
                 n == call.current
      <3>1. k \in Slots /\ k' = k /\ n' = n
        BY <1>1, <1>2
      <3> SUFFICES ASSUME AtMost(k, n)
                   PROVE  AtMost(k, n)'
        OBVIOUS
      <3> HIDE DEF k, n
      <3>2. ASSUME NEW i \in Ids
            PROVE  /\ store'[k][i] # Absent => store'[k][i] <= n
                   /\ cemetery'[k][i] # Absent => cemetery'[k][i] <= n
        BY <2>2, <3>1 DEF AtMost
      <3> QED
        BY <3>1, <3>2 DEF AtMost
    <2>4. GivenStamp => GivenStamp'
      BY <1>1, <2>1 DEF GivenStamp
    <2> QED
      BY <2>1, <2>3, <2>4 DEF CallInv
  <1>4. CASE FlushTimestamps
    <2>1. /\ UNCHANGED <<store, cemetery>>
          /\ timestamps'[call.slot] = Absent
          /\ dropped' = {k \in Slots : Live(k) \cup Buried(k) # {}} \cup Storing
      BY <1>2, <1>4 DEF FlushTimestamps
    <2>2. call.slot \notin dropped' => AtMost(call.slot, call.current)'
      BY <1>1, <1>2, <2>1 DEF AtMost, Live, Buried
    <2>3. call.step = "bumped" => call.slot \in dropped'
      BY <2>1 DEF Storing
    <2>4. call.step = "bumped" => GivenStamp'
      BY <1>1, <2>1, <2>3 DEF CallInv, GivenStamp
    <2> QED
      BY <2>2, <2>4
  <1> QED
    BY <1>3, <1>4 DEF Flushing

\* The first step of a call changes nothing.
LEMMA BeginCallInv ==
    ASSUME Inv, NEW op \in {"put", "bury", "remove", "stamp"}, NEW k \in Slots, NEW i \in Ids,
           NEW lm \in Specified \cup {Absent}, BeginCall(op, k, i, lm)
    PROVE  Inv'
  <1>1. call' = [op |-> op, step |-> "begun", slot |-> k, id |-> i, current |-> 0, stamp |-> lm]
    BY DEF BeginCall
  <1>2. UNCHANGED <<store, cemetery, timestamps, knownParents, now, flushing, dropped>>
    BY DEF BeginCall
  <1>3. call' \in OpenCall
    BY <1>1, StorageAssumption DEF OpenCall, Stamp
  <1>4. CallInv'
    BY <1>1 DEF CallInv
  <1>5. ListsInv'
    BY <1>2 DEF Inv, ListsInv, ListsTypeOK, LiveAndBuriedDisjoint, TimestampCovers, Covers
  <1> QED
    BY <1>3, <1>4, <1>5 DEF Inv

\* The timestamp of a list that was not left out covers its entries.
LEMMA CoversAtMost ==
    ASSUME ListsInv, NEW k \in Slots, k \notin dropped
    PROVE  AtMost(k, ResourceTimestamp(k))
  BY DEF ListsInv, TimestampCovers, Covers, AtMost, ResourceTimestamp

LEMMA ReadTimestampInv ==
    ASSUME Inv, ReadTimestamp
    PROVE  Inv'
  <1>1. call \in OpenCall /\ call.slot \in Slots /\ call.slot[1] \in Parents
    BY DEF Inv, ReadTimestamp, OpenCall, Slots
  <1>2. /\ call' = [call EXCEPT !.step = "read", !.current = ResourceTimestamp(call.slot)]
        /\ knownParents' = knownParents \cup {call.slot[1]}
        /\ UNCHANGED <<store, cemetery, timestamps, now, flushing, dropped>>
    BY DEF ReadTimestamp
  <1>3. ResourceTimestamp(call.slot) \in Nat
    BY <1>1, ResourceTimestampType DEF Inv, ListsInv
  <1>4. call' \in OpenCall
    BY <1>1, <1>2, <1>3 DEF OpenCall
  <1>5. /\ call'.slot = call.slot /\ call'.step = "read" /\ call'.stamp = call.stamp
        /\ call'.current = ResourceTimestamp(call.slot)
    BY <1>1, <1>2 DEF OpenCall
  <1>6. call.slot \notin dropped => AtMost(call.slot, ResourceTimestamp(call.slot))
    BY <1>1, CoversAtMost DEF Inv
  <1>7. call.slot \notin dropped' => AtMost(call.slot, call.current)'
    BY <1>2, <1>5, <1>6 DEF AtMost
  <1>8. call.stamp \in Specified \cup {Absent}
    BY DEF Inv, CallInv, ReadTimestamp
  <1>9. CallInv'
    BY <1>5, <1>7, <1>8 DEF CallInv
  <1>10. ListsInv'
    BY <1>1, <1>2 DEF Inv, ListsInv, ListsTypeOK, LiveAndBuriedDisjoint, TimestampCovers, Covers
  <1> QED
    BY <1>4, <1>9, <1>10 DEF Inv

\* What the step that writes the list timestamp does.
LEMMA WriteTimestampDoes ==
    ASSUME Inv, WriteTimestamp
    PROVE  LET b == BumpTimestamp(call.current, call.stamp, now)
           IN /\ call \in OpenCall /\ call.slot \in Slots /\ call.slot[1] \in Parents
              /\ call.current \in Nat
              /\ b.stamp \in Nat /\ b.resource \in Nat
              /\ b.resource >= b.stamp /\ b.resource >= call.current
              /\ b.stamp \in Specified \/ b.stamp > call.current
              /\ b.resource > call.current \/ (b.stamp \in Specified /\ b.stamp < call.current)
              /\ timestamps' = [timestamps EXCEPT ![call.slot] = b.resource]
              /\ knownParents' = knownParents \cup {call.slot[1]}
              /\ UNCHANGED <<store, cemetery, now, flushing, dropped>>
              /\ call' = IF call.op = "stamp" THEN Absent
                         ELSE [call EXCEPT !.step = "bumped", !.stamp = b.stamp]
              /\ call.slot \notin dropped => AtMost(call.slot, call.current)
  <1> DEFINE b == BumpTimestamp(call.current, call.stamp, now)
  <1>1. call # Absent /\ call.step = "read"
    BY DEF WriteTimestamp
  <1>2. /\ call \in OpenCall /\ call.slot \in Slots /\ call.slot[1] \in Parents
        /\ call.current \in Nat
    BY <1>1 DEF Inv, OpenCall, Slots
  <1>3. now \in Nat
    BY DEF Inv, ListsInv, ListsTypeOK
  <1>4. call.stamp \in Specified \cup {Absent}
    BY <1>1 DEF Inv, CallInv
  <1>5. call.stamp \in Stamp
    BY <1>4, StorageAssumption DEF Stamp
  <1>6. /\ b.stamp \in Nat
        /\ b.resource \in Nat
        /\ b.resource >= call.current
        /\ b.resource >= b.stamp
        /\ call.stamp = Absent => b.stamp > call.current /\ b.resource > call.current
        /\ b.resource = call.current => call.stamp # Absent /\ b.stamp = call.stamp /\ call.stamp < call.current
    BY <1>2, <1>3, <1>5, BumpLemma
  <1>7. b.stamp \in Specified \/ b.stamp > call.current
    <2>1. CASE call.stamp = Absent
      BY <1>6, <2>1
    <2>2. CASE call.stamp # Absent
      <3>1. call.stamp \in Specified
        BY <1>4, <2>2
      <3>2. b.stamp = IF call.stamp = call.current THEN call.current + 1 ELSE call.stamp
        BY <2>2 DEF BumpTimestamp
      <3> QED
        BY <1>2, <3>1, <3>2
    <2> QED
      BY <2>1, <2>2
  <1>8. b.resource > call.current \/ (b.stamp \in Specified /\ b.stamp < call.current)
    BY <1>2, <1>4, <1>6
  <1>9. /\ timestamps' = [timestamps EXCEPT ![call.slot] = b.resource]
        /\ knownParents' = knownParents \cup {call.slot[1]}
        /\ UNCHANGED <<store, cemetery, now, flushing, dropped>>
        /\ call' = IF call.op = "stamp" THEN Absent
                   ELSE [call EXCEPT !.step = "bumped", !.stamp = b.stamp]
    BY DEF WriteTimestamp, StoreTimestamp
  <1>10. call.slot \notin dropped => AtMost(call.slot, call.current)
    BY <1>1 DEF Inv, CallInv
  <1> HIDE DEF b
  <1> QED
    BY <1>2, <1>6, <1>7, <1>8, <1>9, <1>10 DEF b

LEMMA WriteTimestampInv ==
    ASSUME Inv, WriteTimestamp
    PROVE  Inv'
  <1> DEFINE b == BumpTimestamp(call.current, call.stamp, now)
  <1>1. /\ call \in OpenCall /\ call.slot \in Slots /\ call.slot[1] \in Parents
        /\ call.current \in Nat
        /\ b.stamp \in Nat /\ b.resource \in Nat
        /\ b.resource >= b.stamp /\ b.resource >= call.current
        /\ b.stamp \in Specified \/ b.stamp > call.current
        /\ b.resource > call.current \/ (b.stamp \in Specified /\ b.stamp < call.current)
        /\ timestamps' = [timestamps EXCEPT ![call.slot] = b.resource]
        /\ knownParents' = knownParents \cup {call.slot[1]}
        /\ UNCHANGED <<store, cemetery, now, flushing, dropped>>
        /\ call' = IF call.op = "stamp" THEN Absent
                   ELSE [call EXCEPT !.step = "bumped", !.stamp = b.stamp]
        /\ call.slot \notin dropped => AtMost(call.slot, call.current)
    BY WriteTimestampDoes
  <1> HIDE DEF b
  <1>2. ListsTypeOK /\ LiveAndBuriedDisjoint /\ TimestampCovers
    BY DEF Inv, ListsInv
  <1>3. timestamps'[call.slot] = b.resource
    BY <1>1, <1>2 DEF ListsTypeOK
  <1>4. ListsTypeOK'
    BY <1>1, <1>2 DEF ListsTypeOK, Stamp
  <1>5. LiveAndBuriedDisjoint'
    BY <1>1, <1>2 DEF LiveAndBuriedDisjoint
  <1>6. TimestampCovers'
    <2> SUFFICES ASSUME NEW l \in Slots, l \notin dropped, NEW j \in Ids
                 PROVE  Covers(l, store[l][j])' /\ Covers(l, cemetery[l][j])'
      BY <1>1 DEF TimestampCovers
    <2>1. Covers(l, store[l][j]) /\ Covers(l, cemetery[l][j])
      BY <1>2 DEF TimestampCovers
    <2>2. CASE l # call.slot
      BY <1>1, <1>2, <2>1, <2>2 DEF Covers, ListsTypeOK
    <2>3. CASE l = call.slot
      <3>1. /\ store[l][j] # Absent => store[l][j] <= call.current
            /\ cemetery[l][j] # Absent => cemetery[l][j] <= call.current
        <4>1. AtMost(l, call.current)
          BY <1>1, <2>3
        <4> QED
          BY <4>1 DEF AtMost
      <3>2. store[l][j] \in Stamp /\ cemetery[l][j] \in Stamp
        BY <1>2 DEF ListsTypeOK
      <3>3. timestamps'[l] # Absent /\ timestamps'[l] = b.resource
        BY <1>1, <1>3, <2>3, StorageAssumption
      <3> QED
        BY <1>1, <3>1, <3>2, <3>3 DEF Covers, Stamp
    <2> QED
      BY <2>2, <2>3
  <1>7. CASE call.op = "stamp"
    <2>1. call' = Absent
      BY <1>1, <1>7
    <2> QED
      BY <1>4, <1>5, <1>6, <2>1 DEF Inv, ListsInv, CallInv
  <1>8. CASE call.op # "stamp"
    <2>1. call' = [call EXCEPT !.step = "bumped", !.stamp = b.stamp]
      BY <1>1, <1>8
    <2>2. call' \in OpenCall
      BY <1>1, <2>1 DEF OpenCall, Stamp
    <2>3. /\ call'.slot = call.slot /\ call'.step = "bumped" /\ call'.stamp = b.stamp
          /\ call'.current = call.current
      BY <1>1, <2>1 DEF OpenCall
    <2>4. call.slot \notin dropped' => AtMost(call.slot, call.current)'
      BY <1>1, <2>3 DEF AtMost
    <2>5. GivenStamp'
      BY <1>1, <1>3, <2>3, StorageAssumption DEF GivenStamp
    <2>6. CallInv'
      BY <2>3, <2>4, <2>5 DEF CallInv
    <2> QED
      BY <1>4, <1>5, <1>6, <2>2, <2>6 DEF Inv, ListsInv
  <1> QED
    BY <1>7, <1>8

LEMMA ChangeObjectInv ==
    ASSUME Inv, ChangeObject
    PROVE  Inv'
  <1> DEFINE k == call.slot
             i == call.id
             s == call.stamp
  <1>1. /\ call \in OpenCall /\ k \in Slots /\ i \in Ids
        /\ GivenStamp
    BY DEF Inv, CallInv, ChangeObject, OpenCall
  <1>2. /\ \/ /\ store' = [store EXCEPT ![k][i] = s]
              /\ cemetery' = [cemetery EXCEPT ![k][i] = Absent]
           \/ /\ store' = [store EXCEPT ![k][i] = Absent]
              /\ cemetery' = [cemetery EXCEPT ![k][i] = s] \/ cemetery' = cemetery
        /\ UNCHANGED <<timestamps, knownParents, now, flushing, dropped>>
        /\ call' = Absent
    BY DEF ChangeObject
  <1>3. ListsTypeOK /\ LiveAndBuriedDisjoint /\ TimestampCovers
    BY DEF Inv, ListsInv
  <1>4. /\ s \in Nat
        /\ k \notin dropped => timestamps[k] # Absent /\ timestamps[k] >= s
    BY <1>1 DEF GivenStamp
  <1> HIDE DEF k, i, s
  <1>5. ListsTypeOK'
    <2>1. s \in Stamp /\ Absent \in Stamp
      BY <1>4 DEF Stamp
    <2>2. store \in [Slots -> [Ids -> Stamp]] /\ cemetery \in [Slots -> [Ids -> Stamp]]
      BY <1>3 DEF ListsTypeOK
    <2> DEFINE Set(f, v) == [f EXCEPT ![k][i] = v]
    <2>3. ASSUME NEW f \in [Slots -> [Ids -> Stamp]], NEW v \in Stamp
          PROVE  Set(f, v) \in [Slots -> [Ids -> Stamp]]
      BY <1>1, <2>3
    <2>4. /\ store' = Set(store, s) \/ store' = Set(store, Absent)
          /\ \/ cemetery' = Set(cemetery, s)
             \/ cemetery' = Set(cemetery, Absent)
             \/ cemetery' = cemetery
      BY <1>2
    <2> HIDE DEF Set
    <2>5. store' \in [Slots -> [Ids -> Stamp]]
      BY <2>1, <2>2, <2>3, <2>4
    <2>6. cemetery' \in [Slots -> [Ids -> Stamp]]
      BY <2>1, <2>2, <2>3, <2>4
    <2> QED
      BY <1>2, <1>3, <2>5, <2>6 DEF ListsTypeOK
  <1>6. LiveAndBuriedDisjoint'
    <2> SUFFICES ASSUME NEW l \in Slots, NEW j \in Ids
                 PROVE  store'[l][j] = Absent \/ cemetery'[l][j] = Absent
      BY DEF LiveAndBuriedDisjoint
    <2>1. store[l][j] = Absent \/ cemetery[l][j] = Absent
      BY <1>3 DEF LiveAndBuriedDisjoint
    <2>2. /\ store \in [Slots -> [Ids -> Stamp]] /\ cemetery \in [Slots -> [Ids -> Stamp]]
      BY <1>3 DEF ListsTypeOK
    <2>3. CASE l = k /\ j = i
      BY <1>1, <1>2, <2>1, <2>2, <2>3
    <2>4. CASE ~(l = k /\ j = i)
      BY <1>1, <1>2, <2>1, <2>2, <2>4
    <2> QED
      BY <2>3, <2>4
  <1>7. TimestampCovers'
    <2> SUFFICES ASSUME NEW l \in Slots, l \notin dropped, NEW j \in Ids
                 PROVE  Covers(l, store[l][j])' /\ Covers(l, cemetery[l][j])'
      BY <1>2 DEF TimestampCovers
    <2>1. Covers(l, store[l][j]) /\ Covers(l, cemetery[l][j])
      BY <1>3 DEF TimestampCovers
    <2>2. /\ store'[l][j] \in {Absent, store[l][j]} \/ (l = k /\ store'[l][j] = s)
          /\ cemetery'[l][j] \in {Absent, cemetery[l][j]} \/ (l = k /\ cemetery'[l][j] = s)
      BY <1>1, <1>2, <1>3 DEF ListsTypeOK
    <2>3. l = k => timestamps[l] # Absent /\ timestamps[l] >= s
      BY <1>4
    <2>4. timestamps' = timestamps
      BY <1>2
    <2> QED
      BY <2>1, <2>2, <2>3, <2>4 DEF Covers
  <1> QED
    BY <1>2, <1>5, <1>6, <1>7 DEF Inv, ListsInv, CallInv

\* Whole calls, and purges, leave the lists well formed.
LEMMA CallsListsInv == ListsInv /\ (Calls \/ Forgetting) => ListsInv'
  <1> SUFFICES ASSUME ListsInv, Calls \/ Forgetting
               PROVE  ListsInv'
    OBVIOUS
  <1>1. Specified \cup {Absent} \subseteq Stamp
    BY StorageAssumption DEF Stamp
  <1>2. ASSUME NEW k \in Slots, InitTimestamp(k)
        PROVE  ListsInv'
    BY <1>2, InitTimestampInv
  <1>3. ASSUME NEW k \in Slots, NEW i \in Ids, NEW lm \in Specified \cup {Absent},
               Create(k, i, lm) \/ Update(k, i, lm)
        PROVE  ListsInv'
    BY <1>1, <1>3, PutInv DEF Create, Update
  <1>4. ASSUME NEW k \in Slots, NEW i \in Ids, NEW lm \in Specified \cup {Absent},
               NEW withDeleted \in BOOLEAN, Delete(k, i, withDeleted, lm)
        PROVE  ListsInv'
    BY <1>1, <1>4, DeleteInv
  <1>5. ASSUME NEW p \in Patterns, NEW R, NEW sel \in [Slots -> SUBSET Ids],
               NEW order \in Orders, NEW withDeleted \in BOOLEAN,
               DeleteAll(p, R, sel, order, withDeleted)
        PROVE  ListsInv'
    BY <1>5, DeleteEachInv DEF DeleteAll
  <1>6. ASSUME NEW k \in Slots, NEW F \in SUBSET Ids, NEW kept \in SUBSET Ids,
               NEW order \in Orders, NEW max \in 0..Cardinality(Ids),
               TrimObjects(k, F, kept, max, order)
        PROVE  ListsInv'
    <2> DEFINE sel == [l \in Slots |-> IF l = k THEN F \ kept ELSE {}]
    <2>1. sel \in [Slots -> SUBSET Ids]
      OBVIOUS
    <2>2. DeleteEach(sel, order, TRUE)
      BY <1>6 DEF TrimObjects
    <2> QED
      BY <2>1, <2>2, DeleteEachInv
  <1>7. ASSUME NEW p \in Patterns, NEW rule \in Rules, NEW kept \in [Slots -> SUBSET Ids],
               PurgeDeleted(p, rule[1], rule[2], kept)
        PROVE  ListsInv'
    <2>1. knownParents' \in SUBSET Parents
      BY <1>7 DEF PurgeDeleted, ListsInv, ListsTypeOK
    <2>2. PurgeSlots(MatchingSlots(p, Resources), kept, rule[1], rule[2])
      BY <1>7 DEF PurgeDeleted
    <2>3. MatchingSlots(p, Resources) \in SUBSET Slots
      BY DEF MatchingSlots
    <2> QED
      BY <2>1, <2>2, <2>3, PurgeSlotsInv
  <1>8. ASSUME NEW p \in Patterns, NEW rule \in Rules, NEW kept \in [Slots -> SUBSET Ids],
               NEW r \in Resources, PurgeResource(p, r, rule[1], rule[2], kept)
        PROVE  ListsInv'
    <2>1. knownParents' \in SUBSET Parents
      BY <1>8 DEF PurgeResource, ListsInv, ListsTypeOK
    <2>2. PurgeSlots(MatchingSlots(p, {r}), kept, rule[1], rule[2])
      BY <1>8 DEF PurgeResource
    <2>3. MatchingSlots(p, {r}) \in SUBSET Slots
      BY DEF MatchingSlots
    <2> QED
      BY <2>1, <2>2, <2>3, PurgeSlotsInv
  <1>9. ASSUME NEW p \in Patterns, NEW r \in Resources, NEW done \in SUBSET Parents,
               PurgeKeyError(p, r, done)
        PROVE  ListsInv'
    <2>1. knownParents' \in SUBSET Parents /\ flushing' \in [1..2 -> Nat]
      BY <1>9 DEF PurgeKeyError, ListsInv, ListsTypeOK
    <2>2. Forget({<<q, r>> : q \in done}, {}, [k \in Slots |-> {}])
      BY <1>9 DEF PurgeKeyError
    <2>3. {<<q, r>> : q \in done} \in SUBSET Slots
      BY DEF Slots
    <2>4. [k \in Slots |-> {}] \in [Slots -> SUBSET Ids]
      OBVIOUS
    <2> QED
      BY <2>1, <2>2, <2>3, <2>4, ForgetInv
  <1> QED
    BY <1>2, <1>3, <1>4, <1>5, <1>6, <1>7, <1>8, <1>9 DEF Calls, Forgetting, Purge

LEMMA NextInv == Inv /\ [Next]_vars => Inv'
  <1> SUFFICES ASSUME Inv, [Next]_vars
               PROVE  Inv'
    OBVIOUS
  <1>1. CASE Calls \/ Forgetting
    <2>1. call' = Absent
      BY <1>1 DEF Calls, Forgetting
    <2>2. ListsInv'
      BY <1>1, CallsListsInv DEF Inv
    <2> QED
      BY <2>1, <2>2 DEF Inv, CallInv
  <1>2. CASE CallSteps
    BY <1>2, BeginCallInv, ReadTimestampInv, WriteTimestampInv, ChangeObjectInv DEF CallSteps
  <1>3. CASE Flushing
    <2>1. Storing \in SUBSET Slots
      BY DEF Storing, Inv, OpenCall
    <2>3. ListsInv' /\ CallInv'
      BY <1>3, <2>1, FlushInv, FlushCallInv DEF Inv
    <2>2. call' = call
      BY <1>3 DEF Flushing, FlushStore, FlushCemetery, FlushTimestamps
    <2> QED
      BY <2>2, <2>3 DEF Inv
  <1>4. ASSUME UNCHANGED <<store, cemetery, timestamps, knownParents, flushing, call, dropped>>,
               now' \in Nat
        PROVE  Inv'
    <2>1. ListsInv'
      BY <1>4 DEF Inv, ListsInv, ListsTypeOK, LiveAndBuriedDisjoint, TimestampCovers, Covers
    <2>2. CallInv'
      BY <1>4 DEF Inv, CallInv, GivenStamp, AtMost
    <2> QED
      BY <1>4, <2>1, <2>2 DEF Inv
  <1>5. now \in Nat
    BY DEF Inv, ListsInv, ListsTypeOK
  <1>6. CASE Tick
    BY <1>4, <1>5, <1>6 DEF Tick
  <1>7. CASE UNCHANGED vars
    BY <1>4, <1>5, <1>7 DEF vars
  <1> QED
    BY <1>1, <1>2, <1>3, <1>6, <1>7 DEF Next

\* Every reachable state of the backend is well formed.
THEOREM TypeCorrect == Spec => []TypeOK
  <1>1. Inv => TypeOK
    BY DEF Inv, ListsInv, TypeOK
  <1> QED
    BY <1>1, InitInv, NextInv, PTL DEF Spec

\* No interleaving of calls, flush() included, leaves an id both live and
\* buried.
THEOREM StoreAndCemeteryDisjoint == Spec => []LiveAndBuriedDisjoint
  <1>1. Inv => LiveAndBuriedDisjoint
    BY DEF Inv, ListsInv
  <1> QED
    BY <1>1, InitInv, NextInv, PTL DEF Spec

\* The list timestamp covers every object and tombstone of a list that did
\* not lose it to purge_deleted() or flush().
THEOREM ListTimestampCovers == Spec => []TimestampCovers
  <1>1. Inv => TimestampCovers
    BY DEF Inv, ListsInv
  <1> QED
    BY <1>1, InitInv, NextInv, PTL DEF Spec

(***************************************************************************)
(* What one step does to the entries (live or buried) of a list            *)
(***************************************************************************)

\* The entries of slot k stay or disappear.
OnlyLoses(k) == \A i \in Ids : Entry(k, i)' \in {Absent, Entry(k, i)}

LEMMA ForgetEntries ==
    ASSUME ListsInv, NEW lost, NEW purged, NEW kept, Forget(lost, purged, kept),
           NEW k \in Slots
    PROVE  OnlyLoses(k)
  BY DEF Forget, OnlyLoses, Entry

LEMMA FlushEntries ==
    ASSUME ListsInv, Flushing, NEW k \in Slots
    PROVE  OnlyLoses(k)
  BY DEF Flushing, FlushStore, FlushCemetery, FlushTimestamps, OnlyLoses, Entry, ListsInv,
         LiveAndBuriedDisjoint

\* delete_all and trim_objects: an entry stays, disappears, or is one of the
\* different stamps beyond the list timestamp.
LEMMA DeleteEachEntries ==
    ASSUME ListsInv, NEW sel \in [Slots -> SUBSET Ids], NEW order \in Orders,
           NEW withDeleted \in BOOLEAN, DeleteEach(sel, order, withDeleted),
           NEW k \in Slots
    PROVE  \/ OnlyLoses(k)
           \/ /\ timestamps'[k] > ResourceTimestamp(k)
              /\ \A i \in Ids :
                    \/ i \notin sel[k] /\ Entry(k, i)' = Entry(k, i)
                    \/ i \in sel[k] /\ Entry(k, i)' > ResourceTimestamp(k)
              /\ \A i, j \in sel[k] : i # j => Entry(k, i)' # Entry(k, j)'
  <1>1. ListsTypeOK
    BY DEF ListsInv
  <1>2. /\ store' = [l \in Slots |-> [i \in Ids |->
                        IF i \in sel[l] THEN Absent ELSE store[l][i]]]
        /\ cemetery' = [l \in Slots |-> [i \in Ids |->
                        IF i \in sel[l] /\ withDeleted
                        THEN FirstStamp(l) + Nth(sel[l], order[l], i) - 1
                        ELSE cemetery[l][i]]]
        /\ timestamps' = [l \in Slots |->
                        IF sel[l] = {} THEN timestamps[l] ELSE LastStamp(l, sel[l])]
    BY DEF DeleteEach
  <1>3. CASE sel[k] = {} \/ ~withDeleted
    BY <1>2, <1>3 DEF OnlyLoses, Entry, ListsInv, LiveAndBuriedDisjoint
  <1>4. CASE sel[k] # {} /\ withDeleted
    <2>1. order[k] \in Bijection(Ids, 1..Cardinality(Ids))
      BY DEF Orders
    <2>2. /\ FirstStamp(k) \in Nat
          /\ FirstStamp(k) > ResourceTimestamp(k)
          /\ LastStamp(k, sel[k]) \in Nat
          /\ LastStamp(k, sel[k]) >= FirstStamp(k)
          /\ \A i \in sel[k] : /\ Nth(sel[k], order[k], i) \in Nat
                               /\ Nth(sel[k], order[k], i) >= 1
          /\ \A i, j \in sel[k] :
                i # j => Nth(sel[k], order[k], i) # Nth(sel[k], order[k], j)
      BY <1>1, <1>4, <2>1, StampsLemma
    <2>3. ResourceTimestamp(k) \in Nat
      BY <1>1, ResourceTimestampType
    <2>4. \A i \in sel[k] :
             Entry(k, i)' = FirstStamp(k) + Nth(sel[k], order[k], i) - 1
      BY <1>2, <1>4 DEF Entry
    <2>5. \A i \in Ids : i \notin sel[k] => Entry(k, i)' = Entry(k, i)
      BY <1>2 DEF Entry
    <2>6. timestamps'[k] = LastStamp(k, sel[k])
      BY <1>2, <1>4
    <2>7. timestamps'[k] > ResourceTimestamp(k)
      BY <2>2, <2>3, <2>6
    <2>8. \A i \in sel[k] : Entry(k, i)' > ResourceTimestamp(k)
      BY <2>2, <2>3, <2>4
    <2>9. \A i, j \in sel[k] : i # j => Entry(k, i)' # Entry(k, j)'
      BY <2>2, <2>4
    <2> QED
      BY <2>5, <2>7, <2>8, <2>9
  <1> QED
    BY <1>3, <1>4

\* create, update and delete: the entry of one object changes, and either the
\* list timestamp advances or the stamp was forced from the past.
OneChange(k, i, lm) ==
    /\ \A l \in Slots, j \in Ids : l # k \/ j # i => Entry(l, j)' = Entry(l, j)
    /\ Entry(k, i)' \in {Absent, Bump(k, lm).stamp}
    /\ timestamps'[k] = Bump(k, lm).resource

LEMMA PutEntries ==
    ASSUME ListsInv, NEW k \in Slots, NEW i \in Ids, NEW lm \in Stamp, Put(k, i, lm)
    PROVE  OneChange(k, i, lm)
  <1>1. ListsTypeOK
    BY DEF ListsInv
  <1>2. Bump(k, lm).stamp \in Nat
    BY <1>1, BumpInSlot
  <1> QED
    BY <1>1, <1>2, StorageAssumption DEF Put, StoreTimestamp, OneChange, Entry, ListsTypeOK

LEMMA DeleteEntries ==
    ASSUME ListsInv, NEW k \in Slots, NEW i \in Ids, NEW withDeleted \in BOOLEAN,
           NEW lm \in Stamp, Delete(k, i, withDeleted, lm)
    PROVE  OneChange(k, i, lm)
  <1>1. ListsTypeOK /\ cemetery[k][i] = Absent
    BY DEF ListsInv, LiveAndBuriedDisjoint, Delete
  <1> QED
    BY <1>1 DEF Delete, StoreTimestamp, OneChange, Entry, ListsTypeOK

\* Steps that only lose entries change nothing that a client would see.
LEMMA OnlyLosesIsNoChange ==
    ASSUME NEW k \in Slots, OnlyLoses(k)
    PROVE  ~Changed(k)
  BY DEF OnlyLoses, Changed

\* The action property for one slot, and what it is for a call in one step.
Advances(k) ==
    Changed(k) => \/ k \in Storing /\ timestamps[k] = Absent
                  \/ timestamps'[k] > Before(k)
                  \/ \E i \in Ids : Entry(k, i)' # Absent
                                    /\ Entry(k, i)' \in Specified
                                    /\ Entry(k, i)' < Before(k)

AdvancesAtOnce(k) ==
    Changed(k) => \/ timestamps'[k] > ResourceTimestamp(k)
                  \/ \E i \in Ids : Entry(k, i)' # Absent
                                    /\ Entry(k, i)' \in Specified
                                    /\ Entry(k, i)' < ResourceTimestamp(k)

LEMMA OneChangeAdvances ==
    ASSUME ListsInv, NEW k \in Slots, NEW i \in Ids, NEW lm \in Specified \cup {Absent},
           OneChange(k, i, lm), NEW l \in Slots
    PROVE  AdvancesAtOnce(l)
  <1> SUFFICES ASSUME Changed(l)
               PROVE  \/ timestamps'[l] > ResourceTimestamp(l)
                      \/ Entry(l, i)' # Absent /\ Entry(l, i)' \in Specified
                                              /\ Entry(l, i)' < ResourceTimestamp(l)
    BY DEF AdvancesAtOnce
  <1>1. PICK j \in Ids : Entry(l, j)' # Entry(l, j) /\ Entry(l, j)' # Absent
    BY DEF Changed
  <1>2. l = k /\ j = i
    BY <1>1 DEF OneChange
  <1>3. Entry(l, i)' = Bump(l, lm).stamp /\ timestamps'[l] = Bump(l, lm).resource
    BY <1>1, <1>2 DEF OneChange
  <1>4. lm \in Stamp
    BY StorageAssumption DEF Stamp
  <1>5. ResourceTimestamp(l) \in Nat
    BY ResourceTimestampType DEF ListsInv
  <1>6. /\ Bump(l, lm).stamp \in Nat
        /\ Bump(l, lm).resource \in Nat
        /\ Bump(l, lm).resource >= ResourceTimestamp(l)
        /\ Bump(l, lm).resource = ResourceTimestamp(l)
              => lm # Absent /\ Bump(l, lm).stamp = lm /\ lm < ResourceTimestamp(l)
    BY <1>4, BumpInSlot DEF ListsInv
  <1>7. CASE Bump(l, lm).resource = ResourceTimestamp(l)
    BY <1>1, <1>2, <1>3, <1>6, <1>7
  <1>8. CASE Bump(l, lm).resource # ResourceTimestamp(l)
    BY <1>3, <1>5, <1>6, <1>8
  <1> QED
    BY <1>7, <1>8

\* No call in one step changes an object or a tombstone of a list without
\* advancing the list timestamp, except when it forces a stamp from the past.
LEMMA CallsAdvance ==
    ASSUME ListsInv, Calls \/ Forgetting, NEW l \in Slots
    PROVE  AdvancesAtOnce(l)
  <1>1. Specified \cup {Absent} \subseteq Stamp
    BY StorageAssumption DEF Stamp
  <1>2. OnlyLoses(l) => AdvancesAtOnce(l)
    BY OnlyLosesIsNoChange DEF AdvancesAtOnce
  <1>3. UNCHANGED <<store, cemetery>> => AdvancesAtOnce(l)
    BY DEF AdvancesAtOnce, Changed, Entry
  <1>4. ASSUME NEW k \in Slots, InitTimestamp(k)
        PROVE  AdvancesAtOnce(l)
    BY <1>3, <1>4 DEF InitTimestamp
  <1>5. ASSUME NEW k \in Slots, NEW i \in Ids, NEW lm \in Specified \cup {Absent},
               Create(k, i, lm) \/ Update(k, i, lm)
        PROVE  AdvancesAtOnce(l)
    BY <1>1, <1>5, PutEntries, OneChangeAdvances DEF Create, Update
  <1>6. ASSUME NEW k \in Slots, NEW i \in Ids, NEW lm \in Specified \cup {Absent},
               NEW withDeleted \in BOOLEAN, Delete(k, i, withDeleted, lm)
        PROVE  AdvancesAtOnce(l)
    BY <1>1, <1>6, DeleteEntries, OneChangeAdvances
  <1>7. ASSUME NEW sel \in [Slots -> SUBSET Ids], NEW order \in Orders,
               NEW withDeleted \in BOOLEAN, DeleteEach(sel, order, withDeleted)
        PROVE  AdvancesAtOnce(l)
    BY <1>2, <1>7, DeleteEachEntries DEF AdvancesAtOnce
  <1>8. ASSUME NEW p, NEW R, NEW sel \in [Slots -> SUBSET Ids],
               NEW order \in Orders, NEW withDeleted \in BOOLEAN,
               DeleteAll(p, R, sel, order, withDeleted)
        PROVE  AdvancesAtOnce(l)
    BY <1>7, <1>8 DEF DeleteAll
  <1>9. ASSUME NEW k \in Slots, NEW F \in SUBSET Ids, NEW kept \in SUBSET Ids,
               NEW order \in Orders, NEW max, TrimObjects(k, F, kept, max, order)
        PROVE  AdvancesAtOnce(l)
    <2> DEFINE sel == [m \in Slots |-> IF m = k THEN F \ kept ELSE {}]
    <2>1. sel \in [Slots -> SUBSET Ids]
      OBVIOUS
    <2>2. DeleteEach(sel, order, TRUE)
      BY <1>9 DEF TrimObjects
    <2> QED
      BY <1>7, <2>1, <2>2
  <1>10. ASSUME NEW lost, NEW purged, NEW kept, Forget(lost, purged, kept)
         PROVE  AdvancesAtOnce(l)
    BY <1>2, <1>10, ForgetEntries
  <1>11. CASE Purge
    <2>1. PICK purged, kept, rule, n : PurgeSlots(purged, kept, rule, n)
      BY <1>11 DEF Purge, PurgeDeleted, PurgeResource
    <2> QED
      BY <1>10, <2>1 DEF PurgeSlots
  <1>12. ASSUME NEW p, NEW r, NEW done, PurgeKeyError(p, r, done)
         PROVE  AdvancesAtOnce(l)
    BY <1>10, <1>12 DEF PurgeKeyError
  <1> QED
    BY <1>4, <1>5, <1>6, <1>8, <1>9, <1>11, <1>12 DEF Calls, Forgetting

\* The step that changes the object of a call taken step by step.
LEMMA ChangeObjectEntries ==
    ASSUME Inv, ChangeObject
    PROVE  /\ call \in OpenCall /\ call.current \in Nat /\ call.stamp \in Nat /\ GivenStamp
           /\ UNCHANGED <<timestamps, dropped>>
           /\ \E k \in Slots, i \in Ids, s \in Nat :
                 /\ k = call.slot /\ i = call.id /\ s = call.stamp
                 /\ \A l \in Slots, j \in Ids : l # k \/ j # i => Entry(l, j)' = Entry(l, j)
                 /\ Entry(k, i)' \in {Absent, s, Entry(k, i)}
  <1>1. /\ call \in OpenCall /\ call.slot \in Slots /\ call.id \in Ids
        /\ GivenStamp /\ call.stamp \in Nat /\ call.current \in Nat
    BY DEF Inv, CallInv, ChangeObject, OpenCall, GivenStamp
  <1>2. PICK k \in Slots, i \in Ids, s \in Nat :
           k = call.slot /\ i = call.id /\ s = call.stamp
    BY <1>1
  <1>3. /\ \/ /\ store' = [store EXCEPT ![k][i] = s]
              /\ cemetery' = [cemetery EXCEPT ![k][i] = Absent]
           \/ /\ store' = [store EXCEPT ![k][i] = Absent]
              /\ cemetery' = [cemetery EXCEPT ![k][i] = s] \/ cemetery' = cemetery
        /\ UNCHANGED <<timestamps, dropped>>
    BY <1>2 DEF ChangeObject
  <1>4. /\ store \in [Slots -> [Ids -> Stamp]] /\ cemetery \in [Slots -> [Ids -> Stamp]]
        /\ store[k][i] = Absent \/ cemetery[k][i] = Absent
    BY DEF Inv, ListsInv, ListsTypeOK, LiveAndBuriedDisjoint
  <1>5. \A l \in Slots, j \in Ids : l # k \/ j # i => Entry(l, j)' = Entry(l, j)
    BY <1>3, <1>4 DEF Entry
  <1>6. s # Absent
    BY StorageAssumption
  <1>7. Entry(k, i)' \in {Absent, s, Entry(k, i)}
    BY <1>3, <1>4, <1>6 DEF Entry
  <1> QED
    BY <1>1, <1>2, <1>3, <1>5, <1>7

\* No step changes an object or a tombstone of a list without advancing the
\* list timestamp, except as the property says.
LEMMA StepAdvances ==
    ASSUME Inv, [Next]_vars, NEW l \in Slots
    PROVE  Advances(l)
  <1> USE DEF Inv
  <1>1. OnlyLoses(l) => Advances(l)
    BY OnlyLosesIsNoChange DEF Advances
  <1>2. UNCHANGED <<store, cemetery>> => Advances(l)
    BY DEF Advances, Changed, Entry
  <1>3. CASE Calls \/ Forgetting
    <2>1. Before(l) = ResourceTimestamp(l)
      BY <1>3 DEF Before, Calls, Forgetting
    <2> QED
      BY <1>3, <2>1, CallsAdvance DEF Advances, AdvancesAtOnce
  <1>4. CASE ChangeObject
    <2> SUFFICES ASSUME Changed(l)
                 PROVE  Advances(l)
      BY DEF Advances
    <2>1. PICK j \in Ids : Entry(l, j)' # Entry(l, j) /\ Entry(l, j)' # Absent
      BY DEF Changed
    <2>2. l = call.slot /\ Entry(l, j)' = call.stamp
      <3>1. PICK k \in Slots, i \in Ids, s \in Nat :
               /\ k = call.slot /\ i = call.id /\ s = call.stamp
               /\ \A m \in Slots, n \in Ids : m # k \/ n # i => Entry(m, n)' = Entry(m, n)
               /\ Entry(k, i)' \in {Absent, s, Entry(k, i)}
        BY <1>4, ChangeObjectEntries
      <3>2. l = k /\ j = i
        BY <2>1, <3>1
      <3> QED
        BY <2>1, <3>1, <3>2
    <2>3. GivenStamp /\ timestamps' = timestamps /\ call.current \in Nat
      BY <1>4, ChangeObjectEntries DEF OpenCall
    <2>4. Before(l) = call.current /\ (timestamps[l] = Absent => l \in Storing)
      BY <1>4, <2>2 DEF Before, Storing, ChangeObject
    <2>5. CASE timestamps[l] = Absent
      BY <2>4, <2>5 DEF Advances
    <2>6. CASE timestamps[l] # Absent
      <3>1. \/ timestamps'[l] > Before(l)
            \/ Entry(l, j)' \in Specified /\ Entry(l, j)' < Before(l)
        BY <2>2, <2>3, <2>4, <2>6 DEF GivenStamp
      <3> QED
        BY <2>1, <3>1 DEF Advances
    <2> QED
      BY <2>5, <2>6
  <1>5. CASE Flushing
    BY <1>1, <1>5, FlushEntries
  <1>6. CASE Tick \/ UNCHANGED vars
    BY <1>2, <1>6 DEF Tick, vars
  <1>7. CASE CallSteps /\ ~ChangeObject
    BY <1>2, <1>7 DEF CallSteps, BeginCall, ReadTimestamp, WriteTimestamp
  <1> QED
    BY <1>3, <1>4, <1>5, <1>6, <1>7 DEF Next

\* A change that leaves an object or a tombstone behind advances the list
\* timestamp, whatever the clock does, unless its stamp was forced from the
\* past.
THEOREM ChangesAdvanceList == Spec => ChangeAdvancesList
  <1>1. Inv /\ [Next]_vars => [\A k \in Slots :
          Changed(k) => \/ k \in Storing /\ timestamps[k] = Absent
                        \/ timestamps'[k] > Before(k)
                        \/ \E i \in Ids : Entry(k, i)' # Absent
                                          /\ Entry(k, i)' \in Specified
                                          /\ Entry(k, i)' < Before(k)]_vars
    BY StepAdvances DEF Advances
  <1> QED
    BY <1>1, InitInv, NextInv, PTL DEF Spec, ChangeAdvancesList

(***************************************************************************)
(* Uniqueness of the stamps nobody forced                                  *)
(***************************************************************************)
Unique(k) == \A i, j \in Ids :
    i # j /\ Entry(k, i) \notin Specified \cup {Absent} => Entry(k, i) # Entry(k, j)

\* A stamp that bump_timestamp hands out is forced, or beyond the list's.
LEMMA FreshOrForced ==
    ASSUME ListsTypeOK, NEW k \in Slots, NEW lm \in Specified \cup {Absent}
    PROVE  /\ Bump(k, lm).stamp \in Nat
           /\ \/ Bump(k, lm).stamp \in Specified
              \/ Bump(k, lm).stamp > ResourceTimestamp(k)
  <1>1. ResourceTimestamp(k) \in Nat
    BY ResourceTimestampType
  <1>2. now \in Nat
    BY DEF ListsTypeOK
  <1>3. CASE lm = Absent
    BY <1>1, <1>2, <1>3, StorageAssumption DEF Bump, BumpTimestamp
  <1>4. CASE lm # Absent
    <2>1. lm \in Specified /\ lm \in Nat
      BY <1>4, StorageAssumption
    <2>2. CASE lm = ResourceTimestamp(k)
      BY <1>1, <1>4, <2>1, <2>2 DEF Bump, BumpTimestamp
    <2>3. CASE lm # ResourceTimestamp(k)
      BY <1>1, <1>4, <2>1, <2>3 DEF Bump, BumpTimestamp
    <2> QED
      BY <2>2, <2>3
  <1> QED
    BY <1>3, <1>4

\* Every entry of a list that kept its timestamp is at most that timestamp.
LEMMA EntriesBelow ==
    ASSUME ListsInv, NEW k \in Slots, k \notin dropped, NEW i \in Ids
    PROVE  /\ ResourceTimestamp(k) \in Nat
           /\ Entry(k, i) \in Stamp
           /\ Entry(k, i) # Absent => Entry(k, i) <= ResourceTimestamp(k)
  <1>1. ListsTypeOK /\ TimestampCovers
    BY DEF ListsInv
  <1>2. Covers(k, store[k][i]) /\ Covers(k, cemetery[k][i])
    BY <1>1 DEF TimestampCovers
  <1>3. store[k][i] \in Stamp /\ cemetery[k][i] \in Stamp
    BY <1>1 DEF ListsTypeOK
  <1>4. /\ ResourceTimestamp(k) \in Nat
        /\ timestamps[k] # Absent => ResourceTimestamp(k) = timestamps[k]
    BY <1>1, ResourceTimestampType
  <1> QED
    BY <1>2, <1>3, <1>4, StorageAssumption DEF Covers, Entry, Stamp

LEMMA OnlyLosesKeepsUnique ==
    ASSUME NEW k \in Slots, Unique(k), OnlyLoses(k)
    PROVE  Unique(k)'
  BY DEF Unique, OnlyLoses

LEMMA OneChangeKeepsUnique ==
    ASSUME ListsInv, NEW k \in Slots, NEW i \in Ids, NEW lm \in Specified \cup {Absent},
           OneChange(k, i, lm), NEW l \in Slots, l \notin dropped, Unique(l)
    PROVE  Unique(l)'
  <1>1. CASE l # k
    BY <1>1 DEF OneChange, Unique
  <1>2. CASE l = k
    <2> DEFINE b == Bump(l, lm).stamp
    <2>1. b \in Nat /\ (b \in Specified \/ b > ResourceTimestamp(l))
      BY FreshOrForced DEF ListsInv
    <2>2. \A j \in Ids : /\ ResourceTimestamp(l) \in Nat
                         /\ Entry(l, j) \in Stamp
                         /\ Entry(l, j) # Absent => Entry(l, j) <= ResourceTimestamp(l)
      BY EntriesBelow
    <2>3. \A j \in Ids : b \in Specified \/ Entry(l, j) # b
      BY <2>1, <2>2, StorageAssumption DEF Stamp
    <2>4. /\ \A j \in Ids : j # i => Entry(l, j)' = Entry(l, j)
          /\ Entry(l, i)' \in {Absent, b}
      BY <1>2 DEF OneChange
    <2> HIDE DEF b
    <2> QED
      BY <2>3, <2>4 DEF Unique
  <1> QED
    BY <1>1, <1>2

LEMMA DeleteEachKeepsUnique ==
    ASSUME ListsInv, NEW sel \in [Slots -> SUBSET Ids], NEW order \in Orders,
           NEW withDeleted \in BOOLEAN, DeleteEach(sel, order, withDeleted),
           NEW l \in Slots, l \notin dropped, Unique(l)
    PROVE  Unique(l)'
  <1>1. CASE OnlyLoses(l)
    BY <1>1, OnlyLosesKeepsUnique
  <1>2. CASE ~OnlyLoses(l)
    <2>1. /\ \A i \in Ids : \/ i \notin sel[l] /\ Entry(l, i)' = Entry(l, i)
                            \/ i \in sel[l] /\ Entry(l, i)' > ResourceTimestamp(l)
          /\ \A i, j \in sel[l] : i # j => Entry(l, i)' # Entry(l, j)'
      BY <1>2, DeleteEachEntries
    <2>2. \A j \in Ids : /\ ResourceTimestamp(l) \in Nat
                         /\ Entry(l, j) \in Stamp
                         /\ Entry(l, j) # Absent => Entry(l, j) <= ResourceTimestamp(l)
      BY EntriesBelow
    <2>3. \A i \in Ids : Entry(l, i)' \in Stamp
      BY DeleteEachInv DEF ListsInv, ListsTypeOK, Entry
    <2>4. ASSUME NEW i \in sel[l], NEW j \in Ids \ sel[l], Entry(l, i)' # Absent
          PROVE  Entry(l, i)' # Entry(l, j)'
      <3>1. i \in Ids /\ Entry(l, i)' \in Nat /\ Entry(l, i)' > ResourceTimestamp(l)
        BY <2>1, <2>3, <2>4 DEF Stamp
      <3>2. Entry(l, j)' = Entry(l, j)
        BY <2>1
      <3> QED
        BY <2>2, <3>1, <3>2, StorageAssumption DEF Stamp
    <2>5. ASSUME NEW i \in Ids, NEW j \in Ids, i # j,
                 Entry(l, i)' \notin Specified \cup {Absent}
          PROVE  Entry(l, i)' # Entry(l, j)'
      <3>1. CASE i \in sel[l] /\ j \in sel[l]
        BY <2>1, <2>5, <3>1
      <3>2. CASE i \in sel[l] /\ j \notin sel[l]
        BY <2>4, <2>5, <3>2
      <3>3. CASE i \notin sel[l] /\ j \in sel[l]
        BY <2>4, <2>5, <3>3
      <3>4. CASE i \notin sel[l] /\ j \notin sel[l]
        BY <2>1, <2>5, <3>4 DEF Unique
      <3> QED
        BY <3>1, <3>2, <3>3, <3>4
    <2> QED
      BY <2>5 DEF Unique
  <1> QED
    BY <1>1, <1>2

\* A list that purge_deleted or flush leaves out of dropped is empty, or kept
\* its timestamp.
LEMMA ForgetKeepsUnique ==
    ASSUME ListsInv, StampsAreUnique, NEW lost, NEW purged, NEW kept,
           Forget(lost, purged, kept), NEW l \in Slots, l \notin dropped'
    PROVE  Unique(l)'
  <1>1. OnlyLoses(l)
    BY ForgetEntries
  <1>2. CASE l \in lost
    <2>1. \A i \in Ids : store[l][i] = Absent /\ cemetery'[l][i] = Absent
      BY <1>2 DEF Forget
    <2>2. \A i \in Ids : Entry(l, i)' = Absent
      BY <2>1 DEF Entry, Forget
    <2> QED
      BY <2>2 DEF Unique
  <1>3. CASE l \notin lost
    <2>1. l \notin dropped
      BY <1>3 DEF Forget
    <2>2. Unique(l)
      BY <2>1 DEF StampsAreUnique, Unique
    <2> QED
      BY <1>1, <2>2, OnlyLosesKeepsUnique
  <1> QED
    BY <1>2, <1>3

LEMMA StepKeepsUnique ==
    ASSUME Inv, StampsAreUnique, [Next]_vars,
           NEW l \in Slots, l \notin dropped'
    PROVE  Unique(l)'
  <1> USE DEF Inv
  <1>1. l \notin dropped => Unique(l)
    BY DEF StampsAreUnique, Unique
  <1>2. UNCHANGED <<store, cemetery, dropped>> => Unique(l)'
    BY <1>1 DEF Unique, Entry
  <1>3. ASSUME NEW k \in Slots, InitTimestamp(k)
        PROVE  Unique(l)'
    BY <1>2, <1>3 DEF InitTimestamp
  <1>4. ASSUME NEW k \in Slots, NEW i \in Ids, NEW lm \in Specified \cup {Absent},
               \/ Create(k, i, lm) \/ Update(k, i, lm)
               \/ \E withDeleted \in BOOLEAN : Delete(k, i, withDeleted, lm)
        PROVE  Unique(l)'
    <2>1. lm \in Stamp
      BY StorageAssumption DEF Stamp
    <2>2. dropped' = dropped
      BY <1>4 DEF Create, Update, Put, Delete
    <2>3. OneChange(k, i, lm)
      BY <1>4, <2>1, PutEntries, DeleteEntries DEF Create, Update
    <2> QED
      BY <1>1, <2>2, <2>3, OneChangeKeepsUnique
  <1>5. ASSUME NEW sel \in [Slots -> SUBSET Ids], NEW order \in Orders,
               NEW withDeleted \in BOOLEAN, DeleteEach(sel, order, withDeleted)
        PROVE  Unique(l)'
    <2>1. dropped' = dropped
      BY <1>5 DEF DeleteEach
    <2> QED
      BY <1>1, <1>5, <2>1, DeleteEachKeepsUnique
  <1>6. ASSUME NEW p, NEW R, NEW sel \in [Slots -> SUBSET Ids],
               NEW order \in Orders, NEW withDeleted \in BOOLEAN,
               DeleteAll(p, R, sel, order, withDeleted)
        PROVE  Unique(l)'
    BY <1>5, <1>6 DEF DeleteAll
  <1>7. ASSUME NEW k \in Slots, NEW F \in SUBSET Ids, NEW kept \in SUBSET Ids,
               NEW order \in Orders, NEW max, TrimObjects(k, F, kept, max, order)
        PROVE  Unique(l)'
    <2> DEFINE sel == [m \in Slots |-> IF m = k THEN F \ kept ELSE {}]
    <2>1. sel \in [Slots -> SUBSET Ids]
      OBVIOUS
    <2>2. DeleteEach(sel, order, TRUE)
      BY <1>7 DEF TrimObjects
    <2> QED
      BY <1>5, <2>1, <2>2
  <1>8. CASE Purge
    <2>1. PICK purged, kept, rule, n : PurgeSlots(purged, kept, rule, n)
      BY <1>8 DEF Purge, PurgeDeleted, PurgeResource
    <2>2. PICK lost, of : Forget(lost, of, kept)
      BY <2>1 DEF PurgeSlots
    <2> QED
      BY <2>2, ForgetKeepsUnique
  <1>9. ASSUME NEW p, NEW r, NEW done, PurgeKeyError(p, r, done)
        PROVE  Unique(l)'
    BY <1>9, ForgetKeepsUnique DEF PurgeKeyError
  <1>10. CASE FlushStore \/ FlushCemetery
    <2>1. dropped' = dropped
      BY <1>10 DEF FlushStore, FlushCemetery
    <2>2. OnlyLoses(l)
      BY <1>10, FlushEntries DEF Flushing
    <2> QED
      BY <1>1, <2>1, <2>2, OnlyLosesKeepsUnique
  <1>11. CASE FlushTimestamps
    BY <1>11 DEF FlushTimestamps, Live, Buried, Unique, Entry
  <1>12. CASE Tick \/ UNCHANGED vars
    BY <1>2, <1>12 DEF Tick, vars
  <1>13. CASE ChangeObject
    <2>1. PICK k \in Slots, i \in Ids, s \in Nat :
               /\ k = call.slot /\ i = call.id /\ s = call.stamp
               /\ \A m \in Slots, n \in Ids : m # k \/ n # i => Entry(m, n)' = Entry(m, n)
               /\ Entry(k, i)' \in {Absent, s, Entry(k, i)}
      BY <1>13, ChangeObjectEntries
    <2>2. UNCHANGED <<timestamps, dropped>> /\ GivenStamp /\ call.current \in Nat
      BY <1>13, ChangeObjectEntries
    <2>3. CASE l # k
      BY <1>1, <2>1, <2>2, <2>3 DEF Unique
    <2>4. CASE l = k
      <3>1. s \in Specified \/ s > call.current
        BY <2>1, <2>2 DEF GivenStamp
      <3>2. AtMost(l, call.current)
        BY <1>13, <2>1, <2>2, <2>4 DEF CallInv, ChangeObject
      <3>3. \A j \in Ids : Entry(l, j) # Absent => Entry(l, j) <= call.current
        BY <3>2 DEF AtMost, Entry
      <3>4. \A j \in Ids : Entry(l, j) \in Stamp
        BY DEF ListsInv, ListsTypeOK, Entry
      <3>5. \A j \in Ids : s \in Specified \/ Entry(l, j) # s
        BY <2>1, <2>2, <3>1, <3>3, <3>4, StorageAssumption DEF Stamp
      <3>6. /\ \A j \in Ids : j # i => Entry(l, j)' = Entry(l, j)
            /\ Entry(l, i)' \in {Absent, s, Entry(l, i)}
        BY <2>1, <2>4
      <3>7. Unique(l)
        BY <1>1, <2>2
      <3> QED
        BY <3>5, <3>6, <3>7 DEF Unique
    <2> QED
      BY <2>3, <2>4
  <1>14. CASE CallSteps /\ ~ChangeObject
    BY <1>2, <1>14 DEF CallSteps, BeginCall, ReadTimestamp, WriteTimestamp
  <1> QED
    BY <1>3, <1>4, <1>6, <1>7, <1>8, <1>9, <1>10, <1>11, <1>12, <1>13, <1>14
       DEF Next, Calls, Forgetting, Flushing

\* Two objects or tombstones of a list never have the same last_modified,
\* unless a caller forced it, however many changes fall in one millisecond.
THEOREM UnforcedStampsAreUnique == Spec => []StampsAreUnique
  <1>1. Init => StampsAreUnique
    BY DEF Init, StampsAreUnique, Entry
  <1>2. Inv /\ StampsAreUnique /\ [Next]_vars => StampsAreUnique'
    BY StepKeepsUnique DEF StampsAreUnique, Unique
  <1> QED
    BY <1>1, <1>2, InitInv, NextInv, PTL DEF Spec

(***************************************************************************)
(* Each slot implements ObjectList, as long as no caller forces a          *)
(* last_modified.                                                          *)
(***************************************************************************)

\* What a step does to the list of slot k.
ListStep(k) == [List(k)!ListNext]_(List(k)!listVars)

\* A step that leaves the store, the cemetery and the timestamp of a slot
\* alone stutters there.
LEMMA Stutters ==
    ASSUME NEW k \in Slots, store'[k] = store[k], cemetery'[k] = cemetery[k],
           timestamps'[k] = timestamps[k]
    PROVE  ListStep(k)
  BY DEF ListStep, List!listVars, ResourceTimestamp

\* An unforced stamp is beyond the list timestamp and becomes it.
LEMMA UnforcedBump ==
    ASSUME ListsTypeOK, NEW k \in Slots
    PROVE  /\ Bump(k, Absent).stamp \in Nat
           /\ Bump(k, Absent).stamp >= 1
           /\ Bump(k, Absent).stamp > ResourceTimestamp(k)
           /\ Bump(k, Absent).resource = Bump(k, Absent).stamp
  <1>1. ResourceTimestamp(k) \in Nat
    BY ResourceTimestampType
  <1>2. now \in Nat
    BY DEF ListsTypeOK
  <1> QED
    BY <1>1, <1>2, StorageAssumption DEF Bump, BumpTimestamp

LEMMA PutRefines ==
    ASSUME ListsTypeOK, NEW k \in Slots, NEW i \in Ids, Put(k, i, Absent), NEW l \in Slots
    PROVE  ListStep(l)
  <1> DEFINE s == Bump(k, Absent).stamp
  <1>1. s \in 1..MaxTimestamp /\ s > ResourceTimestamp(k)
    BY UnforcedBump, StorageAssumption DEF Put, StoreTimestamp
  <1>2. /\ timestamps' = [timestamps EXCEPT ![k] = s]
        /\ store' = [store EXCEPT ![k][i] = s]
        /\ cemetery' = [cemetery EXCEPT ![k][i] = Absent]
    BY UnforcedBump DEF Put, StoreTimestamp
  <1> HIDE DEF s
  <1>3. CASE l # k
    BY <1>2, <1>3, Stutters DEF ListsTypeOK
  <1>4. CASE l = k
    <2>1. ResourceTimestamp(k)' = s
      BY <1>1, <1>2, StorageAssumption DEF ResourceTimestamp, ListsTypeOK
    <2>2. store'[k] = [store[k] EXCEPT ![i] = s]
      BY <1>2 DEF ListsTypeOK
    <2>3. cemetery'[k] = [cemetery[k] EXCEPT ![i] = Absent]
      BY <1>2 DEF ListsTypeOK
    <2>4. List(k)!Put(i, s)
      BY <1>1, <2>1, <2>2, <2>3 DEF List!Put, List!Later
    <2> QED
      BY <1>1, <1>4, <2>4 DEF ListStep, List!ListNext
  <1> QED
    BY <1>3, <1>4

LEMMA InitTimestampRefines ==
    ASSUME ListsTypeOK, NEW k \in Slots, InitTimestamp(k), NEW l \in Slots
    PROVE  ListStep(l)
  <1> DEFINE s == Bump(k, Absent).stamp
  <1>1. s \in 1..MaxTimestamp /\ s > ResourceTimestamp(k)
    BY UnforcedBump, StorageAssumption DEF InitTimestamp, StoreTimestamp
  <1>2. /\ timestamps' = [timestamps EXCEPT ![k] = s]
        /\ UNCHANGED <<store, cemetery>>
    BY UnforcedBump DEF InitTimestamp, StoreTimestamp
  <1>3. ResourceTimestamp(k) = 0
    BY ResourceTimestampType DEF InitTimestamp
  <1> HIDE DEF s
  <1>4. CASE l # k
    BY <1>2, <1>4, Stutters DEF ListsTypeOK
  <1>5. CASE l = k
    <2>1. ResourceTimestamp(k)' = s
      BY <1>1, <1>2, StorageAssumption DEF ResourceTimestamp, ListsTypeOK
    <2>2. List(k)!Stamped(s)
      BY <1>1, <1>2, <1>3, <2>1 DEF List!Stamped, List!Later
    <2> QED
      BY <1>1, <1>5, <2>2 DEF ListStep, List!ListNext
  <1> QED
    BY <1>4, <1>5

LEMMA DeleteRefines ==
    ASSUME ListsTypeOK, NEW k \in Slots, NEW i \in Ids, NEW withDeleted \in BOOLEAN,
           Delete(k, i, withDeleted, Absent), NEW l \in Slots
    PROVE  ListStep(l)
  <1> DEFINE s == Bump(k, Absent).stamp
             stamps == [j \in {i} |-> s]
  <1>1. s \in 1..MaxTimestamp /\ s > ResourceTimestamp(k)
    BY UnforcedBump, StorageAssumption DEF Delete, StoreTimestamp
  <1>2. /\ store[k][i] # Absent
        /\ timestamps' = [timestamps EXCEPT ![k] = s]
        /\ store' = [store EXCEPT ![k][i] = Absent]
        /\ cemetery' = IF withDeleted THEN [cemetery EXCEPT ![k][i] = s] ELSE cemetery
    BY UnforcedBump DEF Delete, StoreTimestamp
  <1> HIDE DEF s
  <1>3. CASE l # k
    BY <1>2, <1>3, Stutters DEF ListsTypeOK
  <1>4. CASE l = k
    <2>1. ResourceTimestamp(k)' = s
      BY <1>1, <1>2, StorageAssumption DEF ResourceTimestamp, ListsTypeOK
    <2>2. store'[k] = [j \in Ids |-> IF j \in {i} THEN Absent ELSE store[k][j]]
      BY <1>2 DEF ListsTypeOK
    <2>3. cemetery'[k] = [j \in Ids |-> IF j \in {i} /\ withDeleted
                                        THEN stamps[j] ELSE cemetery[k][j]]
      BY <1>2 DEF ListsTypeOK
    <2>4. List(k)!DeleteEach({i}, stamps, withDeleted)
      BY <1>1, <1>2, <2>1, <2>2, <2>3 DEF List!DeleteEach, List!Later
    <2>5. stamps \in [{i} -> 1..MaxTimestamp]
      BY <1>1
    <2>6. {i} \in SUBSET Ids
      OBVIOUS
    <2> QED
      BY <1>1, <1>4, <2>1, <2>4, <2>5, <2>6 DEF ListStep, List!ListNext
  <1> QED
    BY <1>3, <1>4

\* One of the objects of S is the last one in the order: it obtains the last
\* stamp.
LEMMA SomeObjectIsLast ==
    ASSUME ListsTypeOK, NEW k \in Slots, NEW S \in SUBSET Ids, S # {},
           NEW order \in Bijection(Ids, 1..Cardinality(Ids))
    PROVE  \E i \in S : FirstStamp(k) + Nth(S, order, i) - 1 = LastStamp(k, S)
  <1>1. IsFiniteSet(S) /\ Cardinality(S) \in Nat
    BY FS_Subset, FS_CardinalityType, StorageAssumption
  <1>2. Cardinality(S) # 0
    BY <1>1, FS_EmptySet
  <1>3. FirstStamp(k) \in Nat /\ LastStamp(k, S) = FirstStamp(k) + Cardinality(S) - 1
    BY StampsLemma DEF LastStamp
  <1>4. /\ \A i \in S : Nth(S, order, i) \in 1..Cardinality(S)
        /\ \A i, j \in S : i # j => Nth(S, order, i) # Nth(S, order, j)
    BY <1>1, <1>3, StampsLemma
  <1> DEFINE nth == [i \in S |-> Nth(S, order, i)]
  <1>5. nth \in Injection(S, 1..Cardinality(S))
    BY <1>4 DEF Injection, IsInjective
  <1>6. IsFiniteSet(1..Cardinality(S)) /\ Cardinality(1..Cardinality(S)) = Cardinality(S)
    BY <1>1, <1>2, FS_Interval
  <1>7. nth \in Surjection(S, 1..Cardinality(S))
    BY <1>5, <1>6, FS_Injection
  <1>8. \E i \in S : nth[i] = Cardinality(S)
    <2>1. Cardinality(S) \in 1..Cardinality(S)
      BY <1>1, <1>2
    <2> HIDE DEF nth
    <2> QED
      BY <1>7, <2>1 DEF Surjection
  <1>9. \E i \in S : Nth(S, order, i) = Cardinality(S)
    BY <1>8
  <1> QED
    BY <1>3, <1>9

LEMMA DeleteEachRefines ==
    ASSUME ListsTypeOK, NEW sel \in [Slots -> SUBSET Ids], NEW order \in Orders,
           NEW withDeleted \in BOOLEAN, DeleteEach(sel, order, withDeleted),
           NEW l \in Slots, sel[l] \subseteq Live(l)
    PROVE  ListStep(l)
  <1>1. CASE sel[l] = {}
    <2>1. /\ store'[l] = store[l] /\ cemetery'[l] = cemetery[l]
          /\ timestamps'[l] = timestamps[l]
      BY <1>1 DEF DeleteEach, ListsTypeOK
    <2> QED
      BY <2>1, Stutters
  <1>2. CASE sel[l] # {}
    <2> DEFINE S == sel[l]
               stamps == [i \in S |-> FirstStamp(l) + Nth(S, order[l], i) - 1]
               last == LastStamp(l, S)
    <2>1. S \in SUBSET Ids /\ S # {} /\ order[l] \in Bijection(Ids, 1..Cardinality(Ids))
      BY <1>2 DEF Orders
    <2>2. ResourceTimestamp(l) \in Nat
      BY ResourceTimestampType
    <2>3. last \in 1..MaxTimestamp
      BY <1>2, <2>1, <2>2, StampsLemma, StorageAssumption DEF DeleteEach
    <2>4. /\ FirstStamp(l) \in Nat /\ FirstStamp(l) > ResourceTimestamp(l)
          /\ \A i \in S : /\ Nth(S, order[l], i) \in Nat
                          /\ Nth(S, order[l], i) >= 1
                          /\ FirstStamp(l) + Nth(S, order[l], i) - 1 <= last
          /\ \A i, j \in S : i # j => Nth(S, order[l], i) # Nth(S, order[l], j)
      <3> HIDE DEF S
      <3> QED
        BY <2>1, StampsLemma
    <2>5. \A i \in S : stamps[i] = FirstStamp(l) + Nth(S, order[l], i) - 1
      OBVIOUS
    <2>6. \A i \in S : /\ stamps[i] \in 1..MaxTimestamp
                       /\ stamps[i] > ResourceTimestamp(l)
                       /\ stamps[i] <= last
      <3> HIDE DEF S, stamps, last
      <3> QED
        BY <2>2, <2>3, <2>4, <2>5, StorageAssumption
    <2>7. \A i, j \in S : i # j => stamps[i] # stamps[j]
      <3> HIDE DEF S, stamps, last
      <3> QED
        BY <2>4, <2>5
    <2>8. \E i \in S : stamps[i] = last
      BY <2>1, SomeObjectIsLast
    <2>9. \A i \in S : store[l][i] # Absent
      BY DEF Live
    <2>10. store'[l] = [i \in Ids |-> IF i \in S THEN Absent ELSE store[l][i]]
      BY DEF DeleteEach
    <2>11. cemetery'[l] = [i \in Ids |-> IF i \in S /\ withDeleted
                                        THEN stamps[i] ELSE cemetery[l][i]]
      BY DEF DeleteEach
    <2>12. timestamps'[l] = last
      BY <1>2 DEF DeleteEach
    <2>13. ResourceTimestamp(l)' = last
      BY <2>3, <2>12, StorageAssumption DEF ResourceTimestamp
    <2>14. stamps \in [S -> 1..MaxTimestamp]
      BY <2>6
    <2> HIDE DEF S, stamps, last
    <2>15. List(l)!DeleteEach(S, stamps, withDeleted)
      BY <2>1, <2>3, <2>6, <2>7, <2>8, <2>9, <2>10, <2>11, <2>13
         DEF List!DeleteEach, List!Later
    <2> QED
      BY <2>1, <2>3, <2>13, <2>14, <2>15 DEF ListStep, List!ListNext
  <1> QED
    BY <1>1, <1>2

\* What one call, or a tick of the clock, does to a list.
LEMMA StepRefines ==
    ASSUME Specified = {}, ListsTypeOK, [Calls \/ Tick]_vars, NEW l \in Slots
    PROVE  ListStep(l)
  <1>1. ASSUME NEW k \in Slots, InitTimestamp(k)
        PROVE  ListStep(l)
    BY <1>1, InitTimestampRefines
  <1>2. ASSUME NEW k \in Slots, NEW i \in Ids, NEW lm \in Specified \cup {Absent},
               \/ Create(k, i, lm) \/ Update(k, i, lm)
               \/ \E withDeleted \in BOOLEAN : Delete(k, i, withDeleted, lm)
        PROVE  ListStep(l)
    <2>1. lm = Absent
      OBVIOUS
    <2> QED
      BY <1>2, <2>1, PutRefines, DeleteRefines DEF Create, Update
  <1>3. ASSUME NEW p \in Patterns, NEW R, NEW sel \in [Slots -> SUBSET Ids],
               NEW order \in Orders, NEW withDeleted \in BOOLEAN,
               DeleteAll(p, R, sel, order, withDeleted)
        PROVE  ListStep(l)
    <2>1. sel[l] \subseteq Live(l)
      BY <1>3 DEF DeleteAll
    <2> QED
      BY <1>3, <2>1, DeleteEachRefines DEF DeleteAll
  <1>4. ASSUME NEW k \in Slots, NEW F \in SUBSET Ids, NEW kept \in SUBSET Ids,
               NEW order \in Orders, NEW max, TrimObjects(k, F, kept, max, order)
        PROVE  ListStep(l)
    <2> DEFINE sel == [m \in Slots |-> IF m = k THEN F \ kept ELSE {}]
    <2>1. sel \in [Slots -> SUBSET Ids]
      OBVIOUS
    <2>2. sel[l] \subseteq Live(l)
      BY <1>4 DEF TrimObjects
    <2>3. DeleteEach(sel, order, TRUE)
      BY <1>4 DEF TrimObjects
    <2> QED
      BY <2>1, <2>2, <2>3, DeleteEachRefines
  <1>5. CASE Tick \/ UNCHANGED vars
    BY <1>5, Stutters DEF Tick, vars
  <1> QED
    BY <1>1, <1>2, <1>3, <1>4, <1>5 DEF Calls

\* The memory backend implements the abstract list in every slot: as long as
\* no caller forces a last_modified and no list is told to forget, whatever
\* calls requests make, a list only changes as StorageBase promises.
THEOREM BackendImplementsList ==
    ASSUME Specified = {}
    PROVE  CallSpec => ImplementsList
  <1>1. Init => \A k \in Slots : List(k)!ListInit
    BY DEF Init, List!ListInit, ResourceTimestamp
  <1>2. [Calls \/ Tick]_vars => [Next]_vars
    BY DEF Next
  <1>3. Inv /\ [Calls \/ Tick]_vars => [\A k \in Slots : ListStep(k)]_vars
    BY StepRefines DEF Inv, ListsInv
  <1>4. [\A k \in Slots : ListStep(k)]_vars
           <=> [\A k \in Slots : [List(k)!ListNext]_(List(k)!listVars)]_vars
    BY DEF ListStep
  <1> QED
    BY <1>1, <1>2, <1>3, <1>4, InitInv, NextInv, PTL DEF CallSpec, ImplementsList

(***************************************************************************)
(*                                                                         *)
(* Queries                                                                 *)
(*                                                                         *)
(* The two backends order and select in the same way, so a page is the     *)
(* first objects of what the filters and the rules let through; the rules  *)
(* of a token let through what follows the object of the token.  The       *)
(* inductive invariant is QueriesInv, below.                               *)
(*                                                                         *)
(***************************************************************************)

\* A set of numbers that is not empty has a least one.
LEMMA FirstNumber ==
    ASSUME NEW S \in SUBSET Nat, S # {}
    PROVE  \E m \in S : \A s \in S : m <= s
<1>1. IsWellFoundedOn(OpToRel(<, Nat), Nat)
    BY NatLessThanWellFounded
<1>2. PICK m \in S : \A s \in S : ~(<<s, m>> \in OpToRel(<, Nat))
    BY <1>1, WFMin
<1>3. \A s \in S : ~(s < m)
    BY <1>2 DEF OpToRel
<1> QED BY <1>3

(***************************************************************************)
(* Order                                                                   *)
(***************************************************************************)

\* The pairs R put the elements of S in one order.
IsOrder(S, R) ==
    /\ \A o \in S : <<o, o>> \notin R
    /\ \A o, p, q \in S : <<o, p>> \in R /\ <<p, q>> \in R => <<o, q>> \in R
    /\ \A o, p \in S : o # p => <<o, p>> \in R \/ <<p, o>> \in R

\* The elements up to one, how many they are, and whether some element is the n-th.
UpTo(S, R, o) == {p \in S : p = o \/ <<p, o>> \in R}
Rank(S, R, o) == Cardinality(UpTo(S, R, o))
HasRank(S, R, n) == \E o \in S : Rank(S, R, o) = n

\* Ranks are the order, and numbers.
LEMMA RanksOrder ==
    ASSUME NEW S, IsFiniteSet(S), NEW R, IsOrder(S, R)
    PROVE  /\ \A o \in S : Rank(S, R, o) \in 1..Cardinality(S)
           /\ \A o, p \in S : <<o, p>> \in R => Rank(S, R, o) < Rank(S, R, p)
<1>1. \A o \in S : UpTo(S, R, o) \in SUBSET S /\ o \in UpTo(S, R, o)
    BY DEF UpTo
<1>2. ASSUME NEW o \in S PROVE IsFiniteSet(UpTo(S, R, o)) /\ Rank(S, R, o) \in 1..Cardinality(S)
    <2>1. IsFiniteSet(UpTo(S, R, o)) /\ Cardinality(UpTo(S, R, o)) <= Cardinality(S)
        BY <1>1, FS_Subset
    <2>2. Cardinality(UpTo(S, R, o)) \in Nat /\ Cardinality(S) \in Nat
        BY <2>1, FS_CardinalityType
    <2>3. Cardinality(UpTo(S, R, o)) # 0
        BY <2>1, <1>1, FS_EmptySet
    <2> QED BY <2>1, <2>2, <2>3 DEF Rank
<1>3. ASSUME NEW o \in S, NEW p \in S, <<o, p>> \in R PROVE Rank(S, R, o) < Rank(S, R, p)
    <2>1. \A q \in S : <<q, o>> \in R => <<q, p>> \in R
        BY <1>3 DEF IsOrder
    <2>2. UpTo(S, R, o) \in SUBSET UpTo(S, R, p)
        BY <1>3, <2>1 DEF UpTo
    <2>3. <<p, o>> \notin R /\ p # o
        BY <1>3 DEF IsOrder
    <2>4. p \notin UpTo(S, R, o) /\ p \in UpTo(S, R, p)
        BY <2>3 DEF UpTo
    <2>5. IsFiniteSet(UpTo(S, R, p))
        BY <1>2
    <2>6. Cardinality(UpTo(S, R, o)) <= Cardinality(UpTo(S, R, p))
          /\ Cardinality(UpTo(S, R, p)) # Cardinality(UpTo(S, R, o))
        BY <2>2, <2>4, <2>5, FS_Subset
    <2> QED BY <2>6, <1>2 DEF Rank
<1> QED BY <1>2, <1>3

\* The ranks of an order are the numbers from 1, one for each element.
LEMMA RanksAreNumbers ==
    ASSUME NEW S, IsFiniteSet(S), NEW R, IsOrder(S, R)
    PROVE  /\ Cardinality(S) \in Nat
           /\ \A o \in S : Rank(S, R, o) \in 1..Cardinality(S)
           /\ \A o, p \in S : Rank(S, R, o) = Rank(S, R, p) => o = p
           /\ \A o, p \in S : Rank(S, R, o) < Rank(S, R, p) => <<o, p>> \in R
           /\ \A n \in 1..Cardinality(S) : HasRank(S, R, n)
<1> DEFINE rank == [o \in S |-> Rank(S, R, o)]
           numbers == 1..Cardinality(S)
<1>0. Cardinality(S) \in Nat
    BY FS_CardinalityType
<1>1. \A o \in S : Rank(S, R, o) \in numbers
    BY RanksOrder
<1>2. \A o, p \in S : Rank(S, R, o) = Rank(S, R, p) => o = p
    <2>1. SUFFICES ASSUME NEW o \in S, NEW p \in S, o # p PROVE Rank(S, R, o) # Rank(S, R, p)
        OBVIOUS
    <2>2. <<o, p>> \in R \/ <<p, o>> \in R
        BY <2>1 DEF IsOrder
    <2>3. Rank(S, R, o) < Rank(S, R, p) \/ Rank(S, R, p) < Rank(S, R, o)
        BY <2>2, RanksOrder
    <2> QED BY <2>3, <1>1, <1>0
<1>3. rank \in Injection(S, numbers)
    BY <1>1, <1>2 DEF Injection, IsInjective
<1>4. IsFiniteSet(numbers) /\ Cardinality(numbers) = Cardinality(S)
    BY <1>0, FS_Interval
<1>5. rank \in Surjection(S, numbers)
    BY <1>3, <1>4, FS_Injection
<1>6. \A n \in numbers : HasRank(S, R, n)
    <2>1. \A n \in numbers : \E o \in S : rank[o] = n
        BY <1>5 DEF Surjection
    <2> QED BY <2>1 DEF HasRank
<1>7. ASSUME NEW o \in S, NEW p \in S, Rank(S, R, o) < Rank(S, R, p) PROVE <<o, p>> \in R
    <2>1. o # p
        BY <1>7, <1>1, <1>0
    <2>2. CASE <<p, o>> \in R
        <3>1. Rank(S, R, p) < Rank(S, R, o)
            BY <2>2, RanksOrder
        <3> QED BY <3>1, <1>7, <1>1, <1>0
    <2> QED BY <2>1, <2>2 DEF IsOrder
<1> QED BY <1>0, <1>1, <1>2, <1>6, <1>7

\* The first ones, in order.
AreFirst(p, S, R, limit) ==
    /\ p \in Seq(S) /\ Len(p) <= limit
    /\ Len(p) < limit => Range(p) = S
    /\ \A m, n \in DOMAIN p : m < n => <<p[m], p[n]>> \in R
    /\ \A m, n \in DOMAIN p : p[m] = p[n] => m = n
    /\ \A o \in S \ Range(p), n \in DOMAIN p : <<p[n], o>> \in R

\* FirstOf() are the first ones.
LEMMA FirstOnes ==
    ASSUME NEW S, IsFiniteSet(S), NEW R, IsOrder(S, R), NEW limit \in Nat
    PROVE  AreFirst(FirstOf(S, R, limit), S, R, limit)
<1> DEFINE p == FirstOf(S, R, limit)
           len == Least(Cardinality(S), limit)
<1>1. Cardinality(S) \in Nat
    BY RanksAreNumbers
<1>2. len \in Nat /\ len <= limit /\ len <= Cardinality(S) /\ (len < limit => len = Cardinality(S))
    BY <1>1 DEF Least
<1>3. p = [n \in 1..len |-> CHOOSE o \in S : Rank(S, R, o) = n]
    BY DEF FirstOf, Rank, UpTo
<1> HIDE DEF len
<1>4. ASSUME NEW n \in 1..len PROVE p[n] \in S /\ Rank(S, R, p[n]) = n
    <2>1. n \in 1..Cardinality(S)
        BY <1>1, <1>2
    <2>2. \E o \in S : Rank(S, R, o) = n
        BY <2>1, RanksAreNumbers DEF HasRank
    <2>3. p[n] = CHOOSE o \in S : Rank(S, R, o) = n
        BY <1>3
    <2> QED BY <2>2, <2>3
<1>5. DOMAIN p = 1..len /\ Len(p) = len /\ p \in Seq(S)
    <2>1. p = [n \in 1..len |-> p[n]]
        BY <1>3
    <2>2. p \in [1..len -> S]
        BY <2>1, <1>4
    <2> HIDE DEF p
    <2>3. p \in Seq(S)
        BY <2>2, <1>2
    <2>4. Len(p) = len
        BY <2>2, <1>2, <2>3
    <2> QED BY <2>2, <2>3, <2>4
<1> HIDE DEF p
<1>6. \A m, n \in DOMAIN p : m < n => <<p[m], p[n]>> \in R
    BY <1>4, <1>5, RanksAreNumbers
<1>7. \A m, n \in DOMAIN p : p[m] = p[n] => m = n
    BY <1>4, <1>5
<1>8. ASSUME NEW o \in S \ Range(p) PROVE Rank(S, R, o) > len
    <2>1. Rank(S, R, o) \in 1..Cardinality(S)
        BY RanksAreNumbers
    <2>2. ASSUME Rank(S, R, o) <= len PROVE FALSE
        <3> DEFINE n == Rank(S, R, o)
        <3>1. n \in 1..len
            BY <2>1, <2>2, <1>1, <1>2
        <3>2. p[n] \in S /\ Rank(S, R, p[n]) = Rank(S, R, o)
            BY <3>1, <1>4
        <3>3. p[n] = o
            BY <3>2, RanksAreNumbers
        <3> QED BY <3>1, <3>3, <1>5 DEF Range
    <2> QED BY <2>1, <2>2, <1>1, <1>2
<1>9. ASSUME NEW o \in S \ Range(p), NEW n \in DOMAIN p PROVE <<p[n], o>> \in R
    <2>1. n \in 1..len /\ Rank(S, R, o) > len /\ Rank(S, R, o) \in Nat
        BY <1>5, <1>8, RanksAreNumbers
    <2>2. p[n] \in S /\ Rank(S, R, p[n]) < Rank(S, R, o)
        BY <2>1, <1>4, <1>2
    <2> QED BY <2>2, RanksAreNumbers
<1>10. ASSUME Len(p) < limit PROVE Range(p) = S
    <2>1. len = Cardinality(S)
        BY <1>5, <1>10, <1>2
    <2>2. S \ Range(p) = {}
        BY <2>1, <1>8, <1>1, RanksAreNumbers
    <2>3. Range(p) \subseteq S
        BY <1>4, <1>5 DEF Range
    <2> QED BY <2>2, <2>3
<1> QED BY <1>2, <1>5, <1>6, <1>7, <1>9, <1>10 DEF p, AreFirst

(***************************************************************************)
(* Values                                                                  *)
(***************************************************************************)

\* Of the values of objects, any two are the same or one is less.
IsComparable(x) == IsValue(x) /\ (x[1] = 4 => x \in Contained)

\* The kinds of values.
LEMMA ValuesAre ==
    ASSUME NEW x, IsValue(x)
    PROVE  /\ x[1] \in {0, 1, 2, 4, 6}
           /\ x[1] = 6 <=> x = Missing
           /\ x[1] = 0 <=> x = Null
           /\ x[1] \in {1, 2} => x[2] \in Nat
           /\ x = <<x[1], x[2]>>
BY DEF IsValue, Null, Missing, Array

\* What objects contain can be compared.
LEMMA ContainedAreValues ==
    ASSUME NEW x \in Contained \cup {Missing}
    PROVE  IsComparable(x)
<1>1. CASE x = Missing
    BY <1>1 DEF IsComparable, IsValue, Missing
<1>2. CASE x \in Contained
    <2>1. PICK data \in Contents : x = data.a \/ x = data.b
        BY <1>2 DEF Contained
    <2>2. IsContent(data)
        BY QueriesAssumption
    <2>3. IsValue(x)
        BY <2>1, <2>2 DEF IsContent
    <2> QED BY <2>3, <1>2 DEF IsComparable
<1> QED BY <1>1, <1>2

\* Values are in one order, if the arrays among them extend each other.
LEMMA LessIsOrder ==
    ASSUME NEW x, NEW y, NEW z, IsComparable(x), IsComparable(y), IsComparable(z)
    PROVE  /\ ~Less(x, x)
           /\ Less(x, y) /\ Less(y, z) => Less(x, z)
           /\ x # y => Less(x, y) \/ Less(y, x)
           /\ Less(x, y) => ~Less(y, x) /\ x # y
<1>1. /\ x[1] \in {0, 1, 2, 4, 6} /\ y[1] \in {0, 1, 2, 4, 6} /\ z[1] \in {0, 1, 2, 4, 6}
      /\ x = <<x[1], x[2]>> /\ y = <<y[1], y[2]>> /\ z = <<z[1], z[2]>>
    BY ValuesAre DEF IsComparable
<1>2. ASSUME NEW v, v \in {x, y, z}
      PROVE  (v[1] \in {1, 2} => v[2] \in Nat) /\ (v[1] \in {0, 6} => v[2] = 0)
    BY <1>2, ValuesAre DEF IsComparable, Null, Missing
<1>3. ~Less(x, x)
    BY <1>1, <1>2 DEF Less
<1>4. ASSUME Less(x, y), Less(y, z) PROVE Less(x, z)
    <2>1. CASE x[1] = y[1] /\ y[1] = z[1]
        <3>1. CASE x[1] = 4
            <4>1. x[2] \subseteq y[2] /\ x[2] # y[2] /\ y[2] \subseteq z[2] /\ y[2] # z[2]
                BY <1>4, <2>1, <3>1 DEF Less
            <4>2. x[2] \subseteq z[2] /\ x[2] # z[2]
                BY <4>1
            <4> QED BY <4>2, <2>1, <3>1 DEF Less
        <3>2. CASE x[1] # 4
            <4>1. x[2] < y[2] /\ y[2] < z[2] /\ x[2] \in Nat /\ y[2] \in Nat /\ z[2] \in Nat
                BY <1>1, <1>2, <1>4, <2>1, <3>2 DEF Less
            <4>2. x[2] < z[2]
                BY <4>1
            <4> QED BY <4>2, <2>1, <3>2 DEF Less
        <3> QED BY <3>1, <3>2
    <2>2. CASE ~(x[1] = y[1] /\ y[1] = z[1])
        <3>1. x[1] <= y[1] /\ y[1] <= z[1]
            BY <1>1, <1>4 DEF Less
        <3>2. x[1] < z[1]
            BY <3>1, <2>2, <1>1
        <3> QED BY <3>2 DEF Less
    <2> QED BY <2>1, <2>2
<1>5. ASSUME x # y PROVE Less(x, y) \/ Less(y, x)
    <2>1. CASE x[1] # y[1]
        <3>1. x[1] < y[1] \/ y[1] < x[1]
            BY <2>1, <1>1
        <3> QED BY <3>1 DEF Less
    <2>2. CASE x[1] = y[1]
        <3>1. x[2] # y[2]
            BY <2>2, <1>5, <1>1
        <3>2. CASE x[1] = 4
            <4>1. x \in Contained /\ y \in Contained
                BY <2>2, <3>2 DEF IsComparable
            <4>2. x[2] \subseteq y[2] \/ y[2] \subseteq x[2]
                BY <4>1, <3>2, <2>2, QueriesAssumption
            <4> QED BY <4>2, <3>1, <3>2, <2>2 DEF Less
        <3>3. CASE x[1] # 4
            <4>1. x[2] \in Nat /\ y[2] \in Nat
                BY <1>1, <1>2, <2>2, <3>3
            <4>2. x[2] < y[2] \/ y[2] < x[2]
                BY <4>1, <3>1
            <4> QED BY <4>2, <2>2, <3>3 DEF Less
        <3> QED BY <3>2, <3>3
    <2> QED BY <2>1, <2>2
<1>6. ASSUME Less(x, y), Less(y, x) PROVE FALSE
    <2>1. x[1] = y[1]
        BY <1>6, <1>1 DEF Less
    <2>2. CASE x[1] = 4
        <3>1. x[2] \subseteq y[2] /\ x[2] # y[2] /\ y[2] \subseteq x[2]
            BY <1>6, <2>1, <2>2 DEF Less
        <3> QED BY <3>1
    <2>3. CASE x[1] # 4
        <3>1. x[2] \in Nat /\ y[2] \in Nat
            BY <1>1, <1>2, <2>1, <2>3
        <3>2. x[2] < y[2] /\ y[2] < x[2]
            BY <1>1, <1>6, <2>1, <2>3 DEF Less
        <3> QED BY <3>1, <3>2
    <2> QED BY <2>2, <2>3
<1> QED BY <1>3, <1>4, <1>5, <1>6

\* Missing values are the last ones.
LEMMA SqlLessIsLess ==
    ASSUME NEW x, NEW y, IsValue(x), IsValue(y)
    PROVE  /\ SqlLess(x, y) = Less(x, y)
           /\ ~Less(Missing, y)
           /\ Less(x, Missing) <=> x # Missing
<1>1. /\ x[1] \in {0, 1, 2, 4, 6} /\ y[1] \in {0, 1, 2, 4, 6}
      /\ x[1] = 6 <=> x = Missing
      /\ y[1] = 6 <=> y = Missing
    BY ValuesAre
<1>2. Missing[1] = 6 /\ Missing[2] = 0
    BY DEF Missing
<1>3. ~Less(Missing, y)
    BY <1>1, <1>2 DEF Less
<1>4. Less(x, Missing) <=> x # Missing
    BY <1>1, <1>2 DEF Less
<1>5. SqlLess(x, y) <=> Less(x, y)
    BY <1>3, <1>4 DEF SqlLess
<1>6. SqlLess(x, y) \in BOOLEAN /\ Less(x, y) \in BOOLEAN
    BY DEF SqlLess, Less
<1> QED BY <1>3, <1>4, <1>5, <1>6

\* What the fields of an object hold.
LEMMA ObjectValues ==
    ASSUME NEW o, IsObject(o), NEW f \in Fields
    PROVE  f \in DOMAIN o /\ IsComparable(Value(o, f)) /\ IsValue(Value(o, f))
<1>1. f \in {"last_modified", "a", "b"}
    BY DEF Fields
<1>2. f \in DOMAIN o
    <2>1. DOMAIN o = {"id", "deleted"} \cup Fields
        BY DEF IsObject
    <2> QED BY <2>1
<1>3. CASE f = "last_modified"
    <2>1. o.last_modified = <<2, o.last_modified[2]>> /\ o.last_modified[2] \in Nat
        BY DEF IsObject, Number
    <2>2. o.last_modified[1] = 2
        BY <2>1
    <2> QED BY <1>2, <1>3, <2>1, <2>2 DEF IsComparable, IsValue, Value
<1>4. CASE f # "last_modified"
    <2>1. o[f] \in Contained \cup {Missing}
        BY <1>1, <1>4 DEF IsObject
    <2> QED BY <1>2, <2>1, ContainedAreValues DEF IsComparable, Value
<1> QED BY <1>3, <1>4

(***************************************************************************)
(* Sort orders                                                             *)
(***************************************************************************)

\* Sort orders as _extract_sorting() returns them: the timestamp is one of the fields.
SortField == [field : Fields, direction : {0, 1}, signed : BOOLEAN]
IsSorting(sorting) ==
    /\ sorting \in Seq(SortField)
    /\ \E n \in DOMAIN sorting : sorting[n].field = "last_modified"

\* Ties are broken by the stamps.
LEMMA SortingIs ==
    ASSUME NEW specified \in Seq(SortField)
    PROVE  /\ IsSorting(Sorting(specified))
           /\ (\A n \in DOMAIN specified : specified[n].direction # 1) =>
                 \A n \in DOMAIN Sorting(specified) : Sorting(specified)[n].direction # 1
<1> DEFINE least == [field |-> "last_modified", direction |-> 0, signed |-> FALSE]
           sorting == Append(specified, least)
<1>1. CASE \E n \in DOMAIN specified : specified[n].field = "last_modified" /\ ~specified[n].signed
    <2>1. Sorting(specified) = specified
        BY <1>1 DEF Sorting
    <2> QED BY <2>1, <1>1 DEF IsSorting
<1>2. CASE ~\E n \in DOMAIN specified : specified[n].field = "last_modified" /\ ~specified[n].signed
    <2>1. Sorting(specified) = sorting
        BY <1>2 DEF Sorting
    <2>2. least \in SortField
        BY DEF SortField, Fields
    <2>3. sorting \in Seq(SortField)
        BY <2>2
    <2>4. Len(specified) \in Nat /\ DOMAIN specified = 1..Len(specified) /\ DOMAIN sorting = 1..Len(specified) + 1
        OBVIOUS
    <2>5. \A n \in DOMAIN sorting : sorting[n] = IF n = Len(specified) + 1 THEN least ELSE specified[n]
        BY <2>4
    <2>6. Len(specified) + 1 \in DOMAIN sorting /\ sorting[Len(specified) + 1].field = "last_modified"
        BY <2>4, <2>5
    <2>7. (\A n \in DOMAIN specified : specified[n].direction # 1) => \A n \in DOMAIN sorting : sorting[n].direction # 1
        BY <2>4, <2>5
    <2> HIDE DEF sorting
    <2> QED BY <2>1, <2>3, <2>6, <2>7 DEF IsSorting
<1> QED BY <1>1, <1>2

\* Whether o comes before p because of field n of the sort order.
PrecedesAt(sorting, o, p, n) ==
    LET x == Value(o, sorting[n].field)
        y == Value(p, sorting[n].field)
    IN /\ IF sorting[n].direction = 1 THEN Less(x, y) ELSE Less(y, x)
       /\ \A k \in 1..(n - 1) : Value(o, sorting[k].field) = Value(p, sorting[k].field)

\* Sort orders are made of fields.
LEMMA FieldsOfSorting ==
    ASSUME NEW sorting, IsSorting(sorting)
    PROVE  /\ \A n \in DOMAIN sorting : n \in Nat \ {0} /\ sorting[n].field \in Fields /\ sorting[n].direction \in {0, 1}
           /\ \A n \in DOMAIN sorting : \A k \in 1..(n - 1) : k \in DOMAIN sorting
<1>1. sorting \in Seq(SortField)
    BY DEF IsSorting
<1>2. DOMAIN sorting = 1..Len(sorting) /\ Len(sorting) \in Nat
    BY <1>1
<1>3. \A n \in DOMAIN sorting : sorting[n] \in SortField
    BY <1>1
<1> QED BY <1>2, <1>3 DEF SortField

\* No object precedes itself.
LEMMA PrecedesIrreflexive ==
    ASSUME NEW sorting, IsSorting(sorting), NEW o, IsObject(o)
    PROVE  ~Precedes(sorting, o, o)
<1>1. \A n \in DOMAIN sorting : sorting[n].field \in Fields
    BY FieldsOfSorting
<1>2. \A n \in DOMAIN sorting : IsComparable(Value(o, sorting[n].field))
    BY <1>1, ObjectValues
<1>3. \A n \in DOMAIN sorting : ~Less(Value(o, sorting[n].field), Value(o, sorting[n].field))
    BY <1>2, LessIsOrder
<1> QED BY <1>3 DEF Precedes

\* What precedes an object that precedes another one precedes that one too.
LEMMA PrecedesTransitive ==
    ASSUME NEW sorting, IsSorting(sorting), NEW o, IsObject(o), NEW p, IsObject(p), NEW q, IsObject(q),
           Precedes(sorting, o, p), Precedes(sorting, p, q)
    PROVE  Precedes(sorting, o, q)
<1>1. PICK n \in DOMAIN sorting : PrecedesAt(sorting, o, p, n)
    BY DEF Precedes, PrecedesAt
<1>2. PICK m \in DOMAIN sorting : PrecedesAt(sorting, p, q, m)
    BY DEF Precedes, PrecedesAt
<1>3. n \in Nat \ {0} /\ m \in Nat \ {0} /\ sorting[n].field \in Fields /\ sorting[m].field \in Fields
    BY FieldsOfSorting
<1>4. SUFFICES \E k \in DOMAIN sorting : PrecedesAt(sorting, o, q, k)
    BY DEF Precedes, PrecedesAt
<1>5. CASE n < m
    <2>1. n \in 1..(m - 1) /\ \A k \in 1..(n - 1) : k \in 1..(m - 1)
        BY <1>3, <1>5
    <2>2. PrecedesAt(sorting, o, q, n)
        BY <1>1, <1>2, <2>1 DEF PrecedesAt
    <2> QED BY <2>2
<1>6. CASE m < n
    <2>1. m \in 1..(n - 1) /\ \A k \in 1..(m - 1) : k \in 1..(n - 1)
        BY <1>3, <1>6
    <2>2. PrecedesAt(sorting, o, q, m)
        BY <1>1, <1>2, <2>1 DEF PrecedesAt
    <2> QED BY <2>2
<1>7. CASE n = m
    <2> DEFINE x == Value(o, sorting[n].field)
               y == Value(p, sorting[n].field)
               z == Value(q, sorting[n].field)
    <2>1. IsComparable(x) /\ IsComparable(y) /\ IsComparable(z)
        BY <1>3, ObjectValues
    <2>2. (Less(x, y) /\ Less(y, z) => Less(x, z)) /\ (Less(z, y) /\ Less(y, x) => Less(z, x))
        BY <2>1, LessIsOrder
    <2>3. PrecedesAt(sorting, o, q, n)
        BY <1>1, <1>2, <1>7, <2>2 DEF PrecedesAt
    <2> QED BY <2>3
<1> QED BY <1>3, <1>5, <1>6, <1>7

\* Of two objects of different stamps, one precedes the other.
LEMMA PrecedesTotal ==
    ASSUME NEW sorting, IsSorting(sorting), NEW o, IsObject(o), NEW p, IsObject(p), o.last_modified # p.last_modified
    PROVE  Precedes(sorting, o, p) \/ Precedes(sorting, p, o)
<1> DEFINE differ == {n \in DOMAIN sorting : Value(o, sorting[n].field) # Value(p, sorting[n].field)}
<1>1. differ \in SUBSET Nat
    BY FieldsOfSorting
<1>2. differ # {}
    BY DEF IsSorting, Value
<1>3. PICK n \in differ : \A k \in differ : n <= k
    <2> HIDE DEF differ
    <2> QED BY <1>1, <1>2, FirstNumber
<1>4. n \in DOMAIN sorting /\ n \in Nat \ {0} /\ sorting[n].field \in Fields
    BY FieldsOfSorting
<1>5. \A k \in 1..(n - 1) : Value(o, sorting[k].field) = Value(p, sorting[k].field)
    <2>1. \A k \in 1..(n - 1) : k \in DOMAIN sorting
        BY <1>4, FieldsOfSorting
    <2> QED BY <2>1, <1>3, <1>4
<1> DEFINE x == Value(o, sorting[n].field)
           y == Value(p, sorting[n].field)
<1>6. IsComparable(x) /\ IsComparable(y) /\ x # y
    BY <1>3, <1>4, ObjectValues
<1>7. Less(x, y) \/ Less(y, x)
    BY <1>6, LessIsOrder
<1>8. PrecedesAt(sorting, o, p, n) \/ PrecedesAt(sorting, p, o, n)
    BY <1>5, <1>7 DEF PrecedesAt
<1> QED BY <1>4, <1>8 DEF Precedes, PrecedesAt

\* The two backends sort alike.
LEMMA SortsAgree ==
    ASSUME NEW sorting, IsSorting(sorting), NEW o, IsObject(o), NEW p, IsObject(p)
    PROVE  Precedes(sorting, o, p) = SqlPrecedes(sorting, o, p)
<1>1. ASSUME NEW n \in DOMAIN sorting
      PROVE  LET x == Value(o, sorting[n].field)
                 y == Value(p, sorting[n].field)
             IN SqlLess(x, y) = Less(x, y) /\ SqlLess(y, x) = Less(y, x)
    <2>1. sorting[n].field \in Fields
        BY FieldsOfSorting
    <2>2. IsValue(Value(o, sorting[n].field)) /\ IsValue(Value(p, sorting[n].field))
        BY <2>1, ObjectValues
    <2> QED BY <2>2, SqlLessIsLess
<1> QED BY <1>1 DEF Precedes, SqlPrecedes

\* Versions with different stamps.
AreVersions(S) == /\ \A o \in S : IsObject(o)
                  /\ \A o, p \in S : o.last_modified = p.last_modified => o = p

\* Sorting puts objects in one order, the same for both backends.
LEMMA PrecedesIsOrder ==
    ASSUME NEW sorting, IsSorting(sorting), NEW S, AreVersions(S)
    PROVE  LET R == {pair \in S \X S : Precedes(sorting, pair[1], pair[2])} IN
           /\ IsOrder(S, R)
           /\ R = {pair \in S \X S : SqlPrecedes(sorting, pair[1], pair[2])}
           /\ \A o, p : <<o, p>> \in R => Precedes(sorting, o, p)
<1> DEFINE R == {pair \in S \X S : Precedes(sorting, pair[1], pair[2])}
<1>1. \A o, p : <<o, p>> \in R <=> o \in S /\ p \in S /\ Precedes(sorting, o, p)
    OBVIOUS
<1>2. R = {pair \in S \X S : SqlPrecedes(sorting, pair[1], pair[2])}
    <2>1. \A o, p \in S : Precedes(sorting, o, p) = SqlPrecedes(sorting, o, p)
        BY SortsAgree DEF AreVersions
    <2> QED BY <2>1
<1> HIDE DEF R
<1>3. \A o \in S : <<o, o>> \notin R
    BY <1>1, PrecedesIrreflexive DEF AreVersions
<1>4. \A o, p, q \in S : <<o, p>> \in R /\ <<p, q>> \in R => <<o, q>> \in R
    BY <1>1, PrecedesTransitive DEF AreVersions
<1>5. \A o, p \in S : o # p => <<o, p>> \in R \/ <<p, o>> \in R
    BY <1>1, PrecedesTotal DEF AreVersions
<1>6. IsOrder(S, R)
    BY <1>3, <1>4, <1>5 DEF IsOrder
<1> QED BY <1>1, <1>2, <1>6 DEF R

(***************************************************************************)
(* Filters                                                                 *)
(***************************************************************************)

\* Those of queries, and those of the rules of pages, whose values may be missing.
IsCondition(f) ==
    \/ IsFilter(f)
    \/ f.field \in Fields /\ f.op \in {"eq", "lt", "gt"} /\ IsValue(f.value)
AreConditions(filters) == filters \in Seq(Range(filters)) /\ \A f \in Range(filters) : IsCondition(f)

\* The comparisons of memory and of SQL, but for what memory cannot compare.
LEMMA ComparisonsAgree ==
    ASSUME NEW o, IsObject(o), NEW f, IsCondition(f), f.op \in Comparisons
    PROVE  MemoryCondition(o, f) = SqlFilter(o, f)
<1> DEFINE left == Value(o, f.field)
<1>1. f.field \in Fields /\ IsValue(f.value) /\ (f.value = Missing => f.op \in {"eq", "lt", "gt"})
    BY DEF IsCondition, IsFilter, Comparisons, Memberships
<1>2. IsValue(left)
    BY <1>1, ObjectValues
<1>3. f.op \in {"lt", "max", "eq", "not", "min", "gt"} /\ f.op # "has"
    BY DEF Comparisons
<1>4. MemoryCondition(o, f) = Compare(f.op, left, f.value)
    BY <1>3 DEF MemoryCondition, Comparisons
<1>5. CASE f.value = Missing
    <2>1. f.op \in {"eq", "lt", "gt"}
        BY <1>1, <1>5
    <2>2. ~Less(Missing, left) /\ (Less(left, Missing) <=> left # Missing)
        BY <1>2, SqlLessIsLess
    <2>3. SqlFilter(o, f) = (\/ f.op = "max" \/ (f.op \in {"eq", "min"} /\ left = Missing) \/ (f.op = "lt" /\ left # Missing))
        BY <1>3, <1>5 DEF SqlFilter
    <2>4. CASE f.op = "eq"
        BY <2>4, <1>4, <1>5, <2>3 DEF Compare
    <2>5. CASE f.op = "lt"
        <3>1. Compare(f.op, left, f.value) = Less(left, Missing)
            BY <2>5, <1>5 DEF Compare
        <3>2. Less(left, Missing) \in BOOLEAN
            BY DEF Less
        <3> QED BY <3>1, <3>2, <2>2, <2>5, <1>4, <2>3
    <2>6. CASE f.op = "gt"
        <3>1. Compare(f.op, left, f.value) = Less(Missing, left)
            BY <2>6, <1>5 DEF Compare
        <3>2. Less(Missing, left) \in BOOLEAN
            BY DEF Less
        <3> QED BY <3>1, <3>2, <2>2, <2>6, <1>4, <2>3
    <2> QED BY <2>1, <2>4, <2>5, <2>6
<1>6. CASE f.value # Missing /\ left # Missing
    <2>1. SqlFilter(o, f) = SqlCondition(left, f)
        BY <1>3, <1>6 DEF SqlFilter
    <2>2. SqlCondition(left, f) = Compare(f.op, left, f.value)
        BY <1>3 DEF SqlCondition, Comparisons
    <2> QED BY <2>1, <2>2, <1>4
<1>7. CASE f.value # Missing /\ left = Missing
    <2>1. SqlFilter(o, f) = (f.op \in NullTrue)
        BY <1>3, <1>7 DEF SqlFilter
    <2>2. ~Less(left, f.value) /\ Less(f.value, left)
        BY <1>1, <1>7, SqlLessIsLess
    <2>3. Compare(f.op, left, f.value) = (f.op \in {"not", "min", "gt"})
        <3>1. (~Less(left, f.value)) = TRUE /\ (~Less(f.value, left)) = FALSE /\ Less(left, f.value) = FALSE /\ Less(f.value, left) = TRUE
            <4>1. Less(left, f.value) \in BOOLEAN /\ Less(f.value, left) \in BOOLEAN
                BY DEF Less
            <4> QED BY <2>2, <4>1
        <3>2. (left = f.value) = FALSE /\ (left # f.value) = TRUE
            BY <1>7
        <3>3. CASE f.op \in {"lt", "max", "eq"}
            <4>1. Compare(f.op, left, f.value) = FALSE
                BY <3>1, <3>2, <3>3 DEF Compare
            <4>2. (f.op \in {"not", "min", "gt"}) = FALSE
                BY <3>3
            <4> QED BY <4>1, <4>2
        <3>4. CASE f.op \in {"not", "min", "gt"}
            <4>1. Compare(f.op, left, f.value) = TRUE
                BY <3>1, <3>2, <3>4 DEF Compare
            <4>2. (f.op \in {"not", "min", "gt"}) = TRUE
                BY <3>4
            <4> QED BY <4>1, <4>2
        <3> QED BY <3>3, <3>4, <1>3
    <2>4. f.op \in {"not", "min", "gt"} <=> f.op \in NullTrue
        BY <1>3 DEF NullTrue
    <2> QED BY <2>1, <2>3, <2>4, <1>4
<1> QED BY <1>5, <1>6, <1>7

\* The backends agree on filters by membership.
LEMMA MembershipsAgree ==
    ASSUME NEW o, IsObject(o), NEW f, IsFilter(f), f.op \in Memberships,
           f.op = "like" => Value(o, f.field)[1] = 1,
           f.op \in {"contains", "contains_any"} => Value(o, f.field)[1] # 1
    PROVE  MemoryCondition(o, f) = SqlFilter(o, f)
<1> DEFINE left == Value(o, f.field)
<1>1. f.field \in Fields /\ Missing \notin f.value /\ (f.op \in {"in", "exclude"} => f.value # {})
    BY DEF IsFilter, Comparisons, Memberships
<1>2. IsValue(left)
    BY <1>1, ObjectValues
<1>3. f.op \in {"in", "exclude", "like", "contains", "contains_any"} /\ f.op \notin Comparisons /\ f.op # "has"
    BY DEF Memberships, Comparisons
<1>4. left[1] = 6 <=> left = Missing
    BY <1>2, ValuesAre
<1>5. SqlFilter(o, f) = IF left = Missing THEN f.op = "exclude" ELSE SqlCondition(left, f)
    <2>1. f.op \in NullTrue <=> f.op = "exclude"
        BY <1>3 DEF NullTrue
    <2> QED BY <2>1, <1>3 DEF SqlFilter
<1>6. CASE f.op = "in"
    <2>1. MemoryCondition(o, f) = (left \in f.value) /\ SqlCondition(left, f) = (left \in f.value)
        BY <1>3, <1>6 DEF MemoryCondition, SqlCondition
    <2> QED BY <2>1, <1>1, <1>5, <1>6
<1>7. CASE f.op = "exclude"
    <2>1. MemoryCondition(o, f) = (left \notin f.value) /\ SqlCondition(left, f) = (f.value # {} /\ left \notin f.value)
        BY <1>3, <1>7 DEF MemoryCondition, SqlCondition
    <2> QED BY <2>1, <1>1, <1>5, <1>7
<1>8. CASE f.op = "like"
    <2>1. MemoryCondition(o, f) = (left \in f.value) /\ SqlCondition(left, f) = (left \in f.value)
        BY <1>3, <1>8 DEF MemoryCondition, SqlCondition
    <2> QED BY <2>1, <1>4, <1>5, <1>8
<1>9. CASE f.op = "contains"
    <2>1. MemoryCondition(o, f) = (IsIterable(left) /\ f.value \subseteq Iterated(left))
          /\ SqlCondition(left, f) = (left[1] = 4 /\ f.value \subseteq left[2])
        BY <1>3, <1>9 DEF MemoryCondition, SqlCondition
    <2>2. IsIterable(left) <=> left[1] = 4
        BY <1>9 DEF IsIterable
    <2>3. left[1] = 4 => Iterated(left) = left[2]
        BY DEF Iterated
    <2> QED BY <2>1, <2>2, <2>3, <1>4, <1>5, <1>9
<1>10. CASE f.op = "contains_any"
    <2>1. MemoryCondition(o, f) = (IsIterable(left) /\ f.value \cap Iterated(left) # {})
          /\ SqlCondition(left, f) = (left[1] = 4 /\ f.value \cap left[2] # {})
        BY <1>3, <1>10 DEF MemoryCondition, SqlCondition
    <2>2. IsIterable(left) <=> left[1] = 4
        BY <1>10 DEF IsIterable
    <2>3. left[1] = 4 => Iterated(left) = left[2]
        BY DEF Iterated
    <2> QED BY <2>1, <2>2, <2>3, <1>4, <1>5, <1>10
<1> QED BY <1>3, <1>6, <1>7, <1>8, <1>9, <1>10

\* What memory makes of the filters, one after the other.
MatchAt(m, o, filters, n) == IF n = 0 THEN "yes" ELSE MemoryFilter(o, filters[n], m[n - 1])

\* The fold over the filters exists.
LEMMA MatchesExist ==
    ASSUME NEW o, NEW filters, NEW last \in Nat
    PROVE  \E m : m = [n \in 0..last |-> MatchAt(m, o, filters, n)]
<1> DEFINE IsRun(m, n) == m = [k \in 0..n |-> MatchAt(m, o, filters, k)]
           Bad == {n \in Nat : ~\E m : IsRun(m, n)}
<1> SUFFICES Bad = {}
    OBVIOUS
<1> SUFFICES ASSUME Bad # {} PROVE FALSE
    OBVIOUS
<1>1. PICK n \in Bad : \A k \in Bad : n <= k
    <2>1. Bad \in SUBSET Nat
        OBVIOUS
    <2> HIDE DEF Bad
    <2> QED BY <2>1, FirstNumber
<1>2. CASE n = 0
    <2> DEFINE m == [k \in 0..0 |-> "yes"]
    <2>1. IsRun(m, 0)
        BY DEF MatchAt
    <2> QED BY <1>1, <1>2, <2>1
<1>3. CASE n # 0
    <2>1. n - 1 \in Nat /\ n - 1 \notin Bad
        BY <1>1, <1>3
    <2>2. PICK m : IsRun(m, n - 1)
        BY <2>1
    <2> DEFINE g == [k \in 0..n |-> IF k = n THEN MemoryFilter(o, filters[n], m[n - 1]) ELSE m[k]]
    <2>3. ASSUME NEW k \in 0..n - 1
          PROVE  g[k] = m[k] /\ m[k] = MatchAt(m, o, filters, k)
        <3>1. k \in 0..n /\ k # n
            BY <2>1
        <3>2. g[k] = m[k]
            BY <3>1
        <3> QED BY <3>2, <2>2 DEF MatchAt
    <2>4. ASSUME NEW k \in 0..n PROVE g[k] = MatchAt(g, o, filters, k)
        <3>1. CASE k = n
            <4>1. g[n - 1] = m[n - 1]
                BY <2>1, <2>3
            <4> QED BY <3>1, <4>1, <2>1, <1>3 DEF MatchAt
        <3>2. CASE k # n
            <4>1. k \in 0..n - 1 /\ (k # 0 => k - 1 \in 0..n - 1)
                BY <3>2, <2>1
            <4> QED BY <4>1, <2>3 DEF MatchAt
        <3> QED BY <3>1, <3>2
    <2>5. g = [k \in 0..n |-> MatchAt(g, o, filters, k)]
        <3> HIDE DEF g
        <3>1. g = [k \in 0..n |-> g[k]]
            BY DEF g
        <3> QED BY <3>1, <2>4
    <2> QED BY <2>5, <1>1
<1> QED BY <1>2, <1>3

\* m is what memory makes of the filters, one after the other.
AreMatches(m, o, filters) ==
    /\ MemoryMatches(o, filters) = m[Len(filters)]
    /\ m[0] = "yes"
    /\ \A n \in 1..Len(filters) : m[n] = MemoryFilter(o, filters[n], m[n - 1])

\* The fold over the filters, one filter at a time.
LEMMA MatchesStep ==
    ASSUME NEW o, NEW filters, Len(filters) \in Nat
    PROVE  \E m : AreMatches(m, o, filters)
<1> DEFINE L == Len(filters)
           F(m) == [n \in 0..L |-> IF n = 0 THEN "yes" ELSE MemoryFilter(o, filters[n], m[n - 1])]
           matches == CHOOSE m : m = F(m)
<1>1. \E m : m = F(m)
    <2>1. \E m : m = [n \in 0..L |-> MatchAt(m, o, filters, n)]
        BY MatchesExist
    <2> QED BY <2>1 DEF MatchAt
<1>2. matches = F(matches)
    <2> HIDE DEF F
    <2> QED BY <1>1
<1>3. MemoryMatches(o, filters) = matches[L]
    BY DEF MemoryMatches
<1> HIDE DEF matches
<1>4. matches[0] = "yes" /\ \A n \in 1..L : matches[n] = MemoryFilter(o, filters[n], matches[n - 1])
    BY <1>2
<1> QED BY <1>3, <1>4 DEF AreMatches

\* One filter after those that match.
LEMMA FilterAgrees ==
    ASSUME NEW o, IsObject(o), NEW f, IsCondition(f), NEW before \in {"yes", "no", "error"},
           f.op = "has" => before # "no",
           f.op \in {"contains", "contains_any"} => Value(o, f.field)[1] # 1
    PROVE  LET after == MemoryFilter(o, f, before) IN
           /\ after \in {"yes", "no", "error"}
           /\ after # "error" => before # "error" /\ (after = "yes" <=> before = "yes" /\ SqlFilter(o, f))
           /\ before # "error" /\ f.op \in Comparisons => after # "error"
<1>1. f.op \in {"has"} \cup Comparisons \cup Memberships /\ "has" \notin Comparisons /\ "like" \notin Comparisons
    BY DEF IsCondition, IsFilter, Comparisons
<1>2. CASE before = "error"
    BY <1>2 DEF MemoryFilter
<1>3. CASE before # "error" /\ f.op = "has"
    <2>1. before = "yes"
        BY <1>3
    <2>2. f.value \in BOOLEAN
        BY <1>3, <1>1 DEF IsCondition, IsFilter, Memberships
    <2>3. SqlFilter(o, f) <=> (Value(o, f.field) # Missing) = f.value
        <3>1. SqlFilter(o, f) = ((Value(o, f.field) = Missing) # f.value)
            BY <1>3, <1>1 DEF SqlFilter
        <3>2. CASE f.value = TRUE
            BY <3>1, <3>2
        <3>3. CASE f.value = FALSE
            BY <3>1, <3>3
        <3> QED BY <2>2, <3>2, <3>3
    <2>4. MemoryFilter(o, f, before) = IF (Value(o, f.field) # Missing) = f.value THEN "yes" ELSE "no"
        BY <1>3, <2>1 DEF MemoryFilter
    <2> QED BY <2>1, <2>3, <2>4, <1>3, <1>1
<1>4. CASE before = "no" /\ f.op # "has"
    BY <1>4 DEF MemoryFilter
<1>5. CASE before = "yes" /\ f.op # "has"
    <2>1. CASE f.op = "like" /\ Value(o, f.field)[1] # 1
        BY <1>5, <2>1, <1>1 DEF MemoryFilter
    <2>2. CASE ~(f.op = "like" /\ Value(o, f.field)[1] # 1)
        <3>1. MemoryFilter(o, f, before) = IF MemoryCondition(o, f) THEN "yes" ELSE "no"
            BY <1>5, <2>2 DEF MemoryFilter
        <3>2. MemoryCondition(o, f) = SqlFilter(o, f)
            <4>1. CASE f.op \in Comparisons
                BY <4>1, ComparisonsAgree
            <4>2. CASE f.op \notin Comparisons
                <5>1. f.op \in Memberships
                    BY <4>2, <1>1, <1>5
                <5>2. IsFilter(f)
                    BY <4>2 DEF IsCondition, Comparisons
                <5> QED BY <5>1, <5>2, <2>2, MembershipsAgree
            <4> QED BY <4>1, <4>2
        <3> QED BY <3>1, <3>2, <1>5
    <2> QED BY <2>1, <2>2
<1> QED BY <1>2, <1>3, <1>4, <1>5

\* All filters: memory selects what PostgreSQL selects, or fails.
NotOfText(o, filters) ==
    \A f \in Range(filters) : f.op \in {"contains", "contains_any"} => Value(o, f.field)[1] # 1
LEMMA FiltersAgree ==
    ASSUME NEW o, IsObject(o), NEW filters, AreConditions(filters), Conjunctive(filters), NotOfText(o, filters)
    PROVE  /\ MemoryMatches(o, filters) # "error" => (MemoryMatches(o, filters) = "yes" <=> SqlMatches(o, filters))
           /\ (\A f \in Range(filters) : f.op \in Comparisons) => MemoryMatches(o, filters) # "error"
<1> DEFINE L == Len(filters)
<1>1. Len(filters) \in Nat /\ DOMAIN filters = 1..L
    BY DEF AreConditions
<1>0. PICK m : AreMatches(m, o, filters)
    BY <1>1, MatchesStep
<1>2. /\ MemoryMatches(o, filters) = m[L]
      /\ m[0] = "yes"
      /\ \A n \in 1..L : m[n] = MemoryFilter(o, filters[n], m[n - 1])
    BY <1>0 DEF AreMatches
<1> DEFINE Right(n) ==
        /\ m[n] \in {"yes", "no", "error"}
        /\ m[n] # "error" => (m[n] = "yes" <=> \A k \in 1..n : SqlFilter(o, filters[k]))
        /\ (\A f \in Range(filters) : f.op \in Comparisons) => m[n] # "error"
<1>3. Right(0)
    BY <1>2
<1>4. ASSUME NEW n \in 1..L, Right(n - 1) PROVE Right(n)
    <2> DEFINE f == filters[n]
               before == m[n - 1]
    <2>1. f \in Range(filters)
        BY <1>1 DEF Range
    <2>2. IsCondition(f) /\ (f.op \in {"contains", "contains_any"} => Value(o, f.field)[1] # 1)
        BY <2>1 DEF AreConditions, NotOfText
    <2>3. f.op = "has" => before # "no"
        <3>1. f.op = "has" => n = 1
            BY <1>1 DEF Conjunctive
        <3> QED BY <3>1, <1>2
    <2>4. m[n] = MemoryFilter(o, f, before)
        BY <1>2
    <2>5. before \in {"yes", "no", "error"}
        BY <1>4
    <2> HIDE DEF f, before
    <2>6. /\ m[n] \in {"yes", "no", "error"}
          /\ m[n] # "error" => before # "error" /\ (m[n] = "yes" <=> before = "yes" /\ SqlFilter(o, f))
          /\ before # "error" /\ f.op \in Comparisons => m[n] # "error"
        BY <2>2, <2>3, <2>4, <2>5, FilterAgrees
    <2>7. (\A k \in 1..n : SqlFilter(o, filters[k])) <=> (\A k \in 1..(n - 1) : SqlFilter(o, filters[k])) /\ SqlFilter(o, f)
        <3>1. \A k \in 1..n : k \in 1..(n - 1) \/ k = n
            BY <1>1
        <3>2. \A k \in 1..(n - 1) : k \in 1..n
            BY <1>1
        <3>3. n \in 1..n
            BY <1>1
        <3> QED BY <3>1, <3>2, <3>3 DEF f
    <2>8. m[n] # "error" => (m[n] = "yes" <=> \A k \in 1..n : SqlFilter(o, filters[k]))
        <3>1. before # "error" => (before = "yes" <=> \A k \in 1..(n - 1) : SqlFilter(o, filters[k]))
            BY <1>4 DEF before
        <3> QED BY <3>1, <2>6, <2>7
    <2>9. (\A g \in Range(filters) : g.op \in Comparisons) => m[n] # "error"
        <3>1. (\A g \in Range(filters) : g.op \in Comparisons) => before # "error"
            BY <1>4 DEF before
        <3> QED BY <3>1, <2>1, <2>6
    <2> QED BY <2>6, <2>8, <2>9
<1> HIDE DEF Right
<1>5. Right(L)
    <2> DEFINE Bad == {n \in 0..L : ~Right(n)}
    <2> SUFFICES ASSUME Bad # {} PROVE FALSE
        BY <1>1
    <2>1. Bad \in SUBSET Nat
        BY <1>1
    <2>2. PICK n \in Bad : \A k \in Bad : n <= k
        <3> HIDE DEF Bad
        <3> QED BY <2>1, FirstNumber
    <2>3. n # 0
        BY <2>2, <1>3
    <2>4. n \in 1..L /\ n - 1 \in 0..L /\ n - 1 \notin Bad
        BY <2>2, <2>3, <1>1
    <2> QED BY <2>2, <2>4, <1>4
<1> QED BY <1>1, <1>2, <1>5 DEF Right, SqlMatches

(***************************************************************************)
(* Pages                                                                   *)
(***************************************************************************)

\* What _build_pagination_rules() and _build_pagination_token() make.
IsPageRule(rule) ==
    /\ AreConditions(rule)
    /\ \A f \in Range(rule) : f.op \in {"eq", "lt", "gt"}
IsToken(last) == DOMAIN last \subseteq Fields /\ \A f \in DOMAIN last : IsValue(last[f]) /\ last[f] # Missing

\* The backends agree on the rules of pages.
LEMMA RulesAgree ==
    ASSUME NEW o, IsObject(o), NEW rule, IsPageRule(rule)
    PROVE  /\ (MemoryMatches(o, rule) = "yes") = SqlMatches(o, rule)
           /\ MemoryMatches(o, rule) # "error"
           /\ Matches(o, rule) <=> SqlMatches(o, rule)
<1>1. AreConditions(rule) /\ \A f \in Range(rule) : f.op \in {"eq", "lt", "gt"}
    BY DEF IsPageRule
<1>2. \A n \in DOMAIN rule : rule[n] \in Range(rule)
    BY DEF Range
<1>3. Conjunctive(rule) /\ NotOfText(o, rule) /\ \A f \in Range(rule) : f.op \in Comparisons
    BY <1>1, <1>2 DEF Conjunctive, NotOfText, Comparisons
<1>4. MemoryMatches(o, rule) # "error" /\ (MemoryMatches(o, rule) = "yes" <=> SqlMatches(o, rule))
    BY <1>1, <1>3, FiltersAgree
<1>5. SqlMatches(o, rule) \in BOOLEAN
    BY DEF SqlMatches
<1> QED BY <1>4, <1>5 DEF Matches

\* The rule of the n-th field of a sort order.
Given(last, field) == IF field \in DOMAIN last THEN last[field] ELSE Missing
RuleOf(sorting, last, n) ==
    [k \in 1..n |-> IF k < n THEN [field |-> sorting[k].field, op |-> "eq", value |-> Given(last, sorting[k].field)]
                    ELSE Beyond(sorting[n], Given(last, sorting[n].field))]

\* Whether o is beyond the token because of field n of the sort order.
IsBeyondAt(sorting, last, o, n) ==
    LET x == Given(last, sorting[n].field)
        y == Value(o, sorting[n].field)
    IN /\ IF sorting[n].direction = 1 THEN Less(x, y) ELSE Less(y, x)
       /\ \A k \in 1..(n - 1) : Given(last, sorting[k].field) = Value(o, sorting[k].field)

\* The rules of a page are one for each field of the sort order.
LEMMA RulesAre ==
    ASSUME NEW sorting, NEW last
    PROVE  PaginationRules(sorting, last) = {RuleOf(sorting, last, n) : n \in DOMAIN sorting}
BY DEF PaginationRules, RuleOf, Given

\* What a comparison of a rule says.
LEMMA ComparisonIs ==
    ASSUME NEW o, IsObject(o), NEW field \in Fields, NEW op \in {"eq", "lt", "gt"}, NEW value, IsValue(value)
    PROVE  LET f == [field |-> field, op |-> op, value |-> value] IN
           /\ IsCondition(f)
           /\ op = "eq" => (SqlFilter(o, f) <=> Value(o, field) = value)
           /\ op = "lt" => (SqlFilter(o, f) <=> Less(Value(o, field), value))
           /\ op = "gt" => (SqlFilter(o, f) <=> Less(value, Value(o, field)))
<1> DEFINE f == [field |-> field, op |-> op, value |-> value]
<1>1. f.field = field /\ f.op = op /\ f.value = value
    OBVIOUS
<1> HIDE DEF f
<1>2. IsCondition(f) /\ f.op \in Comparisons
    BY <1>1 DEF IsCondition, Comparisons
<1>3. MemoryCondition(o, f) = SqlFilter(o, f)
    BY <1>2, ComparisonsAgree
<1>4. MemoryCondition(o, f) = Compare(op, Value(o, field), value)
    BY <1>1 DEF MemoryCondition, Comparisons
<1>5. /\ op = "eq" => Compare(op, Value(o, field), value) = (Value(o, field) = value)
      /\ op = "lt" => Compare(op, Value(o, field), value) = Less(Value(o, field), value)
      /\ op = "gt" => Compare(op, Value(o, field), value) = Less(value, Value(o, field))
    BY DEF Compare
<1> QED BY <1>2, <1>3, <1>4, <1>5 DEF f

\* A rule is: equal on the first fields, beyond on the next one.
LEMMA RuleFields ==
    ASSUME NEW sorting, IsSorting(sorting), NEW last, IsToken(last), NEW n \in DOMAIN sorting
    PROVE  /\ n \in Nat \ {0} /\ DOMAIN RuleOf(sorting, last, n) = 1..n
           /\ \A k \in 1..n : /\ sorting[k].field \in Fields /\ sorting[k].direction \in {0, 1}
                              /\ IsValue(Given(last, sorting[k].field))
                              /\ RuleOf(sorting, last, n)[k] =
                                    [field |-> sorting[k].field, value |-> Given(last, sorting[k].field),
                                     op |-> IF k < n THEN "eq" ELSE IF sorting[n].direction = 1 THEN "gt" ELSE "lt"]
           /\ IsPageRule(RuleOf(sorting, last, n))
<1> DEFINE rule == RuleOf(sorting, last, n)
<1>1. n \in Nat \ {0} /\ \A k \in 1..n : k \in DOMAIN sorting
    <2>1. n \in Nat \ {0} /\ \A k \in 1..(n - 1) : k \in DOMAIN sorting
        BY FieldsOfSorting
    <2>2. \A k \in 1..n : k \in 1..(n - 1) \/ k = n
        BY <2>1
    <2> QED BY <2>1, <2>2
<1>2. DOMAIN rule = 1..n
    BY DEF RuleOf
<1>3. ASSUME NEW k \in 1..n
      PROVE  /\ sorting[k].field \in Fields /\ IsValue(Given(last, sorting[k].field)) /\ sorting[k].direction \in {0, 1}
             /\ rule[k] = [field |-> sorting[k].field, value |-> Given(last, sorting[k].field),
                           op |-> IF k < n THEN "eq" ELSE IF sorting[n].direction = 1 THEN "gt" ELSE "lt"]
    <2>1. sorting[k].field \in Fields /\ sorting[k].direction \in {0, 1}
        BY <1>1, FieldsOfSorting
    <2>2. IsValue(Missing)
        BY DEF IsValue
    <2>3. IsValue(Given(last, sorting[k].field))
        BY <2>1, <2>2 DEF Given, IsToken
    <2>4. CASE k < n
        <3>1. rule[k] = [field |-> sorting[k].field, op |-> "eq", value |-> Given(last, sorting[k].field)]
            BY <2>4 DEF RuleOf
        <3> HIDE DEF rule
        <3> QED BY <3>1, <2>1, <2>3, <2>4
    <2>5. CASE ~(k < n)
        <3>1. k = n
            BY <2>5, <1>1
        <3>2. rule[k] = Beyond(sorting[n], Given(last, sorting[n].field))
            BY <2>5 DEF RuleOf
        <3> HIDE DEF rule
        <3> QED BY <3>1, <3>2, <2>1, <2>3, <2>5 DEF Beyond
    <2> QED BY <2>4, <2>5
<1>4. IsPageRule(rule)
    <2>1. rule \in Seq(Range(rule))
        <3>1. rule = [k \in 1..n |-> rule[k]]
            BY DEF RuleOf
        <3> HIDE DEF rule
        <3>2. rule \in [1..n -> Range(rule)]
            BY <3>1, <1>2 DEF Range
        <3> QED BY <3>2, <1>1
    <2> HIDE DEF rule
    <2>2. ASSUME NEW k \in 1..n PROVE IsCondition(rule[k]) /\ rule[k].op \in {"eq", "lt", "gt"}
        <3>1. rule[k].field \in Fields /\ rule[k].op \in {"eq", "lt", "gt"} /\ IsValue(rule[k].value)
            <4>1. rule[k].field = sorting[k].field /\ rule[k].value = Given(last, sorting[k].field)
                  /\ rule[k].op = IF k < n THEN "eq" ELSE IF sorting[n].direction = 1 THEN "gt" ELSE "lt"
                <5>1. rule[k] = [field |-> sorting[k].field, value |-> Given(last, sorting[k].field),
                                 op |-> IF k < n THEN "eq" ELSE IF sorting[n].direction = 1 THEN "gt" ELSE "lt"]
                    BY <1>3
                <5> QED BY <5>1
            <4>2. rule[k].op \in {"eq", "lt", "gt"}
                BY <4>1
            <4> QED BY <4>1, <4>2, <1>3
        <3> QED BY <3>1 DEF IsCondition
    <2> QED BY <2>1, <2>2, <1>2 DEF IsPageRule, AreConditions, Range
<1> QED BY <1>1, <1>2, <1>3, <1>4

\* An object matches a rule if it is beyond the token because of that field.
LEMMA RuleIs ==
    ASSUME NEW sorting, IsSorting(sorting), NEW last, IsToken(last), NEW o, IsObject(o), NEW n \in DOMAIN sorting
    PROVE  SqlMatches(o, RuleOf(sorting, last, n)) <=> IsBeyondAt(sorting, last, o, n)
<1> DEFINE rule == RuleOf(sorting, last, n)
<1>1. /\ n \in Nat \ {0} /\ DOMAIN rule = 1..n
      /\ \A k \in 1..n : /\ sorting[k].field \in Fields
                         /\ IsValue(Given(last, sorting[k].field))
                         /\ rule[k] = [field |-> sorting[k].field, value |-> Given(last, sorting[k].field),
                                       op |-> IF k < n THEN "eq" ELSE IF sorting[n].direction = 1 THEN "gt" ELSE "lt"]
    <2> HIDE DEF rule
    <2>1. /\ n \in Nat \ {0} /\ DOMAIN rule = 1..n
          /\ \A k \in 1..n : /\ sorting[k].field \in Fields /\ sorting[k].direction \in {0, 1}
                             /\ IsValue(Given(last, sorting[k].field))
                             /\ rule[k] =
                                   [field |-> sorting[k].field, value |-> Given(last, sorting[k].field),
                                    op |-> IF k < n THEN "eq" ELSE IF sorting[n].direction = 1 THEN "gt" ELSE "lt"]
          /\ IsPageRule(rule)
        BY RuleFields DEF rule
    <2>2. n \in Nat \ {0} /\ DOMAIN rule = 1..n
        BY <2>1
    <2>3. ASSUME NEW k \in 1..n
          PROVE  /\ sorting[k].field \in Fields /\ IsValue(Given(last, sorting[k].field))
                 /\ rule[k] = [field |-> sorting[k].field, value |-> Given(last, sorting[k].field),
                               op |-> IF k < n THEN "eq" ELSE IF sorting[n].direction = 1 THEN "gt" ELSE "lt"]
        BY <2>1
    <2> QED BY <2>2, <2>3
<1> HIDE DEF rule
<1>2. \A k \in 1..(n - 1) : k \in 1..n /\ k < n
    BY <1>1
<1>3. ASSUME NEW k \in 1..(n - 1)
      PROVE  SqlFilter(o, rule[k]) <=> Given(last, sorting[k].field) = Value(o, sorting[k].field)
    <2>1. k \in 1..n /\ k < n
        BY <1>2
    <2>2. rule[k] = [field |-> sorting[k].field, op |-> "eq", value |-> Given(last, sorting[k].field)]
        BY <2>1, <1>1
    <2> QED BY <2>1, <2>2, <1>1, ComparisonIs
<1>4. SqlFilter(o, rule[n]) <=> IF sorting[n].direction = 1
                                THEN Less(Given(last, sorting[n].field), Value(o, sorting[n].field))
                                ELSE Less(Value(o, sorting[n].field), Given(last, sorting[n].field))
    <2>0. n \in 1..n /\ ~(n < n)
        BY <1>1
    <2>1. CASE sorting[n].direction = 1
        <3>1. rule[n] = [field |-> sorting[n].field, op |-> "gt", value |-> Given(last, sorting[n].field)]
            BY <2>0, <2>1, <1>1
        <3> QED BY <3>1, <2>0, <2>1, <1>1, ComparisonIs
    <2>2. CASE sorting[n].direction # 1
        <3>1. rule[n] = [field |-> sorting[n].field, op |-> "lt", value |-> Given(last, sorting[n].field)]
            BY <2>0, <2>2, <1>1
        <3> QED BY <3>1, <2>0, <2>2, <1>1, ComparisonIs
    <2> QED BY <2>1, <2>2
<1>5. SqlMatches(o, rule) <=> \A k \in 1..n : SqlFilter(o, rule[k])
    BY <1>1 DEF SqlMatches
<1>6. \A k \in 1..n : k = n \/ k \in 1..(n - 1)
    BY <1>1
<1>7. n \in 1..n
    BY <1>1
<1>8. (\A k \in 1..n : SqlFilter(o, rule[k])) <=> SqlFilter(o, rule[n]) /\ \A k \in 1..(n - 1) : SqlFilter(o, rule[k])
    BY <1>2, <1>6, <1>7
<1> QED BY <1>3, <1>4, <1>5, <1>8 DEF IsBeyondAt, rule

\* The token of an object tells what comes after it.
LEMMA TokensAre ==
    ASSUME NEW sorting, IsSorting(sorting), NEW o, IsObject(o)
    PROVE  /\ IsToken(TokenOf(sorting, o))
           /\ "last_modified" \in DOMAIN TokenOf(sorting, o) /\ TokenOf(sorting, o) # <<>>
           /\ TokenOf(sorting, o).last_modified = o.last_modified
           /\ \A f \in DOMAIN TokenOf(sorting, o) : Value(o, f) # Missing
           /\ \A n \in DOMAIN sorting : Given(TokenOf(sorting, o), sorting[n].field) = Value(o, sorting[n].field)
<1> DEFINE t == TokenOf(sorting, o)
           kept == {f \in {sorting[n].field : n \in DOMAIN sorting} : Value(o, f) # Missing}
<1>1. t = [f \in kept |-> o[f]]
    BY DEF TokenOf, Restrict
<1>2. \A n \in DOMAIN sorting : sorting[n].field \in Fields
    BY FieldsOfSorting
<1>3. kept \subseteq Fields
    BY <1>2
<1>4. "last_modified" \in kept
    <2>1. PICK n \in DOMAIN sorting : sorting[n].field = "last_modified"
        BY DEF IsSorting
    <2>2. o.last_modified # Missing
        BY DEF IsObject, Number, Missing
    <2> QED BY <2>1, <2>2 DEF Value
<1>5. DOMAIN t = kept /\ \A f \in kept : t[f] = o[f]
    BY <1>1
<1>6. \A n \in DOMAIN sorting : Given(t, sorting[n].field) = Value(o, sorting[n].field)
    BY <1>5 DEF Given, Value
<1>7. \A f \in kept : Value(o, f) # Missing
    OBVIOUS
<1> HIDE DEF t, kept
<1>8. IsToken(t)
    BY <1>3, <1>5, <1>7, ObjectValues DEF IsToken, Value
<1>9. t # <<>>
    <2>1. DOMAIN <<>> = {}
        OBVIOUS
    <2> QED BY <2>1, <1>4, <1>5
<1> QED BY <1>4, <1>5, <1>6, <1>7, <1>8, <1>9 DEF t

\* The rules let through what comes after the object of the token, whatever fields
\* that object or the others miss.
LEMMA RulesAreBeyond ==
    ASSUME NEW sorting, IsSorting(sorting), NEW last, IsObject(last), NEW o, IsObject(o)
    PROVE  (\E rule \in PaginationRules(sorting, TokenOf(sorting, last)) : SqlMatches(o, rule))
           <=> Precedes(sorting, last, o)
<1> DEFINE t == TokenOf(sorting, last)
<1>1. IsToken(t) /\ \A n \in DOMAIN sorting : Given(t, sorting[n].field) = Value(last, sorting[n].field)
    BY TokensAre
<1> HIDE DEF t
<1>2. ASSUME NEW n \in DOMAIN sorting
      PROVE  SqlMatches(o, RuleOf(sorting, t, n)) <=> PrecedesAt(sorting, last, o, n)
    <2>1. SqlMatches(o, RuleOf(sorting, t, n)) <=> IsBeyondAt(sorting, t, o, n)
        BY <1>1, RuleIs
    <2>2. \A k \in 1..(n - 1) : k \in DOMAIN sorting
        BY FieldsOfSorting
    <2> QED BY <2>1, <2>2, <1>1 DEF IsBeyondAt, PrecedesAt
<1>3. PaginationRules(sorting, t) = {RuleOf(sorting, t, n) : n \in DOMAIN sorting}
    BY RulesAre
<1>4. Precedes(sorting, last, o) <=> \E n \in DOMAIN sorting : PrecedesAt(sorting, last, o, n)
    BY DEF Precedes, PrecedesAt
<1> QED BY <1>2, <1>3, <1>4 DEF t

\* What a page has of the objects that match: the first ones, in order.
Found(objects, filters, rules) ==
    {o \in objects : Matches(o, filters) /\ (rules = {} \/ \E rule \in rules : SqlMatches(o, rule))}

\* A page is the first objects, in order, of those that the filters and rules let through.
LEMMA PageIs ==
    ASSUME NEW objects, IsFiniteSet(objects), AreVersions(objects), NEW filters,
           NEW rules, \A rule \in rules : IsPageRule(rule),
           NEW sorting, IsSorting(sorting), NEW limit \in Nat, limit <= MaxFetchSize + 1
    PROVE  LET found == Found(objects, filters, rules)
               p == Page(objects, filters, rules, sorting, limit)
           IN /\ IsFiniteSet(found)
              /\ p \in Seq(found) /\ Len(p) <= limit
              /\ Len(p) < limit => Range(p) = found
              /\ \A m, n \in DOMAIN p : m < n => Precedes(sorting, p[m], p[n])
              /\ \A m, n \in DOMAIN p : p[m] = p[n] => m = n
              /\ \A o \in found \ Range(p), n \in DOMAIN p : Precedes(sorting, p[n], o)
<1> DEFINE found == Found(objects, filters, rules)
           R == {pair \in found \X found : Precedes(sorting, pair[1], pair[2])}
           p == FirstOf(found, R, limit)
<1>0. found \in SUBSET objects
    BY DEF Found
<1>1. IsFiniteSet(found)
    BY <1>0, FS_Subset
<1>2. AreVersions(found)
    BY <1>0 DEF AreVersions
<1>3. /\ IsOrder(found, R)
      /\ R = {pair \in found \X found : SqlPrecedes(sorting, pair[1], pair[2])}
      /\ \A o, q : <<o, q>> \in R => Precedes(sorting, o, q)
    <2> HIDE DEF found
    <2> QED BY <1>2, PrecedesIsOrder
<1>4. ASSUME NEW o \in objects, NEW rule \in rules
      PROVE  SqlMatches(o, rule) <=> MemoryMatches(o, rule) = "yes"
    <2>1. IsObject(o)
        BY DEF AreVersions
    <2> QED BY <2>1, RulesAgree
<1>5. ASSUME backend = "memory" PROVE Page(objects, filters, rules, sorting, limit) = p
    <2>1. found = {o \in {q \in objects : MemoryMatches(q, filters) = "yes"} :
                      rules # {} => \E rule \in rules : MemoryMatches(o, rule) = "yes"}
        BY <1>4, <1>5 DEF Found, Matches
    <2> HIDE DEF found
    <2> QED BY <2>1, <1>5 DEF Page, Extract
<1>6. ASSUME backend # "memory" PROVE Page(objects, filters, rules, sorting, limit) = p
    <2>1. found = {o \in objects : /\ SqlMatches(o, filters)
                                   /\ rules # {} => \E rule \in rules : SqlMatches(o, rule)}
        BY <1>6 DEF Found, Matches
    <2>2. Least(limit, MaxFetchSize + 1) = limit
        BY QueriesAssumption DEF Least
    <2> HIDE DEF found
    <2>3. Page(objects, filters, rules, sorting, limit)
          = FirstOf(found, {pair \in found \X found : SqlPrecedes(sorting, pair[1], pair[2])}, limit)
        BY <2>1, <2>2, <1>6 DEF Page, Rows
    <2> QED BY <2>3, <1>3
<1>7. Page(objects, filters, rules, sorting, limit) = p
    BY <1>5, <1>6
<1> HIDE DEF found, R
<1>11. AreFirst(p, found, R, limit)
    BY <1>1, <1>3, FirstOnes
<1>8. /\ p \in Seq(found) /\ Len(p) <= limit
      /\ Len(p) < limit => Range(p) = found
      /\ \A m, n \in DOMAIN p : m < n => <<p[m], p[n]>> \in R
      /\ \A m, n \in DOMAIN p : p[m] = p[n] => m = n
      /\ \A o \in found \ Range(p), n \in DOMAIN p : <<p[n], o>> \in R
    BY <1>11 DEF AreFirst
<1> HIDE DEF p
<1>9. \A m, n \in DOMAIN p : m < n => Precedes(sorting, p[m], p[n])
    BY <1>8, <1>3
<1>10. \A o \in found \ Range(p), n \in DOMAIN p : Precedes(sorting, p[n], o)
    BY <1>8, <1>3
<1> QED BY <1>1, <1>7, <1>8, <1>9, <1>10 DEF found

(***************************************************************************)
(* Types                                                                   *)
(***************************************************************************)

\* Max() of a finite set of numbers.
LEMMA LastNumber ==
    ASSUME NEW S \in SUBSET Nat, S # {}, IsFiniteSet(S)
    PROVE  Max(S) \in S /\ \A s \in S : s <= Max(S)
<1> DEFINE R == {pair \in S \X S : pair[1] < pair[2]}
           n == Cardinality(S)
<1>1. \A o, p : <<o, p>> \in R <=> o \in S /\ p \in S /\ o < p
    OBVIOUS
<1> HIDE DEF R
<1>2. IsOrder(S, R)
    BY <1>1 DEF IsOrder
<1>3. n \in Nat /\ n # 0
    BY FS_CardinalityType, FS_EmptySet
<1>4. PICK m \in S : Rank(S, R, m) = n
    <2>1. n \in 1..Cardinality(S)
        BY <1>3
    <2>2. HasRank(S, R, n)
        BY <2>1, <1>2, RanksAreNumbers
    <2> QED BY <2>2 DEF HasRank
<1>5. ASSUME NEW s \in S PROVE s <= m
    <2>1. ~(m < s)
        <3>1. SUFFICES ASSUME m < s PROVE FALSE
            OBVIOUS
        <3>2. Rank(S, R, m) < Rank(S, R, s) /\ Rank(S, R, s) \in 1..n
            BY <3>1, <1>1, <1>2, RanksOrder
        <3> QED BY <3>2, <1>3, <1>4
    <2> QED BY <2>1
<1>6. \A s \in S : m >= s
    BY <1>5
<1> QED BY <1>6 DEF Max

\* The query is one of those that are asked.
LEMMA QueryIs ==
    ASSUME QueriesTypeOK
    PROVE  /\ IsQuery(query) /\ AreConditions(query.filters)
           /\ query.sort \in Seq(SortField) /\ IsSorting(Sorting(query.sort))
<1>1. IsQuery(query)
    BY QueriesAssumption DEF QueriesTypeOK, Range
<1>2. query.sort \in Seq(SortField)
    BY <1>1 DEF IsQuery, SortField
<1>3. AreConditions(query.filters)
    BY <1>1 DEF IsQuery, AreConditions, IsCondition
<1> QED BY <1>1, <1>2, <1>3, SortingIs

\* The objects of the list are one for each id.
LEMMA ObjectsAre ==
    ASSUME QueriesTypeOK
    PROVE  /\ IsFiniteSet(Objects) /\ Cardinality(Objects) <= Cardinality(DOMAIN list)
           /\ Cardinality(DOMAIN list) \in Nat
           /\ \A o \in Objects : IsObject(o) /\ o.id \in DOMAIN list /\ o = list[o.id]
           /\ \A id \in DOMAIN list : list[id] \in Objects
<1> DEFINE f == [id \in DOMAIN list |-> list[id]]
<1>1. IsFiniteSet(DOMAIN list) /\ \A id \in DOMAIN list : IsObject(list[id]) /\ list[id].id = id
    BY DEF QueriesTypeOK
<1>2. f \in Surjection(DOMAIN list, Objects)
    BY DEF Objects, Range, Surjection
<1>3. IsFiniteSet(Objects) /\ Cardinality(Objects) <= Cardinality(DOMAIN list)
    <2> HIDE DEF f
    <2> QED BY <1>1, <1>2, FS_Surjection
<1>4. \A o \in Objects : IsObject(o) /\ o.id \in DOMAIN list /\ o = list[o.id]
    BY <1>1 DEF Objects, Range
<1>5. \A id \in DOMAIN list : list[id] \in Objects
    BY DEF Objects, Range
<1> QED BY <1>1, <1>3, <1>4, <1>5, FS_CardinalityType

\* The clock is not behind any stamp.
LEMMA NowCovers ==
    ASSUME QueriesTypeOK
    PROVE  Now \in Nat /\ \A id \in DOMAIN list : list[id].last_modified[2] <= Now
<1> DEFINE stamps == {list[id].last_modified[2] : id \in DOMAIN list}
           f == [id \in DOMAIN list |-> list[id].last_modified[2]]
<1>1. IsFiniteSet(DOMAIN list) /\ \A id \in DOMAIN list : list[id].last_modified[2] \in Nat
    BY DEF QueriesTypeOK, IsObject
<1>2. f \in Surjection(DOMAIN list, stamps)
    BY DEF Surjection
<1>3. IsFiniteSet(stamps)
    <2> HIDE DEF f, stamps
    <2> QED BY <1>1, <1>2, FS_Surjection
<1>4. stamps \in SUBSET Nat /\ \A id \in DOMAIN list : list[id].last_modified[2] \in stamps
    BY <1>1
<1> HIDE DEF stamps
<1>5. IsFiniteSet({0} \cup stamps)
    BY <1>3, FS_Singleton, FS_Union
<1>6. {0} \cup stamps \in SUBSET Nat /\ {0} \cup stamps # {}
    BY <1>4
<1>7. Max({0} \cup stamps) \in {0} \cup stamps /\ \A s \in {0} \cup stamps : s <= Max({0} \cup stamps)
    BY <1>5, <1>6, LastNumber
<1>8. Now = Max({0} \cup stamps)
    BY DEF Now, stamps
<1> QED BY <1>4, <1>6, <1>7, <1>8

\* No two objects have the same stamp.
StampsDiffer == \A i, j \in DOMAIN list : list[i].last_modified = list[j].last_modified => i = j

\* Objects of the list are told apart by their stamps.
LEMMA VersionsAre ==
    ASSUME QueriesTypeOK, StampsDiffer, NEW S \in SUBSET Objects
    PROVE  AreVersions(S) /\ IsFiniteSet(S)
<1>1. \A o \in Objects : IsObject(o) /\ o.id \in DOMAIN list /\ o = list[o.id]
    BY ObjectsAre
<1>2. IsFiniteSet(S)
    BY ObjectsAre, FS_Subset
<1>3. \A o, p \in S : o.last_modified = p.last_modified => o = p
    <2>1. TAKE o, p \in S
    <2>2. HAVE o.last_modified = p.last_modified
    <2>3. o.id \in DOMAIN list /\ o = list[o.id] /\ p.id \in DOMAIN list /\ p = list[p.id]
        BY <1>1
    <2>4. list[o.id].last_modified = list[p.id].last_modified
        BY <2>2, <2>3
    <2>5. o.id = p.id
        BY <2>3, <2>4 DEF StampsDiffer
    <2> QED BY <2>3, <2>5
<1> QED BY <1>1, <1>2, <1>3 DEF AreVersions

\* A page has at least one object, and no more than are fetched.
LEMMA LimitIs ==
    ASSUME QueriesTypeOK
    PROVE  Limit \in Nat /\ Limit >= 1 /\ Limit <= MaxFetchSize /\ MaxFetchSize \in Nat
<1>1. PaginateBy \in Nat /\ MaxFetchSize \in Nat \ {0}
    BY QueriesAssumption
<1>2. query.limit = <<>> \/ query.limit[1] \in Nat
    <2>1. query.limit \in Seq(Nat) /\ Len(query.limit) <= 1
        BY QueryIs, QueriesAssumption DEF IsQuery
    <2> QED BY <2>1, EmptySeq, LenProperties, ElementOfSeq
<1>3. ASSUME NEW asked, asked = <<>> \/ asked[1] \in Nat
      PROVE  ExtractLimit(asked) \in 1..MaxFetchSize
    BY <1>1, <1>3 DEF ExtractLimit, Least
<1>4. ExtractLimit(query.limit) \in 1..MaxFetchSize
    BY <1>2, <1>3
<1> DEFINE first == ExtractLimit(query.limit)
<1>5. ExtractLimit(<<first>>) \in 1..MaxFetchSize
    <2>1. <<first>>[1] \in Nat
        BY <1>1, <1>4
    <2> HIDE DEF first
    <2> QED BY <1>3, <2>1
<1> QED BY <1>1, <1>4, <1>5 DEF Limit

\* The rules of the page that is next, and what they let through.
LEMMA PageRulesAre ==
    ASSUME QueriesTypeOK
    PROVE  /\ \A rule \in PageRules : IsPageRule(rule)
           /\ PageRules = {} <=> token = <<>>
<1> DEFINE sorting == Sorting(query.sort)
<1>1. IsSorting(sorting) /\ IsToken(token)
    BY QueryIs DEF QueriesTypeOK, IsToken
<1>2. PaginationRules(sorting, token) = {RuleOf(sorting, token, n) : n \in DOMAIN sorting}
    BY RulesAre
<1>3. \A n \in DOMAIN sorting : IsPageRule(RuleOf(sorting, token, n))
    BY <1>1, RuleFields
<1>4. DOMAIN sorting # {}
    BY <1>1 DEF IsSorting
<1> HIDE DEF sorting
<1>5. PaginationRules(sorting, token) # {}
    BY <1>2, <1>4
<1> QED BY <1>2, <1>3, <1>5 DEF PageRules, sorting

(***************************************************************************)
(* The backends agree                                                      *)
(***************************************************************************)

\* BackendsAgree holds of any objects and queries of the right types.
LEMMA TypesMakeBackendsAgree ==
    ASSUME QueriesTypeOK
    PROVE  BackendsAgree
<1> SUFFICES ASSUME NEW filters \in {query.filters} \cup PageRules, Conjunctive(filters), NEW o \in Objects,
                    MemoryMatches(o, filters) # "error",
                    ~\E f \in Range(filters) : f.op \in {"contains", "contains_any"} /\ Value(o, f.field)[1] = 1
             PROVE  /\ (MemoryMatches(o, filters) = "yes") = SqlMatches(o, filters)
                    /\ \A p \in Objects : Precedes(Sorting(query.sort), o, p) = SqlPrecedes(Sorting(query.sort), o, p)
    BY Zenon DEF BackendsAgree
<1>1. \A p \in Objects : IsObject(p)
    BY ObjectsAre
<1>2. \A p \in Objects : Precedes(Sorting(query.sort), o, p) = SqlPrecedes(Sorting(query.sort), o, p)
    BY <1>1, QueryIs, SortsAgree
<1>3. AreConditions(filters)
    BY QueryIs, PageRulesAre DEF IsPageRule
<1>4. NotOfText(o, filters)
    BY DEF NotOfText
<1>5. MemoryMatches(o, filters) = "yes" <=> SqlMatches(o, filters)
    BY <1>1, <1>3, <1>4, FiltersAgree
<1>6. SqlMatches(o, filters) \in BOOLEAN
    BY DEF SqlMatches
<1> QED BY <1>2, <1>5, <1>6

(***************************************************************************)
(* The invariant                                                           *)
(***************************************************************************)

\* What the query asks for, at this moment.
Matching == {o \in Listed : Matches(o, query.filters)}
IsUntouched(o) == o.id \notin Range(touched)
\* The pages of a GET are one sequence.  What matches and was not written by others
\* has been listed, or comes after the last object, which the token is made of; if
\* nobody wrote, all that was listed still matches, and was counted.
ListingInv == query.method = "GET" =>
    /\ PagesAreOneOrder
    /\ token = <<>> /\ phase # "done" => received = <<>>
    /\ token # <<>> => received # <<>> /\ token = TokenOf(Sorting(query.sort), Last(received))
    /\ phase \in {"walk", "done"} => \A o \in Matching : IsUntouched(o) =>
          \/ o \in Range(received)
          \/ phase = "walk" /\ (token = <<>> \/ Precedes(Sorting(query.sort), Last(received), o))
    /\ phase \in {"walk", "done"} /\ touched = <<>> =>
          /\ Range(received) \subseteq Matching
          /\ total = Cardinality({o \in LiveObjects : Matches(o, query.filters)})
\* The token of a DELETE is a timestamp that is newer than what is left; when there
\* is no token any more, in descending order, nothing is left that matches.
DeletionInv == query.method = "DELETE" =>
    /\ token # <<>> =>
          /\ DOMAIN token = {"last_modified"} /\ token.last_modified = Number(token.last_modified[2])
          /\ \A o \in LiveObjects : IsUntouched(o) => o.last_modified[2] < token.last_modified[2]
    /\ phase = "done" /\ Descending => \A o \in Matching : ~IsUntouched(o)
\* The inductive invariant
QueriesInv ==
    /\ QueriesTypeOK
    /\ StampsDiffer
    /\ phase = "count" => token = <<>> /\ received = <<>> /\ touched = <<>>
    /\ phase = "done" => ~Fails(Listed, query.filters)
    /\ ListingInv
    /\ DeletionInv
    /\ OnlyWhatWasWanted

\* What the filters select is what the documents say, if memory can compare it.
LEMMA FaithfulMatches ==
    ASSUME QueriesTypeOK, Faithful, NEW o, IsObject(o)
    PROVE  /\ Matches(o, query.filters) => Wanted(o)
           /\ backend # "memory" \/ MemoryMatches(o, query.filters) # "error" => (Wanted(o) => Matches(o, query.filters))
<1>1. Wanted(o) <=> SqlMatches(o, query.filters)
    BY DEF Wanted, SqlMatches
<1>2. CASE backend # "memory"
    BY <1>1, <1>2 DEF Matches
<1>3. CASE backend = "memory"
    <2>1. Conjunctive(query.filters) /\ NotOfText(o, query.filters)
        BY <1>3 DEF Faithful, NotOfText
    <2>2. MemoryMatches(o, query.filters) # "error" =>
              (MemoryMatches(o, query.filters) = "yes" <=> SqlMatches(o, query.filters))
        BY <2>1, QueryIs, FiltersAgree
    <2>3. Matches(o, query.filters) <=> MemoryMatches(o, query.filters) = "yes"
        BY <1>3 DEF Matches
    <2> QED BY <1>1, <1>3, <2>2, <2>3
<1> QED BY <1>2, <1>3

\* The invariant implies PagesAreComplete.
LEMMA InvMakesPagesComplete ==
    ASSUME QueriesInv
    PROVE  PagesAreComplete
<1>0. QueriesTypeOK
    BY DEF QueriesInv
<1>1. PagesAreOneOrder
    <2>1. query.method = "GET" => PagesAreOneOrder
        BY DEF QueriesInv, ListingInv
    <2> QED BY <2>1 DEF PagesAreOneOrder
<1>2. NothingIsSkipped
    <2>1. SUFFICES ASSUME phase = "done", query.method = "GET", Faithful, NEW o \in Untouched, Wanted(o),
                          IncludeDeleted \/ ~o.deleted
                   PROVE  o \in Range(received)
        BY DEF NothingIsSkipped
    <2>2. o \in Objects /\ IsUntouched(o)
        BY <2>1 DEF Untouched, IsUntouched
    <2>3. o \in Listed
        BY <2>1, <2>2 DEF Listed, LiveObjects
    <2>4. IsObject(o)
        BY <1>0, <2>2, ObjectsAre
    <2>5. backend # "memory" \/ MemoryMatches(o, query.filters) # "error"
        BY <2>1, <2>3 DEF QueriesInv, Fails
    <2>6. Matches(o, query.filters)
        BY <1>0, <2>1, <2>4, <2>5, FaithfulMatches
    <2> QED BY <2>1, <2>2, <2>3, <2>6 DEF QueriesInv, ListingInv, Matching
<1>3. TotalIsListed
    <2>1. SUFFICES ASSUME phase = "done", query.method = "GET", touched = <<>>
                   PROVE  total = Cardinality({o \in Range(received) : ~o.deleted})
        BY DEF TotalIsListed
    <2>2. Range(received) \subseteq Matching /\ total = Cardinality({o \in LiveObjects : Matches(o, query.filters)})
        BY <2>1 DEF QueriesInv, ListingInv
    <2>3. Range(touched) = {}
        BY <2>1 DEF Range
    <2>4. Matching \subseteq Range(received)
        BY <2>1, <2>3 DEF QueriesInv, ListingInv, IsUntouched
    <2>5. {o \in Matching : ~o.deleted} = {o \in LiveObjects : Matches(o, query.filters)}
        BY DEF Matching, Listed, LiveObjects
    <2>6. Range(received) = Matching
        BY <2>2, <2>4
    <2> QED BY <2>2, <2>5, <2>6
<1> QED BY <1>1, <1>2, <1>3 DEF PagesAreComplete

\* The invariant implies SelectionIsExact.
LEMMA InvMakesSelectionExact ==
    ASSUME QueriesInv
    PROVE  SelectionIsExact
<1>0. QueriesTypeOK
    BY DEF QueriesInv
<1>1. NothingIsLeft
    <2>1. SUFFICES ASSUME phase = "done", query.method = "DELETE", Descending, Faithful, NEW o \in Untouched, ~o.deleted,
                          Wanted(o)
                   PROVE  FALSE
        BY DEF NothingIsLeft
    <2>2. o \in Objects /\ IsUntouched(o)
        BY <2>1 DEF Untouched, IsUntouched
    <2>3. o \in Listed
        BY <2>1, <2>2 DEF Listed, LiveObjects
    <2>4. IsObject(o)
        BY <1>0, <2>2, ObjectsAre
    <2>5. backend # "memory" \/ MemoryMatches(o, query.filters) # "error"
        BY <2>1, <2>3 DEF QueriesInv, Fails
    <2>6. Matches(o, query.filters)
        BY <1>0, <2>1, <2>4, <2>5, FaithfulMatches
    <2> QED BY <2>1, <2>2, <2>3, <2>6 DEF QueriesInv, DeletionInv, Matching
<1> QED BY <1>1 DEF QueriesInv, SelectionIsExact

(***************************************************************************)
(* Steps                                                                   *)
(***************************************************************************)

\* Versions are objects.
LEMMA VersionIs ==
    ASSUME NEW data \in Contents, NEW id, NEW stamp \in Nat
    PROVE  LET o == Version(id, data, stamp) IN
           /\ IsObject(o) /\ o.id = id /\ o.last_modified = Number(stamp) /\ o.last_modified[2] = stamp
<1> DEFINE o == Version(id, data, stamp)
<1>1. o = [id |-> id, deleted |-> data.deleted, last_modified |-> Number(stamp), a |-> data.a, b |-> data.b]
    BY DEF Version
<1>2. o = [f \in {"id", "deleted"} \cup Fields |-> o[f]]
    <2>1. DOMAIN o = {"id", "deleted", "last_modified", "a", "b"}
        BY <1>1
    <2>2. {"id", "deleted", "last_modified", "a", "b"} = {"id", "deleted"} \cup Fields
        BY DEF Fields
    <2>3. o = [f \in {"id", "deleted", "last_modified", "a", "b"} |-> o[f]]
        BY <1>1
    <2> QED BY <2>2, <2>3
<1>3. o.id = id /\ o.deleted = data.deleted /\ o.last_modified = Number(stamp) /\ o.a = data.a /\ o.b = data.b
    BY <1>1
<1> HIDE DEF o
<1>4. Number(stamp)[2] = stamp
    BY DEF Number
<1>5. IsContent(data)
    BY QueriesAssumption
<1>6. {o.a, o.b} \subseteq Contained
    BY <1>3 DEF Contained
<1>7. IsObject(o)
    BY <1>2, <1>3, <1>4, <1>5, <1>6 DEF IsObject, IsContent
<1> QED BY <1>3, <1>4, <1>7 DEF o

\* Tombstones are objects.
LEMMA TombstoneIs ==
    ASSUME NEW id, NEW stamp \in Nat
    PROVE  LET o == Tombstone(id, stamp) IN
           /\ IsObject(o) /\ o.id = id /\ o.deleted /\ o.last_modified = Number(stamp) /\ o.last_modified[2] = stamp
           /\ o.a = Missing /\ o.b = Missing
<1> DEFINE o == Tombstone(id, stamp)
<1>1. o = [id |-> id, deleted |-> TRUE, last_modified |-> Number(stamp), a |-> Missing, b |-> Missing]
    BY DEF Tombstone
<1>2. o = [f \in {"id", "deleted"} \cup Fields |-> o[f]]
    <2>2. {"id", "deleted", "last_modified", "a", "b"} = {"id", "deleted"} \cup Fields
        BY DEF Fields
    <2>3. o = [f \in {"id", "deleted", "last_modified", "a", "b"} |-> o[f]]
        BY <1>1
    <2> QED BY <2>2, <2>3
<1>3. o.id = id /\ o.deleted = TRUE /\ o.last_modified = Number(stamp) /\ o.a = Missing /\ o.b = Missing
    BY <1>1
<1> HIDE DEF o
<1>4. Number(stamp)[2] = stamp
    BY DEF Number
<1>5. IsObject(o)
    BY <1>2, <1>3, <1>4 DEF IsObject
<1> QED BY <1>3, <1>4, <1>5 DEF o

\* The invariant holds at first.
LEMMA InvInitially == QueriesInit => QueriesInv
<1> SUFFICES ASSUME QueriesInit PROVE QueriesInv
    OBVIOUS
<1>1. PICK l \in Lists : list = [id \in DOMAIN l |-> Version(id, l[id], id)]
    BY DEF QueriesInit
<1>2. l \in Seq(Range(l)) /\ \A id \in DOMAIN l : l[id] \in Contents
    BY QueriesAssumption DEF Contents, Range
<1>3. DOMAIN l = 1..Len(l) /\ Len(l) \in Nat
    BY <1>2
<1>4. ASSUME NEW id \in DOMAIN list
      PROVE  IsObject(list[id]) /\ list[id].id = id /\ list[id].last_modified = Number(id)
    <2>1. id \in DOMAIN l /\ id \in Nat /\ list[id] = Version(id, l[id], id)
        BY <1>1, <1>3
    <2> QED BY <2>1, <1>2, VersionIs
<1>5. StampsDiffer
    BY <1>4 DEF StampsDiffer, Number
<1>6. phase = "count" /\ token = <<>> /\ received = <<>> /\ total = 0 /\ touched = <<>>
    BY DEF QueriesInit
<1>7. DOMAIN list = 1..Len(l)
    BY <1>1, <1>3
<1>8. IsFiniteSet(DOMAIN list) /\ Cardinality(DOMAIN list) \in Nat
    BY <1>7, <1>3, FS_Interval, FS_CardinalityType
<1>9. Range(received) = {} /\ DOMAIN token = {}
    BY <1>6 DEF Range
<1>10. received \in Seq(Range(received)) /\ touched \in Seq(DOMAIN list) /\ Len(touched) <= MaxWrites
    BY <1>6, QueriesAssumption
<1>11. query \in Range(AllQueries) /\ backend \in Backends
    BY DEF QueriesInit, Range
<1>12. QueriesTypeOK
    BY <1>4, <1>6, <1>8, <1>9, <1>10, <1>11 DEF QueriesTypeOK
<1>13. PagesAreOneOrder
    BY <1>6 DEF PagesAreOneOrder
<1>14. ListingInv /\ DeletionInv
    BY <1>6, <1>13 DEF ListingInv, DeletionInv
<1>15. OnlyWhatWasWanted
    BY <1>9 DEF OnlyWhatWasWanted
<1> QED BY <1>5, <1>6, <1>12, <1>14, <1>15 DEF QueriesInv

\* What does not depend on the objects.
LEMMA SameQuery ==
    ASSUME UNCHANGED <<backend, query>>
    PROVE  /\ \A o : Matches(o, query.filters)' <=> Matches(o, query.filters)
           /\ \A o : Wanted(o)' <=> Wanted(o)
           /\ Faithful' <=> Faithful
           /\ IncludeDeleted' <=> IncludeDeleted
           /\ Descending' <=> Descending
           /\ \A S : Fails(S, query.filters)' <=> Fails(S, query.filters)
BY DEF Matches, Wanted, Faithful, IncludeDeleted, Descending, Fails

\* What does not depend on the walk.
LEMMA SameList ==
    ASSUME UNCHANGED <<backend, query, list>>
    PROVE  /\ Objects' = Objects /\ LiveObjects' = LiveObjects /\ Listed' = Listed /\ Matching' = Matching
           /\ StampsDiffer' <=> StampsDiffer
<1>1. Objects' = Objects /\ LiveObjects' = LiveObjects
    BY DEF Objects, LiveObjects
<1>2. Listed' = Listed
    BY <1>1, SameQuery DEF Listed
<1>3. Matching' = Matching
    BY <1>2, SameQuery DEF Matching
<1> QED BY <1>1, <1>2, <1>3 DEF StampsDiffer

\* A request that is refused, or fails, keeps the invariant.
LEMMA FailureKeeps ==
    ASSUME QueriesInv, Refuse \/ Fail
    PROVE  QueriesInv'
<1>1. UNCHANGED <<backend, query, list, token, received, total, touched>> /\ phase' = "failed"
    BY DEF Refuse, Fail
<1>2. QueriesTypeOK'
    BY <1>1 DEF QueriesInv, QueriesTypeOK
<1>3. StampsDiffer'
    BY <1>1, SameList DEF QueriesInv
<1>4. ListingInv'
    <2>1. phase # "done"
        BY DEF Refuse, Fail
    <2>2. PagesAreOneOrder' <=> PagesAreOneOrder
        BY <1>1 DEF PagesAreOneOrder
    <2> QED BY <1>1, <2>1, <2>2 DEF QueriesInv, ListingInv
<1>5. DeletionInv'
    <2>1. LiveObjects' = LiveObjects /\ \A o : IsUntouched(o)' <=> IsUntouched(o)
        BY <1>1, SameList DEF IsUntouched
    <2> QED BY <1>1, <2>1 DEF QueriesInv, DeletionInv
<1>6. OnlyWhatWasWanted'
    <2>1. OnlyWhatWasWanted
        BY DEF QueriesInv
    <2> QED BY <1>1, <2>1, SameQuery DEF OnlyWhatWasWanted
<1> QED BY <1>1, <1>2, <1>3, <1>4, <1>5, <1>6 DEF QueriesInv

\* Counting keeps the invariant: nobody wrote yet, so all that matches is to come.
LEMMA CountAllKeeps ==
    ASSUME QueriesInv, CountAll
    PROVE  QueriesInv'
<1> DEFINE counted == {o \in LiveObjects : Matches(o, query.filters)}
<1>1. /\ phase = "count" /\ phase' = "walk" /\ total' = Cardinality(counted)
      /\ UNCHANGED <<backend, query, list, token, received, touched>>
    BY DEF CountAll
<1>2. token = <<>> /\ received = <<>> /\ touched = <<>> /\ QueriesTypeOK
    BY <1>1 DEF QueriesInv
<1>3. total' \in 0..Cardinality(DOMAIN list)
    <2>1. counted \in SUBSET Objects
        BY DEF LiveObjects
    <2> HIDE DEF counted
    <2>2. IsFiniteSet(counted) /\ Cardinality(counted) <= Cardinality(Objects)
        BY <1>2, <2>1, ObjectsAre, FS_Subset
    <2>3. Cardinality(counted) \in Nat /\ Cardinality(Objects) \in Nat
        BY <1>2, <2>2, ObjectsAre, FS_CardinalityType
    <2> QED BY <1>1, <1>2, <2>2, <2>3, ObjectsAre
<1>4. QueriesTypeOK'
    BY <1>1, <1>2, <1>3 DEF QueriesTypeOK
<1>5. StampsDiffer'
    BY <1>1, SameList DEF QueriesInv
<1>6. counted' = counted
    BY <1>1, SameList, SameQuery
<1>7. ListingInv'
    <2>1. PagesAreOneOrder'
        BY <1>1, <1>2 DEF PagesAreOneOrder
    <2>2. Range(received)' = {}
        BY <1>1, <1>2 DEF Range
    <2> QED BY <1>1, <1>2, <1>6, <2>1, <2>2 DEF ListingInv
<1>8. DeletionInv'
    BY <1>1, <1>2 DEF DeletionInv
<1>9. OnlyWhatWasWanted'
    BY <1>1, <1>2 DEF OnlyWhatWasWanted, Range
<1> QED BY <1>1, <1>4, <1>5, <1>7, <1>8, <1>9 DEF QueriesInv

\* A write of another client keeps the invariant: its object is not untouched any more,
\* and has a new stamp.
LEMMA TouchKeeps ==
    ASSUME QueriesInv, Touch
    PROVE  QueriesInv'
<1>1. PICK id \in DOMAIN list, data \in Rewrites :
          list' = [list EXCEPT ![id] = Version(id, data, Now + 1)] /\ touched' = Append(touched, id)
    BY DEF Touch
<1>2. phase = "walk" /\ Len(touched) < MaxWrites /\ UNCHANGED <<backend, query, phase, token, received, total>>
    BY DEF Touch
<1>3. QueriesTypeOK /\ StampsDiffer
    BY DEF QueriesInv
<1> DEFINE new == Version(id, data, Now + 1)
<1>4. Now \in Nat /\ Now + 1 \in Nat
    BY <1>3, NowCovers
<1>5. IsObject(new) /\ new.id = id /\ new.last_modified = Number(Now + 1) /\ new.last_modified[2] = Now + 1
    <2>1. data \in Contents
        BY DEF Contents
    <2> QED BY <2>1, <1>4, VersionIs
<1> HIDE DEF new
<1>6. /\ DOMAIN list' = DOMAIN list /\ list'[id] = new
      /\ \A i \in DOMAIN list : i # id => list'[i] = list[i]
    BY <1>1 DEF new
<1>7. touched' \in Seq(DOMAIN list) /\ Len(touched') <= MaxWrites /\ touched' # <<>>
      /\ \A i : i \in Range(touched') <=> i \in Range(touched) \/ i = id
    <2>1. touched \in Seq(DOMAIN list) /\ MaxWrites \in Nat
        BY <1>3, QueriesAssumption DEF QueriesTypeOK
    <2>2. touched' \in Seq(DOMAIN list) /\ Len(touched') = Len(touched) + 1
        BY <1>1, <2>1
    <2>3. DOMAIN touched = 1..Len(touched) /\ DOMAIN touched' = 1..(Len(touched) + 1) /\ Len(touched) \in Nat
        BY <2>1, <2>2
    <2>4. \A n \in 1..Len(touched) : touched'[n] = touched[n]
        BY <1>1, <2>1
    <2>5. touched'[Len(touched) + 1] = id
        BY <1>1, <2>1
    <2>6. \A i : i \in Range(touched') <=> i \in Range(touched) \/ i = id
        BY <2>3, <2>4, <2>5 DEF Range
    <2>7. touched' # <<>>
        BY <2>2, <2>3
    <2> QED BY <1>2, <2>1, <2>2, <2>3, <2>6, <2>7
<1>8. QueriesTypeOK'
    <2>1. \A i \in DOMAIN list' : IsObject(list'[i]) /\ list'[i].id = i
        BY <1>3, <1>5, <1>6 DEF QueriesTypeOK
    <2> QED BY <1>2, <1>3, <1>6, <1>7, <2>1 DEF QueriesTypeOK
<1>9. StampsDiffer'
    <2>1. \A i \in DOMAIN list : list[i].last_modified # new.last_modified
        <3>1. \A i \in DOMAIN list : list[i].last_modified[2] \in Nat /\ list[i].last_modified[2] <= Now
            BY <1>3, NowCovers DEF QueriesTypeOK, IsObject
        <3> QED BY <3>1, <1>4, <1>5
    <2> QED BY <1>3, <1>6, <2>1 DEF StampsDiffer
<1>10. ASSUME NEW o, o \in Objects', IsUntouched(o)'
       PROVE  o \in Objects /\ IsUntouched(o)
    <2>1. PICK i \in DOMAIN list' : o = list'[i]
        BY <1>10 DEF Objects, Range
    <2>2. o.id = i
        BY <2>1, <1>8 DEF QueriesTypeOK
    <2>3. i # id /\ i \notin Range(touched)
        BY <1>10, <1>7, <2>2 DEF IsUntouched
    <2>4. o = list[i]
        BY <2>1, <2>3, <1>6
    <2> QED BY <2>2, <2>3, <2>4, <1>6 DEF Objects, Range, IsUntouched
<1>11. ASSUME NEW o, o \in Matching', IsUntouched(o)'
       PROVE  o \in Matching /\ IsUntouched(o)
    <2>1. o \in Objects' /\ (o \in LiveObjects' => ~o.deleted)
        BY <1>11 DEF Matching, Listed, LiveObjects
    <2>2. o \in Objects /\ IsUntouched(o)
        BY <2>1, <1>10, <1>11
    <2>3. Matches(o, query.filters)
        BY <1>2, <1>11, SameQuery DEF Matching
    <2>4. o \in Listed
        <3>1. IncludeDeleted' <=> IncludeDeleted
            BY <1>2, SameQuery
        <3>2. (query.method = "GET" /\ IncludeDeleted) \/ ~o.deleted
            BY <1>2, <1>11, <2>1, <3>1 DEF Matching, Listed
        <3> QED BY <2>2, <3>2 DEF Listed, LiveObjects
    <2> QED BY <2>2, <2>3, <2>4 DEF Matching
<1>12. ListingInv'
    <2>1. PagesAreOneOrder' <=> PagesAreOneOrder
        BY <1>2 DEF PagesAreOneOrder
    <2> QED BY <1>2, <1>7, <1>11, <2>1 DEF QueriesInv, ListingInv
<1>13. DeletionInv'
    <2>1. ASSUME NEW o, o \in LiveObjects', IsUntouched(o)'
          PROVE  o \in LiveObjects /\ IsUntouched(o)
        <3>1. o \in Objects' /\ ~o.deleted
            BY <2>1 DEF LiveObjects
        <3> QED BY <3>1, <2>1, <1>10 DEF LiveObjects
    <2> QED BY <1>2, <2>1 DEF QueriesInv, DeletionInv
<1>14. OnlyWhatWasWanted'
    <2>1. OnlyWhatWasWanted
        BY DEF QueriesInv
    <2> QED BY <1>2, <2>1, SameQuery DEF OnlyWhatWasWanted
<1> QED BY <1>2, <1>8, <1>9, <1>12, <1>13, <1>14 DEF QueriesInv

\* What the rules of the next page of a GET let through.
LEMMA FoundIs ==
    ASSUME QueriesInv, query.method = "GET", phase = "walk", NEW o
    PROVE  /\ o \in Found(Listed, query.filters, PageRules)
              <=> o \in Matching /\ (token = <<>> \/ Precedes(Sorting(query.sort), Last(received), o))
           /\ token # <<>> => IsObject(Last(received))
<1> DEFINE sorting == Sorting(query.sort)
<1>1. QueriesTypeOK
    BY DEF QueriesInv
<1>2. CASE token = <<>>
    <2>1. PageRules = {}
        BY <1>1, <1>2, PageRulesAre
    <2> QED BY <1>2, <2>1 DEF Found, Matching
<1>3. CASE token # <<>>
    <2>1. received # <<>> /\ token = TokenOf(sorting, Last(received))
        BY <1>3 DEF QueriesInv, ListingInv
    <2>2. received \in Seq(Range(received)) /\ \A q \in Range(received) : IsObject(q)
        BY <1>1 DEF QueriesTypeOK
    <2>3. Len(received) \in DOMAIN received
        BY <2>1, <2>2
    <2>4. IsObject(Last(received))
        BY <2>2, <2>3 DEF Last, Range
    <2>5. PageRules = PaginationRules(sorting, TokenOf(sorting, Last(received))) /\ PageRules # {}
        BY <1>1, <1>3, <2>1, PageRulesAre DEF PageRules
    <2>6. ASSUME o \in Listed
          PROVE  (\E rule \in PageRules : SqlMatches(o, rule)) <=> Precedes(sorting, Last(received), o)
        <3>1. IsObject(o)
            BY <1>1, <2>6, ObjectsAre DEF Listed, LiveObjects
        <3> QED BY <1>1, <2>4, <2>5, <3>1, QueryIs, RulesAreBeyond
    <2> HIDE DEF sorting
    <2>7. o \in Found(Listed, query.filters, PageRules) <=> o \in Matching /\ \E rule \in PageRules : SqlMatches(o, rule)
        BY <2>5 DEF Found, Matching
    <2>8. o \in Matching => o \in Listed
        BY DEF Matching
    <2> QED BY <1>3, <2>4, <2>6, <2>7, <2>8 DEF sorting
<1> QED BY <1>2, <1>3

\* What PageIs says of the objects of a page.
LEMMA FoundOnPages ==
    ASSUME QueriesInv, NEW S \in SUBSET Objects, NEW limit \in Nat, limit <= MaxFetchSize + 1
    PROVE  LET found == Found(S, query.filters, PageRules)
               p == Page(S, query.filters, PageRules, Sorting(query.sort), limit)
           IN /\ found \subseteq S /\ IsFiniteSet(found)
              /\ p \in Seq(found) /\ Len(p) <= limit
              /\ Len(p) < limit => Range(p) = found
              /\ \A m, n \in DOMAIN p : m < n => Precedes(Sorting(query.sort), p[m], p[n])
              /\ \A m, n \in DOMAIN p : p[m] = p[n] => m = n
              /\ \A o \in found \ Range(p), n \in DOMAIN p : Precedes(Sorting(query.sort), p[n], o)
<1>1. QueriesTypeOK /\ StampsDiffer
    BY DEF QueriesInv
<1>2. AreVersions(S) /\ IsFiniteSet(S)
    BY <1>1, VersionsAre
<1>3. IsSorting(Sorting(query.sort)) /\ \A rule \in PageRules : IsPageRule(rule)
    BY <1>1, QueryIs, PageRulesAre
<1>4. Found(S, query.filters, PageRules) \subseteq S
    BY DEF Found
<1> QED BY <1>2, <1>3, <1>4, PageIs

\* The first elements of a sequence.
LEMMA Beginning ==
    ASSUME NEW S, NEW p \in Seq(S), NEW len \in Nat, len <= Len(p)
    PROVE  /\ SubSeq(p, 1, len) \in Seq(S) /\ Len(SubSeq(p, 1, len)) = len
           /\ \A n \in 1..len : SubSeq(p, 1, len)[n] = p[n]
<1>1. \A n \in 1..len : p[n] \in S
    <2>1. Len(p) \in Nat
        BY LenProperties
    <2> QED BY <2>1, ElementOfSeq
<1>2. len - 1 + 1 = len /\ \A n \in 1..len : 1 + n - 1 = n
    OBVIOUS
<1>3. /\ SubSeq(p, 1, len) \in Seq(S)
      /\ Len(SubSeq(p, 1, len)) = IF 1 <= len THEN len - 1 + 1 ELSE 0
      /\ \A n \in 1..(len - 1 + 1) : SubSeq(p, 1, len)[n] = p[1 + n - 1]
    BY <1>1, SubSeqProperties
<1>4. Len(SubSeq(p, 1, len)) = len
    BY <1>3
<1>5. \A n \in 1..len : SubSeq(p, 1, len)[n] = p[n]
    BY <1>2, <1>3
<1> QED BY <1>3, <1>4, <1>5

\* A page of GET, and where it leaves the client.
IsPageOfGet(page, found, sorting) ==
    /\ page \in Seq(found)
    /\ \A m, n \in DOMAIN page : m < n => Precedes(sorting, page[m], page[n])
    /\ \/ /\ page # <<>> /\ token' = TokenOf(sorting, Last(page)) /\ phase' = phase
          /\ \A o \in found \ Range(page) : Precedes(sorting, Last(page), o)
       \/ Range(page) = found /\ token' = <<>> /\ phase' = "done"

\* The page of a GET, and its token.
LEMMA GetPageIs ==
    ASSUME QueriesInv, GetPage
    PROVE  \E page : /\ IsPageOfGet(page, Found(Listed, query.filters, PageRules), Sorting(query.sort))
                     /\ received' = received \o page
                     /\ UNCHANGED <<backend, query, list, total, touched>>
<1> DEFINE sorting == Sorting(query.sort)
           found == Found(Listed, query.filters, PageRules)
           p == Page(Listed, query.filters, PageRules, sorting, Limit + 1)
           len == Least(Len(p), Limit)
           page == SubSeq(p, 1, len)
<1>0. QueriesTypeOK
    BY DEF QueriesInv
<1>1. Limit \in Nat /\ Limit >= 1 /\ Limit <= MaxFetchSize /\ MaxFetchSize \in Nat
    BY <1>0, LimitIs
<1>2. Listed \in SUBSET Objects /\ Limit + 1 \in Nat /\ Limit + 1 <= MaxFetchSize + 1
    BY <1>1 DEF Listed, LiveObjects
<1>3. /\ p \in Seq(found) /\ Len(p) <= Limit + 1
      /\ Len(p) < Limit + 1 => Range(p) = found
      /\ \A m, n \in DOMAIN p : m < n => Precedes(sorting, p[m], p[n])
      /\ \A o \in found \ Range(p), n \in DOMAIN p : Precedes(sorting, p[n], o)
    BY <1>2, FoundOnPages
<1>4. /\ received' = received \o page
      /\ IF Len(p) = Limit + 1 THEN token' = TokenOf(sorting, Last(page)) /\ phase' = phase
         ELSE token' = <<>> /\ phase' = "done"
      /\ UNCHANGED <<backend, query, list, total, touched>>
    BY DEF GetPage, Walk
<1> HIDE DEF p, found, sorting
<1>5. Len(p) \in Nat /\ DOMAIN p = 1..Len(p)
    BY <1>3, LenProperties
<1>6. len \in Nat /\ len <= Len(p)
      /\ (Len(p) = Limit + 1 => len = Limit) /\ (Len(p) # Limit + 1 => len = Len(p))
    <2> DEFINE size == Len(p)
               limit == Limit
    <2>1. size \in Nat /\ limit \in Nat /\ size <= limit + 1 /\ len = IF size < limit THEN size ELSE limit
        BY <1>1, <1>3, <1>5 DEF Least
    <2> HIDE DEF size, limit, len
    <2>2. len \in Nat /\ len <= size /\ (size = limit + 1 => len = limit) /\ (size # limit + 1 => len = size)
        BY <2>1
    <2> QED BY <2>2 DEF size, limit
<1> HIDE DEF len
<1>7. page \in Seq(found) /\ Len(page) = len /\ DOMAIN page = 1..len /\ \A n \in 1..len : page[n] = p[n]
    <2>1. page \in Seq(found) /\ Len(page) = len /\ \A n \in 1..len : page[n] = p[n]
        BY <1>3, <1>6, Beginning
    <2> HIDE DEF page
    <2> QED BY <2>1, LenProperties
<1> HIDE DEF page
<1>8. /\ \A n \in 1..len : n \in DOMAIN p
      /\ \A n \in DOMAIN p : n \notin 1..len => len < n
      /\ Len(p) # Limit + 1 => Len(p) < Limit + 1
    <2> DEFINE size == Len(p)
               limit == Limit
               domain == DOMAIN p
    <2>1. size \in Nat /\ limit \in Nat /\ size <= limit + 1 /\ domain = 1..size /\ len \in Nat /\ len <= size
        BY <1>1, <1>3, <1>5, <1>6
    <2> HIDE DEF size, limit, domain
    <2>2. /\ \A n \in 1..len : n \in domain
          /\ \A n \in domain : n \notin 1..len => len < n
          /\ size # limit + 1 => size < limit + 1
        BY <2>1
    <2> QED BY <2>2 DEF size, limit, domain
<1>9. \A m, n \in DOMAIN page : m < n => Precedes(sorting, page[m], page[n])
    BY <1>3, <1>7, <1>8
<1>10. CASE Len(p) = Limit + 1
    <2>1. len = Limit /\ len \in 1..len /\ len \in DOMAIN p
        BY <1>1, <1>6, <1>8, <1>10
    <2>2. Last(page) = p[len]
        BY <2>1, <1>7 DEF Last
    <2>3. ASSUME NEW o \in found \ Range(page) PROVE Precedes(sorting, Last(page), o)
        <3>1. CASE o \notin Range(p)
            BY <3>1, <2>1, <2>2, <1>3
        <3>2. CASE o \in Range(p)
            <4>1. PICK n \in DOMAIN p : o = p[n]
                BY <3>2 DEF Range
            <4>2. n \notin 1..len
                <5>1. SUFFICES ASSUME n \in 1..len PROVE FALSE
                    OBVIOUS
                <5>2. o = page[n] /\ n \in DOMAIN page
                    BY <4>1, <5>1, <1>7
                <5> QED BY <5>2, <2>3 DEF Range
            <4>3. len < n
                BY <4>1, <4>2, <1>8
            <4> QED BY <4>1, <4>3, <2>1, <2>2, <1>3
        <3> QED BY <3>1, <3>2
    <2>4. page # <<>>
        BY <2>1, <1>7, <1>1
    <2>5. token' = TokenOf(sorting, Last(page)) /\ phase' = phase
        BY <1>4, <1>10
    <2>6. IsPageOfGet(page, found, sorting)
        BY <1>7, <1>9, <2>3, <2>4, <2>5 DEF IsPageOfGet
    <2> QED BY <2>6, <1>4 DEF sorting, found
<1>11. CASE Len(p) # Limit + 1
    <2>1. len = Len(p)
        BY <1>6, <1>11
    <2>2. Len(p) < Limit + 1
        BY <1>8, <1>11
    <2>3. Range(page) = Range(p)
        BY <2>1, <1>5, <1>7 DEF Range
    <2>4. token' = <<>> /\ phase' = "done"
        BY <1>4, <1>11
    <2>5. IsPageOfGet(page, found, sorting)
        BY <1>3, <1>7, <1>9, <2>2, <2>3, <2>4 DEF IsPageOfGet
    <2> QED BY <2>5, <1>4 DEF sorting, found
<1> QED BY <1>10, <1>11

\* Two sequences, one after the other.
LEMMA Joined ==
    ASSUME NEW S, NEW s \in Seq(S), NEW t \in Seq(S)
    PROVE  /\ s \o t \in Seq(S) /\ Len(s \o t) = Len(s) + Len(t) /\ Len(s) \in Nat /\ Len(t) \in Nat
           /\ \A n \in 1..Len(s) : (s \o t)[n] = s[n]
           /\ \A n \in 1..Len(t) : (s \o t)[Len(s) + n] = t[n]
           /\ \A o : o \in Range(s \o t) <=> o \in Range(s) \/ o \in Range(t)
           /\ t # <<>> => s \o t # <<>> /\ Last(s \o t) = Last(t)
<1> DEFINE u == s \o t
           k == Len(s)
           l == Len(t)
<1>1. k \in Nat /\ l \in Nat /\ DOMAIN s = 1..k /\ DOMAIN t = 1..l
    BY LenProperties
<1>2. u \in Seq(S) /\ Len(u) = k + l /\ \A n \in 1..(k + l) : u[n] = IF n <= k THEN s[n] ELSE t[n - k]
    BY ConcatProperties
<1>3. DOMAIN u = 1..(k + l)
    BY <1>2, LenProperties
<1> HIDE DEF u, k, l
<1>4. \A n \in 1..k : u[n] = s[n] /\ n \in 1..(k + l)
    BY <1>1, <1>2
<1>5. \A n \in 1..l : u[k + n] = t[n] /\ k + n \in 1..(k + l)
    <2>1. TAKE n \in 1..l
    <2>2. k + n \in 1..(k + l) /\ ~(k + n <= k) /\ (k + n) - k = n
        BY <1>1
    <2> QED BY <1>2, <2>2
<1>6. ASSUME NEW o PROVE o \in Range(u) <=> o \in Range(s) \/ o \in Range(t)
    <2>1. ASSUME o \in Range(u) PROVE o \in Range(s) \/ o \in Range(t)
        <3>1. PICK n \in 1..(k + l) : o = u[n]
            BY <2>1, <1>3 DEF Range
        <3>2. n \in 1..k \/ n - k \in 1..l
            BY <1>1
        <3>3. CASE n \in 1..k
            BY <3>1, <3>3, <1>1, <1>4 DEF Range
        <3>4. CASE n - k \in 1..l
            <4>1. k + (n - k) = n
                BY <1>1
            <4>2. o = t[n - k]
                BY <3>1, <3>4, <4>1, <1>5
            <4> QED BY <3>4, <4>2, <1>1 DEF Range
        <3> QED BY <3>2, <3>3, <3>4
    <2>2. ASSUME o \in Range(s) PROVE o \in Range(u)
        <3>1. PICK n \in 1..k : o = s[n]
            BY <2>2, <1>1 DEF Range
        <3> QED BY <3>1, <1>3, <1>4 DEF Range
    <2>3. ASSUME o \in Range(t) PROVE o \in Range(u)
        <3>1. PICK n \in 1..l : o = t[n]
            BY <2>3, <1>1 DEF Range
        <3>2. u[k + n] = o /\ k + n \in DOMAIN u
            BY <3>1, <1>3, <1>5
        <3> QED BY <3>2 DEF Range
    <2> QED BY <2>1, <2>2, <2>3
<1>7. ASSUME t # <<>> PROVE u # <<>> /\ Last(u) = Last(t)
    <2>1. l \in Nat \ {0}
        BY <1>7, EmptySeq DEF l
    <2>2. l \in 1..l /\ k + l # 0
        BY <2>1, <1>1
    <2>3. u[k + l] = t[l]
        BY <2>2, <1>5
    <2>4. u # <<>>
        BY <2>2, <1>2, EmptySeq
    <2>5. Last(u) = u[k + l] /\ Last(t) = t[l]
        BY <1>2 DEF Last, l
    <2> QED BY <2>3, <2>4, <2>5
<1> QED BY <1>1, <1>2, <1>4, <1>5, <1>6, <1>7 DEF u, k, l

\* A page of a GET keeps the invariant: it is the first part of what comes after the
\* last object received.
LEMMA GetPageKeeps ==
    ASSUME QueriesInv, GetPage
    PROVE  QueriesInv'
<1> DEFINE sorting == Sorting(query.sort)
           found == Found(Listed, query.filters, PageRules)
<1>0. phase = "walk" /\ query.method = "GET" /\ ~Fails(Listed, query.filters)
    BY DEF GetPage
<1>1. PICK page : IsPageOfGet(page, found, sorting) /\ received' = received \o page
                  /\ UNCHANGED <<backend, query, list, total, touched>>
    BY GetPageIs
<1>2. QueriesTypeOK /\ StampsDiffer /\ ListingInv /\ OnlyWhatWasWanted
    BY DEF QueriesInv
<1>3. \A o : /\ o \in found <=> o \in Matching /\ (token = <<>> \/ Precedes(sorting, Last(received), o))
             /\ token # <<>> => IsObject(Last(received))
    BY <1>0, FoundIs
<1>4. IsSorting(sorting)
    BY <1>2, QueryIs
<1> HIDE DEF found, sorting
<1>5. ASSUME NEW o \in Matching
      PROVE  IsObject(o) /\ o.id \in DOMAIN list /\ o \in Objects /\ Matches(o, query.filters)
    <2>1. o \in Objects /\ Matches(o, query.filters)
        BY <1>5 DEF Matching, Listed, LiveObjects
    <2> QED BY <2>1, <1>2, ObjectsAre
<1>6. page \in Seq(found) /\ \A o \in Range(page) : o \in found /\ o \in Matching
    <2>1. page \in Seq(found)
        BY <1>1 DEF IsPageOfGet
    <2>2. \A o \in Range(page) : o \in found
        BY <2>1 DEF Range
    <2> QED BY <2>1, <2>2, <1>3
<1> DEFINE S == Range(received) \cup found
<1>7. received \in Seq(S) /\ page \in Seq(S)
    <2>1. received \in Seq(Range(received))
        BY <1>2 DEF QueriesTypeOK
    <2> QED BY <2>1, <1>6
<1> HIDE DEF S
<1>8. /\ received' \in Seq(S) /\ Len(received') = Len(received) + Len(page) /\ Len(received) \in Nat /\ Len(page) \in Nat
      /\ \A n \in 1..Len(received) : received'[n] = received[n]
      /\ \A n \in 1..Len(page) : received'[Len(received) + n] = page[n]
      /\ \A o : o \in Range(received)' <=> o \in Range(received) \/ o \in Range(page)
      /\ page # <<>> => received' # <<>> /\ Last(received)' = Last(page)
    BY <1>1, <1>7, Joined
<1>9. \/ /\ page # <<>> /\ token' = TokenOf(sorting, Last(page)) /\ phase' = "walk"
         /\ \A o \in found \ Range(page) : Precedes(sorting, Last(page), o)
      \/ Range(page) = found /\ token' = <<>> /\ phase' = "done"
    BY <1>0, <1>1 DEF IsPageOfGet
<1>10. page # <<>> => IsObject(Last(page))
    <2>1. SUFFICES ASSUME page # <<>> PROVE IsObject(Last(page))
        OBVIOUS
    <2>2. Len(page) \in 1..Len(page)
        BY <2>1, <1>6, EmptySeq
    <2>3. Last(page) \in found
        BY <2>2, <1>6, ElementOfSeq DEF Last
    <2> QED BY <2>3, <1>3, <1>5
<1>11. /\ token' # <<>> => page # <<>> /\ token' = TokenOf(sorting, Last(page)) /\ phase' = "walk"
       /\ token' = <<>> => phase' = "done"
       /\ IsToken(token')
    <2>1. CASE page # <<>> /\ token' = TokenOf(sorting, Last(page)) /\ phase' = "walk"
        BY <2>1, <1>4, <1>10, TokensAre
    <2>2. CASE token' = <<>> /\ phase' = "done"
        BY <2>2 DEF IsToken
    <2> QED BY <2>1, <2>2, <1>9
<1>12. QueriesTypeOK'
    <2>1. \A o \in Range(received)' : IsObject(o) /\ o.id \in DOMAIN list
        BY <1>2, <1>5, <1>6, <1>8 DEF QueriesTypeOK
    <2>2. received' \in Seq(Range(received'))
        BY <1>8 DEF Range
    <2>3. phase' \in {"count", "walk", "done", "failed"}
        BY <1>9
    <2> QED BY <1>1, <1>2, <1>11, <2>1, <2>2, <2>3 DEF QueriesTypeOK, IsToken
<1>13. StampsDiffer' /\ Matching' = Matching /\ LiveObjects' = LiveObjects /\ Listed' = Listed
    BY <1>1, <1>2, SameList
<1>14. ~Fails(Listed, query.filters)'
    BY <1>0, <1>1, <1>13 DEF Fails
<1>15. PagesAreOneOrder'
    <2>1. SUFFICES ASSUME NEW n \in 1..(Len(received') - 1)
                   PROVE  Precedes(sorting, received'[n], received'[n + 1])
        BY <1>1 DEF PagesAreOneOrder, sorting
    <2> DEFINE k == Len(received)
               l == Len(page)
    <2>2. k \in Nat /\ l \in Nat /\ n \in 1..(k + l - 1)
        BY <1>8, <2>1
    <2>3. (\A i \in 1..k : received'[i] = received[i]) /\ \A i \in 1..l : received'[k + i] = page[i]
        BY <1>8
    <2>4. DOMAIN page = 1..l
        BY <1>6, LenProperties
    <2>5. k # 0 => received # <<>> /\ Last(received) = received[k]
        BY EmptySeq DEF Last
    <2>6. \A i \in 1..(k - 1) : Precedes(sorting, received[i], received[i + 1])
        BY <1>0, <1>2 DEF ListingInv, PagesAreOneOrder, sorting
    <2> HIDE DEF k, l
    <2>7. CASE n < k
        <3>1. n \in 1..(k - 1) /\ n \in 1..k /\ n + 1 \in 1..k
            BY <2>2, <2>7
        <3> QED BY <3>1, <2>3, <2>6
    <2>8. CASE n = k
        <3>1. k # 0 /\ k \in 1..k /\ 1 \in 1..l /\ n + 1 = k + 1
            BY <2>2, <2>8
        <3>2. token # <<>>
            BY <3>1, <2>5, <1>0, <1>2 DEF ListingInv
        <3>3. page[1] \in found
            <4>1. page[1] \in Range(page)
                BY <3>1, <2>4 DEF Range
            <4> QED BY <4>1, <1>6
        <3>4. Precedes(sorting, Last(received), page[1])
            BY <3>2, <3>3, <1>3
        <3>5. received'[n] = Last(received) /\ received'[n + 1] = page[1]
            BY <3>1, <2>3, <2>5, <2>8
        <3> QED BY <3>4, <3>5
    <2>9. CASE n > k
        <3>1. /\ n - k \in 1..l /\ n - k + 1 \in 1..l /\ n - k < n - k + 1
              /\ k + (n - k) = n /\ k + (n - k + 1) = n + 1
            BY <2>2, <2>9
        <3>2. received'[n] = page[n - k] /\ received'[n + 1] = page[n - k + 1]
            BY <3>1, <2>3
        <3>3. Precedes(sorting, page[n - k], page[n - k + 1])
            BY <3>1, <2>4, <1>1 DEF IsPageOfGet
        <3> QED BY <3>2, <3>3
    <2> QED BY <2>2, <2>7, <2>8, <2>9
<1>16. ASSUME NEW o \in Matching, IsUntouched(o)
       PROVE  o \in Range(received)' \/ (phase' = "walk" /\ Precedes(sorting, Last(received)', o))
    <2>1. o \in Range(received) \/ o \in found
        <3>1. o \in Range(received) \/ token = <<>> \/ Precedes(sorting, Last(received), o)
            BY <1>0, <1>2, <1>16 DEF ListingInv, sorting
        <3> QED BY <3>1, <1>3, <1>16
    <2>2. CASE o \in found /\ o \notin Range(page)
        BY <2>2, <1>8, <1>9
    <2> QED BY <2>1, <2>2, <1>8
<1>17. ListingInv'
    <2>1. \A o : IsUntouched(o)' <=> IsUntouched(o)
        BY <1>1 DEF IsUntouched
    <2>2. \A o \in Matching' : IsUntouched(o)' =>
              \/ o \in Range(received)'
              \/ phase' = "walk" /\ (token' = <<>> \/ Precedes(Sorting(query'.sort), Last(received)', o))
        BY <2>1, <1>1, <1>13, <1>16 DEF sorting
    <2>3. token' # <<>> => received' # <<>> /\ token' = TokenOf(Sorting(query'.sort), Last(received)')
        BY <1>1, <1>8, <1>11 DEF sorting
    <2>4. touched' = <<>> => Range(received)' \subseteq Matching'
                             /\ total' = Cardinality({o \in LiveObjects : Matches(o, query.filters)}')
        <3>1. SUFFICES ASSUME touched = <<>> 
                       PROVE  Range(received)' \subseteq Matching'
                              /\ total' = Cardinality({o \in LiveObjects : Matches(o, query.filters)}')
            BY <1>1
        <3>2. Range(received) \subseteq Matching /\ total = Cardinality({o \in LiveObjects : Matches(o, query.filters)})
            BY <3>1, <1>0, <1>2 DEF ListingInv
        <3>3. {o \in LiveObjects : Matches(o, query.filters)}' = {o \in LiveObjects : Matches(o, query.filters)}
            BY <1>1, <1>13, SameQuery
        <3> QED BY <3>2, <3>3, <1>1, <1>6, <1>8, <1>13
    <2> QED BY <2>2, <2>3, <2>4, <1>11, <1>15 DEF ListingInv
<1>18. DeletionInv'
    BY <1>0, <1>1 DEF DeletionInv
<1>19. OnlyWhatWasWanted'
    <2>1. SUFFICES ASSUME Faithful, NEW o \in Range(received)' PROVE Wanted(o)
        BY <1>1, SameQuery DEF OnlyWhatWasWanted
    <2>2. CASE o \in Range(received)
        BY <2>1, <2>2, <1>2 DEF OnlyWhatWasWanted
    <2>3. CASE o \in Range(page)
        <3>1. o \in Matching
            BY <2>3, <1>6
        <3>2. IsObject(o) /\ Matches(o, query.filters)
            BY <3>1, <1>5
        <3> QED BY <2>1, <3>2, <1>2, FaithfulMatches
    <2> QED BY <2>1, <2>2, <2>3, <1>8
<1> QED BY <1>9, <1>12, <1>13, <1>14, <1>17, <1>18, <1>19 DEF QueriesInv

\* A sequence without repetitions has as many elements as it is long.
NoneTwice(p) == \A m, n \in DOMAIN p : p[m] = p[n] => m = n
LEMMA LengthIsSize ==
    ASSUME NEW S, NEW p \in Seq(S), NoneTwice(p)
    PROVE  IsFiniteSet(Range(p)) /\ Cardinality(Range(p)) = Len(p) /\ Len(p) \in Nat
<1> DEFINE D == 1..Len(p)
<1>1. DOMAIN p = D /\ Len(p) \in Nat /\ p \in [D -> S]
    BY LenProperties
<1>2. IsFiniteSet(D) /\ Cardinality(D) = Len(p)
    <2>1. IsFiniteSet(D) /\ Cardinality(D) = IF 1 > Len(p) THEN 0 ELSE Len(p) - 1 + 1
        BY <1>1, FS_Interval
    <2> QED BY <2>1, <1>1
<1> HIDE DEF D
<1>3. p \in Surjection(D, Range(p)) /\ p \in Injection(D, Range(p))
    BY <1>1 DEF Surjection, Injection, IsInjective, Range, NoneTwice
<1> QED BY <1>1, <1>2, <1>3, FS_Surjection

\* The orders in which the objects of a page are deleted.
LEMMA OrdersAre ==
    ASSUME NEW found, NEW victims \in Seq(found), NoneTwice(victims),
           NEW order \in IF backend = "memory" THEN {victims} ELSE SetToSeqs(Range(victims))
    PROVE  order \in Seq(found) /\ NoneTwice(order) /\ Range(order) = Range(victims)
<1>1. CASE backend = "memory"
    BY <1>1
<1>2. CASE backend # "memory"
    <2> DEFINE V == Range(victims)
               D == 1..Cardinality(V)
    <2>1. IsFiniteSet(V) /\ Cardinality(V) \in Nat
        BY LengthIsSize
    <2>2. V \subseteq found
        BY DEF Range
    <2>3. order \in [D -> V] /\ \A i, j \in D : i # j => order[i] # order[j]
        BY <1>2 DEF SetToSeqs
    <2>4. IsFiniteSet(D) /\ Cardinality(D) = Cardinality(V)
        <3> HIDE DEF V
        <3>0. 1 \in Int /\ Cardinality(V) \in Int
            BY <2>1
        <3>1. IsFiniteSet(D) /\ Cardinality(D) = IF 1 > Cardinality(V) THEN 0 ELSE Cardinality(V) - 1 + 1
            BY <3>0, FS_Interval
        <3> QED BY <3>1, <2>1
    <2>5. order \in Seq(V)
        BY <2>1, <2>3
    <2> HIDE DEF V, D
    <2>6. order \in Injection(D, V)
        BY <2>3 DEF Injection, IsInjective
    <2>7. order \in Surjection(D, V)
        BY <2>1, <2>4, <2>6, FS_Injection
    <2>8. Range(order) = V
        BY <2>3, <2>7 DEF Range, Surjection
    <2>9. NoneTwice(order)
        BY <2>3 DEF NoneTwice
    <2>10. order \in Seq(found)
        <3>1. Len(order) \in Nat /\ order \in [1..Len(order) -> V]
            BY <2>5, LenProperties
        <3> QED BY <3>1, <2>2
    <2> QED BY <2>8, <2>9, <2>10 DEF V
<1> QED BY <1>1, <1>2

\* The token of a DELETE has nothing but a timestamp.
IsTombstoneToken(t, stamp) ==
    /\ IsToken(t) /\ t # <<>>
    /\ DOMAIN t = {"last_modified"} /\ t.last_modified = Number(stamp)
LEMMA TombstoneTokens ==
    ASSUME NEW sorting, IsSorting(sorting), NEW id, NEW stamp \in Nat
    PROVE  IsTombstoneToken(TokenOf(sorting, Tombstone(id, stamp)), stamp)
<1> DEFINE o == Tombstone(id, stamp)
           t == TokenOf(sorting, o)
<1>1. IsObject(o) /\ o.last_modified = Number(stamp) /\ o.a = Missing /\ o.b = Missing
    BY TombstoneIs
<1> HIDE DEF o
<1>2. /\ IsToken(t) /\ "last_modified" \in DOMAIN t /\ t # <<>> /\ t.last_modified = o.last_modified
      /\ \A f \in DOMAIN t : Value(o, f) # Missing
    BY <1>1, TokensAre
<1> HIDE DEF t
<1>3. \A f \in DOMAIN t : f \in Fields
    BY <1>2 DEF IsToken
<1>4. \A f \in DOMAIN t : f = "last_modified"
    BY <1>1, <1>2, <1>3 DEF Value, Fields
<1> QED BY <1>1, <1>2, <1>4 DEF IsTombstoneToken, t, o

\* In descending order, what is older than a tombstone is beyond it: the fields
\* that tombstones miss come after those that are there.
LEMMA OlderIsBeyond ==
    ASSUME NEW sorting, IsSorting(sorting), \A n \in DOMAIN sorting : sorting[n].direction # 1,
           NEW t, NEW stamp \in Nat, IsTombstoneToken(t, stamp),
           NEW o, IsObject(o), o.last_modified[2] < stamp
    PROVE  \E rule \in PaginationRules(sorting, t) : SqlMatches(o, rule)
<1> DEFINE differ == {n \in DOMAIN sorting : Given(t, sorting[n].field) # Value(o, sorting[n].field)}
<1>0. IsToken(t) /\ DOMAIN t = {"last_modified"} /\ t.last_modified = Number(stamp)
    BY DEF IsTombstoneToken
<1>1. /\ \A n \in DOMAIN sorting : n \in Nat \ {0} /\ sorting[n].field \in Fields
      /\ \A n \in DOMAIN sorting : \A k \in 1..(n - 1) : k \in DOMAIN sorting
    BY FieldsOfSorting
<1>2. Less(o.last_modified, Number(stamp)) /\ o.last_modified # Number(stamp)
    <2>1. o.last_modified = Number(o.last_modified[2]) /\ o.last_modified[2] \in Nat
        BY DEF IsObject
    <2>2. o.last_modified[1] = 2 /\ Number(stamp)[1] = 2 /\ Number(stamp)[2] = stamp
        BY <2>1 DEF Number
    <2> QED BY <2>1, <2>2 DEF Less
<1>3. Given(t, "last_modified") = Number(stamp) /\ Value(o, "last_modified") = o.last_modified
    BY <1>0 DEF Given, Value
<1>4. differ # {} /\ differ \in SUBSET Nat
    <2>1. PICK n \in DOMAIN sorting : sorting[n].field = "last_modified"
        BY DEF IsSorting
    <2> QED BY <2>1, <1>1, <1>2, <1>3
<1>5. PICK n \in differ : \A k \in differ : n <= k
    BY <1>4, FirstNumber
<1>6. n \in DOMAIN sorting /\ n \in Nat \ {0} /\ Given(t, sorting[n].field) # Value(o, sorting[n].field)
    BY <1>1, <1>5
<1>7. \A k \in 1..(n - 1) : Given(t, sorting[k].field) = Value(o, sorting[k].field)
    <2>1. TAKE k \in 1..(n - 1)
    <2>2. k \in DOMAIN sorting /\ ~(n <= k)
        BY <1>1, <1>6
    <2> QED BY <2>2, <1>5
<1> HIDE DEF differ
<1>8. Less(Value(o, sorting[n].field), Given(t, sorting[n].field))
    <2>1. CASE sorting[n].field = "last_modified"
        BY <2>1, <1>2, <1>3
    <2>2. CASE sorting[n].field # "last_modified"
        <3>1. Given(t, sorting[n].field) = Missing
            BY <2>2, <1>0 DEF Given
        <3>2. IsValue(Value(o, sorting[n].field))
            BY <1>1, <1>6, ObjectValues
        <3> QED BY <3>1, <3>2, <1>6, SqlLessIsLess
    <2> QED BY <2>1, <2>2
<1>9. IsBeyondAt(sorting, t, o, n)
    BY <1>6, <1>7, <1>8 DEF IsBeyondAt
<1>10. SqlMatches(o, RuleOf(sorting, t, n))
    BY <1>0, <1>6, <1>9, RuleIs
<1> QED BY <1>6, <1>10, RulesAre

\* A DELETE of a page: its objects become tombstones, in some order, each with a
\* stamp of its own.
AreDeleted(order) ==
    /\ \A m, n \in DOMAIN order : order[m].id = order[n].id => m = n
    /\ DOMAIN list' = DOMAIN list
    /\ \A n \in DOMAIN order : list'[order[n].id] = Tombstone(order[n].id, Now + n)
    /\ \A id \in DOMAIN list : (\A n \in DOMAIN order : order[n].id # id) => list'[id] = list[id]
IsPageOfDelete(order, found, sorting) ==
    /\ order \in Seq(found)
    /\ \/ /\ order # <<>> /\ phase' = phase
          /\ token' = TokenOf(sorting, Tombstone(Last(order).id, Now + Len(order)))
       \/ Range(order) = found /\ token' = <<>> /\ phase' = "done"

\* The page of a DELETE, and its token.
LEMMA DeletePageIs ==
    ASSUME QueriesInv, DeletePage
    PROVE  \E order : /\ IsPageOfDelete(order, Found(LiveObjects, query.filters, PageRules), Sorting(query.sort))
                      /\ AreDeleted(order)
                      /\ received' = received \o order
                      /\ UNCHANGED <<backend, query, total, touched>>
<1> DEFINE sorting == Sorting(query.sort)
           found == Found(LiveObjects, query.filters, PageRules)
           objects == Page(LiveObjects, query.filters, PageRules, sorting, Limit + 1)
           victims == Page(LiveObjects, query.filters, PageRules, sorting, Limit)
           stampOf(s, id) == Now + (CHOOSE n \in DOMAIN s : s[n].id = id)
           ids(s) == {s[n].id : n \in DOMAIN s}
<1>0. QueriesTypeOK
    BY DEF QueriesInv
<1>1. Limit \in Nat /\ Limit >= 1 /\ Limit <= MaxFetchSize /\ MaxFetchSize \in Nat
    BY <1>0, LimitIs
<1>2. LiveObjects \in SUBSET Objects /\ Limit + 1 \in Nat /\ Limit + 1 <= MaxFetchSize + 1 /\ Limit <= MaxFetchSize + 1
    BY <1>1 DEF LiveObjects
<1>3. /\ objects \in Seq(found) /\ Len(objects) <= Limit + 1
      /\ Len(objects) < Limit + 1 => Range(objects) = found
      /\ NoneTwice(objects)
    BY <1>2, FoundOnPages DEF NoneTwice
<1>4. /\ victims \in Seq(found) /\ Len(victims) <= Limit
      /\ Len(victims) < Limit => Range(victims) = found
      /\ NoneTwice(victims) /\ found \subseteq LiveObjects /\ IsFiniteSet(found)
    BY <1>1, <1>2, FoundOnPages DEF NoneTwice
<1>5. PICK order \in IF backend = "memory" THEN {victims} ELSE SetToSeqs(Range(victims)) :
          /\ list' = [id \in DOMAIN list |-> IF id \in ids(order) THEN Tombstone(id, stampOf(order, id)) ELSE list[id]]
          /\ received' = received \o order
          /\ IF order # <<>> /\ Len(objects) = Limit + 1
             THEN token' = TokenOf(sorting, Tombstone(Last(order).id, Now + Len(order))) /\ phase' = phase
             ELSE token' = <<>> /\ phase' = "done"
          /\ UNCHANGED <<backend, query, total, touched>>
    BY DEF DeletePage, Walk
<1> HIDE DEF victims, objects, found, sorting
<1>6. order \in Seq(found) /\ NoneTwice(order) /\ Range(order) = Range(victims)
    BY <1>4, <1>5, OrdersAre
<1>7. \A n \in DOMAIN order : order[n].id \in DOMAIN list /\ order[n] = list[order[n].id]
    <2>1. \A n \in DOMAIN order : order[n] \in Objects
        BY <1>2, <1>4, <1>6
    <2> QED BY <2>1, <1>0, ObjectsAre
<1>8. \A m, n \in DOMAIN order : order[m].id = order[n].id => m = n
    <2>1. TAKE m, n \in DOMAIN order
    <2>2. HAVE order[m].id = order[n].id
    <2>3. order[m] = order[n]
        BY <2>2, <1>7
    <2> QED BY <2>3, <1>6 DEF NoneTwice
<1>9. AreDeleted(order)
    <2>1. DOMAIN list' = DOMAIN list
        BY <1>5
    <2>2. ASSUME NEW n \in DOMAIN order
          PROVE  list'[order[n].id] = Tombstone(order[n].id, Now + n)
        <3>1. (CHOOSE m \in DOMAIN order : order[m].id = order[n].id) = n
            BY <1>8
        <3>2. order[n].id \in DOMAIN list /\ order[n].id \in ids(order)
            BY <1>7
        <3> QED BY <3>1, <3>2, <1>5
    <2>3. ASSUME NEW id \in DOMAIN list, \A n \in DOMAIN order : order[n].id # id
          PROVE  list'[id] = list[id]
        <3>1. id \notin ids(order)
            BY <2>3
        <3> QED BY <3>1, <1>5
    <2> QED BY <2>1, <2>2, <2>3, <1>8 DEF AreDeleted
<1>10. Range(victims) = found \/ (order # <<>> /\ Len(objects) = Limit + 1)
    <2> DEFINE limit == Limit
               many == Len(objects)
               few == Len(victims)
               there == Cardinality(found)
    <2>1. /\ IsFiniteSet(Range(victims)) /\ Cardinality(Range(victims)) = few /\ few \in Nat
          /\ Cardinality(Range(objects)) = many /\ many \in Nat
        BY <1>3, <1>4, LengthIsSize
    <2>2. Range(victims) \in SUBSET found
        BY <1>4 DEF Range
    <2>3. there \in Nat /\ few <= there /\ (few = there => Range(victims) = found)
        BY <2>1, <2>2, <1>4, FS_Subset, FS_CardinalityType
    <2>4. /\ limit \in Nat /\ limit >= 1 /\ many <= limit + 1 /\ few <= limit
          /\ few < limit => Range(victims) = found
          /\ many < limit + 1 => many = there
        BY <2>1, <1>1, <1>3, <1>4
    <2>5. order = <<>> => few = 0
        <3>1. order = <<>> => Range(victims) = {}
            BY <1>6 DEF Range
        <3> QED BY <3>1, <2>1, FS_EmptySet
    <2>6. few < limit \/ few = there \/ (order # <<>> /\ many = limit + 1)
        <3> HIDE DEF limit, many, few, there
        <3> QED BY <2>1, <2>3, <2>4, <2>5
    <2> QED BY <2>3, <2>4, <2>6
<1>11. IsPageOfDelete(order, found, sorting)
    BY <1>5, <1>6, <1>10 DEF IsPageOfDelete
<1> QED BY <1>5, <1>9, <1>11 DEF found, sorting

\* A page of a DELETE keeps the invariant: its tombstones have newer stamps than all
\* that is left.
LEMMA DeletePageKeeps ==
    ASSUME QueriesInv, DeletePage
    PROVE  QueriesInv'
<1> DEFINE sorting == Sorting(query.sort)
           found == Found(LiveObjects, query.filters, PageRules)
<1>0. phase = "walk" /\ query.method = "DELETE" /\ ~Fails(LiveObjects, query.filters)
    BY DEF DeletePage
<1>1. PICK order : /\ IsPageOfDelete(order, found, sorting)
                   /\ AreDeleted(order)
                   /\ received' = received \o order
                   /\ UNCHANGED <<backend, query, total, touched>>
    BY DeletePageIs
<1>2. QueriesTypeOK /\ StampsDiffer /\ DeletionInv /\ OnlyWhatWasWanted
    BY DEF QueriesInv
<1>3. IsSorting(sorting)
    BY <1>2, QueryIs
<1>4. \A o : o \in found <=> /\ o \in LiveObjects /\ Matches(o, query.filters)
                             /\ PageRules = {} \/ \E rule \in PageRules : SqlMatches(o, rule)
    BY DEF Found
<1> HIDE DEF found, sorting
<1>5. \A o \in LiveObjects : /\ IsObject(o) /\ o.id \in DOMAIN list /\ o = list[o.id] /\ ~o.deleted
                             /\ o.last_modified[2] \in Nat /\ o.last_modified[2] <= Now
    <2>1. \A o \in LiveObjects : o \in Objects /\ ~o.deleted
        BY DEF LiveObjects
    <2>2. \A o \in LiveObjects : IsObject(o) /\ o.id \in DOMAIN list /\ o = list[o.id]
        BY <2>1, <1>2, ObjectsAre
    <2> QED BY <2>1, <2>2, <1>2, NowCovers DEF IsObject
<1>6. Now \in Nat
    BY <1>2, NowCovers
<1>7. order \in Seq(found) /\ DOMAIN order = 1..Len(order) /\ Len(order) \in Nat
      /\ \A n \in DOMAIN order : order[n] \in found /\ order[n] \in LiveObjects
    <2>1. order \in Seq(found)
        BY <1>1 DEF IsPageOfDelete
    <2>2. DOMAIN order = 1..Len(order) /\ Len(order) \in Nat /\ \A n \in DOMAIN order : order[n] \in found
        BY <2>1, LenProperties, ElementOfSeq
    <2> QED BY <2>1, <2>2, <1>4
<1>8. ASSUME NEW n \in DOMAIN order
      PROVE  /\ order[n].id \in DOMAIN list /\ n \in Nat \ {0} /\ Now + n \in Nat /\ n <= Len(order)
             /\ LET new == list'[order[n].id] IN
                /\ IsObject(new) /\ new.id = order[n].id /\ new.deleted
                /\ new.last_modified = Number(Now + n)
    <2>1. order[n].id \in DOMAIN list
        BY <1>5, <1>7
    <2>2. n \in Nat \ {0} /\ Now + n \in Nat /\ n <= Len(order)
        BY <1>6, <1>7
    <2>3. list'[order[n].id] = Tombstone(order[n].id, Now + n)
        BY <1>1 DEF AreDeleted
    <2> QED BY <2>1, <2>2, <2>3, TombstoneIs
<1>9. DOMAIN list' = DOMAIN list
      /\ \A id \in DOMAIN list : (\A n \in DOMAIN order : order[n].id # id) => list'[id] = list[id]
    BY <1>1 DEF AreDeleted
<1>10. token' # <<>> => order # <<>> /\ IsTombstoneToken(token', Now + Len(order)) /\ phase' = "walk"
    <2>1. CASE order # <<>> /\ phase' = phase /\ token' = TokenOf(sorting, Tombstone(Last(order).id, Now + Len(order)))
        <3>1. Now + Len(order) \in Nat
            BY <1>6, <1>7
        <3>2. IsTombstoneToken(token', Now + Len(order))
            BY <2>1, <3>1, <1>3, TombstoneTokens
        <3> QED BY <2>1, <3>2, <1>0
    <2>2. CASE token' = <<>>
        BY <2>2
    <2> QED BY <2>1, <2>2, <1>1 DEF IsPageOfDelete
<1>11. phase' = "walk" \/ (phase' = "done" /\ Range(order) = found)
    BY <1>0, <1>1 DEF IsPageOfDelete
<1> DEFINE S == Range(received) \cup found
<1>12. received' \in Seq(S) /\ \A o : o \in Range(received)' <=> o \in Range(received) \/ o \in Range(order)
    <2>1. received \in Seq(Range(received))
        BY <1>2 DEF QueriesTypeOK
    <2>2. received \in Seq(S) /\ order \in Seq(S)
        BY <2>1, <1>7
    <2> HIDE DEF S
    <2> QED BY <2>2, <1>1, Joined
<1> HIDE DEF S
<1>13. \A o \in Range(order) : o \in found /\ o \in LiveObjects
    BY <1>7 DEF Range
<1>14. QueriesTypeOK'
    <2>1. ASSUME NEW id \in DOMAIN list' PROVE IsObject(list'[id]) /\ list'[id].id = id
        <3>1. CASE \E n \in DOMAIN order : order[n].id = id
            BY <3>1, <1>8
        <3>2. CASE \A n \in DOMAIN order : order[n].id # id
            BY <3>2, <1>2, <1>9 DEF QueriesTypeOK
        <3> QED BY <3>1, <3>2
    <2>2. \A o \in Range(received)' : IsObject(o) /\ o.id \in DOMAIN list
        BY <1>2, <1>5, <1>12, <1>13 DEF QueriesTypeOK
    <2>3. received' \in Seq(Range(received'))
        BY <1>12 DEF Range
    <2>4. IsToken(token')
        BY <1>10 DEF IsTombstoneToken, IsToken
    <2> QED BY <1>1, <1>2, <1>9, <1>11, <2>1, <2>2, <2>3, <2>4 DEF QueriesTypeOK, IsToken
<1>15. StampsDiffer'
    <2>1. SUFFICES ASSUME NEW i \in DOMAIN list', NEW j \in DOMAIN list', list'[i].last_modified = list'[j].last_modified
                   PROVE  i = j
        BY DEF StampsDiffer
    <2> DEFINE stamp(id) == list'[id].last_modified
               IsGone(id) == \E n \in DOMAIN order : order[n].id = id
    <2>2. \A id \in DOMAIN list : IsGone(id) =>
              \E n \in DOMAIN order : order[n].id = id /\ n \in Nat \ {0} /\ stamp(id) = Number(Now + n)
        BY <1>8
    <2>3. \A id \in DOMAIN list : ~IsGone(id) =>
              stamp(id) = list[id].last_modified /\ \E m \in Nat : stamp(id) = Number(m) /\ m <= Now
        <3>1. \A id \in DOMAIN list : list[id].last_modified = Number(list[id].last_modified[2])
                                      /\ list[id].last_modified[2] \in Nat /\ list[id].last_modified[2] <= Now
            BY <1>2, NowCovers DEF QueriesTypeOK, IsObject
        <3> QED BY <3>1, <1>9
    <2>4. i \in DOMAIN list /\ j \in DOMAIN list /\ stamp(i) = stamp(j)
        BY <2>1, <1>9
    <2> HIDE DEF stamp, IsGone
    <2>5. \A k, l : Number(k) = Number(l) => k = l
        BY DEF Number
    <2>6. CASE IsGone(i) /\ IsGone(j)
        <3>1. PICK n \in DOMAIN order : order[n].id = i /\ n \in Nat \ {0} /\ stamp(i) = Number(Now + n)
            BY <2>2, <2>4, <2>6
        <3>2. PICK m \in DOMAIN order : order[m].id = j /\ m \in Nat \ {0} /\ stamp(j) = Number(Now + m)
            BY <2>2, <2>4, <2>6
        <3>3. Now + n = Now + m
            BY <3>1, <3>2, <2>4, <2>5
        <3>4. n = m
            BY <3>1, <3>2, <3>3, <1>6
        <3> QED BY <3>1, <3>2, <3>4
    <2>7. CASE ~IsGone(i) /\ ~IsGone(j)
        <3>1. list[i].last_modified = list[j].last_modified
            BY <2>3, <2>4, <2>7
        <3> QED BY <3>1, <2>4, <1>2 DEF StampsDiffer
    <2>8. ASSUME NEW k \in DOMAIN list, NEW l \in DOMAIN list, IsGone(k), ~IsGone(l), stamp(k) = stamp(l) PROVE FALSE
        <3>1. PICK n \in DOMAIN order : order[n].id = k /\ n \in Nat \ {0} /\ stamp(k) = Number(Now + n)
            BY <2>2, <2>8
        <3>2. PICK m \in Nat : stamp(l) = Number(m) /\ m <= Now
            BY <2>3, <2>8
        <3>3. Now + n = m
            BY <3>1, <3>2, <2>8, <2>5
        <3> QED BY <3>1, <3>2, <3>3, <1>6
    <2> QED BY <2>4, <2>6, <2>7, <2>8
<1>16. \A o \in LiveObjects' : o \in LiveObjects /\ o \notin Range(order)
    <2>1. SUFFICES ASSUME NEW o \in LiveObjects' PROVE o \in LiveObjects /\ o \notin Range(order)
        OBVIOUS
    <2>2. PICK id \in DOMAIN list' : o = list'[id]
        BY <2>1 DEF LiveObjects, Objects, Range
    <2>3. ~o.deleted
        BY <2>1 DEF LiveObjects
    <2>4. \A n \in DOMAIN order : order[n].id # id
        BY <2>2, <2>3, <1>8
    <2>5. id \in DOMAIN list /\ o = list[id] /\ o.id = id
        BY <2>2, <2>4, <1>2, <1>9 DEF QueriesTypeOK
    <2>6. o \in LiveObjects
        BY <2>3, <2>5 DEF LiveObjects, Objects, Range
    <2> QED BY <2>4, <2>5, <2>6 DEF Range
<1>17. Listed = LiveObjects /\ Listed' = LiveObjects'
    BY <1>0, <1>1 DEF Listed
<1>18. ~Fails(Listed, query.filters)'
    BY <1>0, <1>1, <1>16, <1>17 DEF Fails
<1>19. ListingInv'
    BY <1>0, <1>1 DEF ListingInv
<1>20. ASSUME token' # <<>>
       PROVE  /\ DOMAIN token' = {"last_modified"} /\ token'.last_modified = Number(token'.last_modified[2])
              /\ \A o \in LiveObjects' : o.last_modified[2] < token'.last_modified[2]
    <2>1. DOMAIN token' = {"last_modified"} /\ token'.last_modified = Number(Now + Len(order)) /\ order # <<>>
        BY <1>10, <1>20 DEF IsTombstoneToken
    <2>2. token'.last_modified[2] = Now + Len(order)
        BY <2>1 DEF Number
    <2>3. Len(order) # 0
        BY <2>1, <1>7, EmptySeq
    <2> QED BY <2>1, <2>2, <2>3, <1>5, <1>6, <1>7, <1>16
<1>21. ASSUME phase' = "done", Descending, NEW o \in Matching', IsUntouched(o) PROVE FALSE
    <2>1. o \in LiveObjects' /\ Matches(o, query.filters)
        BY <1>1, <1>17, <1>21, SameQuery DEF Matching
    <2>2. o \in LiveObjects /\ o \notin Range(order)
        BY <2>1, <1>16
    <2>3. Range(order) = found
        BY <1>11, <1>21
    <2>4. PageRules = {} \/ \E rule \in PageRules : SqlMatches(o, rule)
        <3>1. CASE token = <<>>
            BY <3>1 DEF PageRules
        <3>2. CASE token # <<>>
            <4>1. /\ DOMAIN token = {"last_modified"} /\ token.last_modified = Number(token.last_modified[2])
                  /\ o.last_modified[2] < token.last_modified[2]
                BY <3>2, <2>2, <1>0, <1>2, <1>21 DEF DeletionInv
            <4>2. IsToken(token)
                BY <1>2 DEF QueriesTypeOK, IsToken
            <4>3. token.last_modified[2] \in Nat
                <5>1. IsValue(token.last_modified) /\ token.last_modified[1] = 2
                    BY <4>1, <4>2 DEF IsToken, Number
                <5> QED BY <5>1, ValuesAre
            <4>4. IsTombstoneToken(token, token.last_modified[2])
                BY <3>2, <4>1, <4>2 DEF IsTombstoneToken
            <4>5. \A n \in DOMAIN sorting : sorting[n].direction # 1
                BY <1>2, <1>21, QueryIs, SortingIs DEF Descending, sorting
            <4>6. IsObject(o)
                BY <2>2, <1>5
            <4>7. PageRules = PaginationRules(sorting, token)
                BY <3>2 DEF PageRules, sorting
            <4> QED BY <4>1, <4>3, <4>4, <4>5, <4>6, <4>7, <1>3, OlderIsBeyond
        <3> QED BY <3>1, <3>2
    <2>5. o \in found
        BY <2>1, <2>2, <2>4, <1>4
    <2> QED BY <2>2, <2>3, <2>5
<1>22. DeletionInv'
    <2>1. (\A o : IsUntouched(o)' <=> IsUntouched(o)) /\ (Descending' <=> Descending)
        BY <1>1, SameQuery DEF IsUntouched
    <2>2. phase' = "done" /\ Descending' => \A o \in Matching' : ~IsUntouched(o)'
        BY <2>1, <1>21
    <2> QED BY <2>2, <1>20 DEF DeletionInv
<1>23. OnlyWhatWasWanted'
    <2>1. SUFFICES ASSUME Faithful, NEW o \in Range(received)' PROVE Wanted(o)
        BY <1>1, SameQuery DEF OnlyWhatWasWanted
    <2>2. CASE o \in Range(received)
        BY <2>1, <2>2, <1>2 DEF OnlyWhatWasWanted
    <2>3. CASE o \in Range(order)
        <3>1. IsObject(o) /\ Matches(o, query.filters)
            BY <2>3, <1>4, <1>5, <1>13
        <3> QED BY <2>1, <3>1, <1>2, FaithfulMatches
    <2> QED BY <2>1, <2>2, <2>3, <1>12
<1> QED BY <1>11, <1>14, <1>15, <1>18, <1>19, <1>22, <1>23 DEF QueriesInv

\* The invariant is inductive.
LEMMA StepsKeepQueriesInv == QueriesInv /\ [QueriesNext]_queryVars => QueriesInv'
<1> SUFFICES ASSUME QueriesInv, [QueriesNext]_queryVars PROVE QueriesInv'
    OBVIOUS
<1>1. CASE Refuse
    BY <1>1, FailureKeeps
<1>2. CASE Fail
    BY <1>2, FailureKeeps
<1>3. CASE CountAll
    BY <1>3, CountAllKeeps
<1>4. CASE GetPage
    BY <1>4, GetPageKeeps
<1>5. CASE DeletePage
    BY <1>5, DeletePageKeeps
<1>6. CASE Touch
    BY <1>6, TouchKeeps
<1>7. CASE UNCHANGED queryVars
    <2>1. UNCHANGED <<backend, query, list, phase, token, received, total, touched>>
        BY <1>7 DEF queryVars
    <2>2. QueriesTypeOK'
        BY <2>1 DEF QueriesInv, QueriesTypeOK
    <2>3. StampsDiffer' /\ Listed' = Listed /\ Matching' = Matching /\ LiveObjects' = LiveObjects
        BY <2>1, SameList DEF QueriesInv
    <2>4. (\A o : IsUntouched(o)' <=> IsUntouched(o)) /\ (PagesAreOneOrder' <=> PagesAreOneOrder)
        BY <2>1 DEF IsUntouched, PagesAreOneOrder
    <2>5. {o \in LiveObjects : Matches(o, query.filters)}' = {o \in LiveObjects : Matches(o, query.filters)}
        BY <2>1, <2>3, SameQuery
    <2>6. ListingInv'
        BY <2>1, <2>3, <2>4, <2>5 DEF QueriesInv, ListingInv
    <2>7. DeletionInv'
        BY <2>1, <2>3, <2>4, SameQuery DEF QueriesInv, DeletionInv
    <2>8. OnlyWhatWasWanted'
        <3>1. OnlyWhatWasWanted
            BY DEF QueriesInv
        <3> QED BY <2>1, <3>1, SameQuery DEF OnlyWhatWasWanted
    <2>9. phase' = "done" => ~Fails(Listed, query.filters)'
        BY <2>1, <2>3 DEF QueriesInv, Fails
    <2> QED BY <2>1, <2>2, <2>3, <2>6, <2>7, <2>8, <2>9 DEF QueriesInv
<1> QED BY <1>1, <1>2, <1>3, <1>4, <1>5, <1>6, <1>7 DEF QueriesNext

\* The invariant always holds.
THEOREM QueriesInvariant == QueriesSpec => []QueriesInv
BY InvInitially, StepsKeepQueriesInv, PTL DEF QueriesSpec

\* The state of a walk has its types, for any lists and queries.
THEOREM QueriesTyped == QueriesSpec => []QueriesTypeOK
<1>1. QueriesInv => QueriesTypeOK
    BY DEF QueriesInv
<1> QED BY <1>1, QueriesInvariant, PTL

\* Whatever the objects and the query, memory and PostgreSQL select the same objects
\* with the filters and with the rules of pages, in the same order (apply_filters() and
\* apply_sorting(), _format_conditions() and _format_sorting()).
THEOREM BackendsAlwaysAgree == QueriesSpec => []BackendsAgree
<1>1. QueriesInv => BackendsAgree
    BY TypesMakeBackendsAgree DEF QueriesInv
<1> QED BY <1>1, QueriesInvariant, PTL

\* Whatever others write between two pages, the pages of a GET are one sequence in the
\* order that was asked for, list all that matched throughout, and are as many as their
\* total says if nobody wrote (_plural_get(), _build_pagination_rules()).
THEOREM PagesAreAlwaysComplete == QueriesSpec => []PagesAreComplete
<1>1. QueriesInv => PagesAreComplete
    BY InvMakesPagesComplete
<1> QED BY <1>1, QueriesInvariant, PTL

\* Nothing is listed or deleted that the filters leave out, and a DELETE page by page
\* leaves nothing that matched throughout, if it goes newest first (plural_delete()).
THEOREM SelectionIsAlwaysExact == QueriesSpec => []SelectionIsExact
<1>1. QueriesInv => SelectionIsExact
    BY InvMakesSelectionExact
<1> QED BY <1>1, QueriesInvariant, PTL
=============================================================================
