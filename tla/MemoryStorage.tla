--------------------------- MODULE MemoryStorage ---------------------------
(***************************************************************************)
(* The in-memory storage backend, kinto/core/storage/memory.py.            *)
(*                                                                         *)
(* The backend keeps three dictionaries indexed by parent id and resource  *)
(* name: _store (live objects), _cemetery (tombstones) and _timestamps     *)
(* (the timestamp of the whole list, which clients see as its ETag).  Each *)
(* public method but flush() holds the instance's RLock, so a call is one  *)
(* action here: nobody sees its intermediate states.  Except flush(): its  *)
(* three assignments are three steps, which also fall inside the calls.    *)
(*                                                                         *)
(* Of an object only last_modified is kept: nothing in the backend looks   *)
(* at the other fields, except the filters and sort orders a caller gives  *)
(* to delete_all and trim_objects, which are free choices here.  A call    *)
(* that raises before it changed anything (UnicityError in create,         *)
(* ObjectNotFoundError in delete) is a stuttering step.                    *)
(*                                                                         *)
(* The calls that flush() may enter in a way that shows are taken step by  *)
(* step, under "Calls that a flush enters".  In the others it makes no     *)
(* difference: delete_all() and trim_objects() are a series of delete(),   *)
(* and a flush between two of these is one between two shorter calls; and  *)
(* an assignment that replaces a dictionary which the call is done with,   *)
(* or did not come to yet, is one after or before the call.                *)
(***************************************************************************)
EXTENDS Integers, FiniteSets, Functions

CONSTANTS
    Parents,        \* parent ids: "/buckets/a", "/buckets/a/collections/c"
    Resources,      \* resource names: "collection", "group", "record"
    Ids,            \* object ids
    Patterns,       \* the parent_id arguments callers pass, "*" included
    FullMatch,      \* FullMatch[p]: parents that ^p$ matches, * being .*
    PrefixMatch,    \* PrefixMatch[p]: parents that start with a match of p
    Specified,      \* last_modified values that a caller may force
    Absent,         \* no object, no tombstone, no timestamp
    MaxTime,        \* bound: the clock stops there
    MaxTimestamp,   \* bound: no stamp beyond it is handed out
    MaxFlushes      \* bound: so many flush() run at the same time

ASSUME StorageAssumption ==
    /\ IsFiniteSet(Ids)
    /\ FullMatch \in [Patterns -> SUBSET Parents]
    /\ PrefixMatch \in [Patterns -> SUBSET Parents]
    /\ \A p \in Patterns : FullMatch[p] \subseteq PrefixMatch[p]
    /\ Specified \subseteq Nat
    /\ Absent \notin Nat
    /\ MaxTime \in Nat
    /\ MaxTimestamp \in Nat
    /\ MaxFlushes \in Nat

Slots == Parents \X Resources

VARIABLES
    store,          \* store[k][i]: last_modified of live object i of slot k
    cemetery,       \* cemetery[k][i]: last_modified of its tombstone
    timestamps,     \* timestamps[k]: the list timestamp of slot k
    knownParents,   \* the keys of _timestamps (a defaultdict of dicts)
    now,            \* utils.msec_time()
    flushing,       \* flushing[n]: running flush() that made n of their
                    \* three assignments
    call,           \* the call taken step by step that has the lock, if any
    dropped         \* history: slots that lost their list timestamp while
                    \* they still held objects or tombstones, or while a call
                    \* was about to store one

vars == <<store, cemetery, timestamps, knownParents, now, flushing, call, dropped>>

Stamp == Nat \cup {Absent}

\* A call taken step by step: what it does to the object, the list timestamp
\* it read, and the stamp of the object: the forced one, if any, until step
\* "bumped", then the one it was given.
OpenCall == [op : {"put", "bury", "remove", "stamp"}, step : {"begun", "read", "bumped"},
             slot : Slots, id : Ids, current : Nat, stamp : Stamp]

ListsTypeOK ==
    /\ store \in [Slots -> [Ids -> Stamp]]
    /\ cemetery \in [Slots -> [Ids -> Stamp]]
    /\ timestamps \in [Slots -> Stamp]
    /\ knownParents \in SUBSET Parents
    /\ now \in Nat
    /\ flushing \in [1..2 -> Nat]
    /\ dropped \in SUBSET Slots

TypeOK == ListsTypeOK /\ call \in OpenCall \cup {Absent}

Live(k) == {i \in Ids : store[k][i] # Absent}
Buried(k) == {i \in Ids : cemetery[k][i] # Absent}

-----------------------------------------------------------------------------
(* Timestamps *)

\* The dictionary lookup of bump_and_store_timestamp, 0 when there is none.
ResourceTimestamp(k) == IF timestamps[k] = Absent THEN 0 ELSE timestamps[k]

\* Mutant: a forced stamp from the future does not move the list timestamp.
BumpIgnoringFuture(current, lm, time) ==
    LET new == IF time <= current THEN current + 1 ELSE time
    IN IF lm = Absent THEN [stamp |-> new, resource |-> new]
                      ELSE [stamp |-> lm, resource |-> current]

\* Mutant: two unforced changes in the same millisecond share a stamp.
BumpSameMillisecond(current, lm, time) ==
    LET new == IF time < current THEN current + 1 ELSE time
        s   == IF lm = Absent THEN new ELSE IF lm = current THEN current + 1 ELSE lm
    IN [stamp |-> s, resource |-> IF s > current THEN s ELSE current]

\* bump_timestamp: the object's stamp and the new list timestamp, given the
\* list's `current` one and the last_modified `lm` a caller forces, if any.
\* An unforced stamp is beyond the list's, a tie is bumped, one from the
\* future becomes the list's, one from the past leaves the list's alone.
BumpTimestamp(current, lm, time) ==
    LET new == IF time <= current THEN current + 1 ELSE time
        s   == IF lm = Absent THEN new ELSE IF lm = current THEN current + 1 ELSE lm
    IN [stamp |-> s, resource |-> IF s > current THEN s ELSE current]

Bump(k, lm) == BumpTimestamp(ResourceTimestamp(k), lm, now)

\* bump_and_store_timestamp stores the list timestamp, and its lookup in the
\* defaultdict makes the parent known.
StoreTimestamp(k, ts) ==
    /\ ts <= MaxTimestamp
    /\ timestamps' = [timestamps EXCEPT ![k] = ts]
    /\ knownParents' = knownParents \cup {k[1]}

-----------------------------------------------------------------------------
(* The operations *)

Init ==
    /\ store = [k \in Slots |-> [i \in Ids |-> Absent]]
    /\ cemetery = [k \in Slots |-> [i \in Ids |-> Absent]]
    /\ timestamps = [k \in Slots |-> Absent]
    /\ knownParents = {}
    /\ now = 1
    /\ flushing = [n \in 1..2 |-> 0]
    /\ call = Absent
    /\ dropped = {}

\* resource_timestamp(): reading the timestamp of a new list creates it.
InitTimestamp(k) ==
    /\ timestamps[k] = Absent
    /\ StoreTimestamp(k, Bump(k, Absent).resource)
    /\ UNCHANGED <<store, cemetery, now, flushing, dropped>>

\* The two assignments that create and update end with.
Put(k, i, lm) ==
    LET b == Bump(k, lm)
    IN /\ StoreTimestamp(k, b.resource)
       /\ store' = [store EXCEPT ![k][i] = b.stamp]
       /\ cemetery' = [cemetery EXCEPT ![k][i] = Absent]
       /\ UNCHANGED <<now, flushing, dropped>>

\* Mutant: the object is created next to its tombstone.
CreateKeepingTombstone(k, i, lm) ==
    LET b == Bump(k, lm)
    IN /\ store[k][i] = Absent
       /\ StoreTimestamp(k, b.resource)
       /\ store' = [store EXCEPT ![k][i] = b.stamp]
       /\ UNCHANGED <<cemetery, now, flushing, dropped>>

\* create(): UnicityError when a live object has this id.  An id that the
\* backend generates itself is one that is not live.
Create(k, i, lm) ==
    /\ store[k][i] = Absent
    /\ Put(k, i, lm)

\* update(): no check, an unknown object is created.
Update(k, i, lm) == Put(k, i, lm)

\* delete(): ObjectNotFoundError unless the object is live.
Delete(k, i, withDeleted, lm) ==
    LET b == Bump(k, lm)
    IN /\ store[k][i] # Absent
       /\ StoreTimestamp(k, b.resource)
       /\ store' = [store EXCEPT ![k][i] = Absent]
       /\ cemetery' = IF withDeleted THEN [cemetery EXCEPT ![k][i] = b.stamp]
                                     ELSE cemetery
       /\ UNCHANGED <<now, flushing, dropped>>

\* The stamps that consecutive unforced deletions in slot k obtain: the first
\* as bump_timestamp says, and each of the others one more than the one
\* before (the clock does not pass the list timestamp during the call).
FirstStamp(k) == Bump(k, Absent).stamp
LastStamp(k, S) == FirstStamp(k) + Cardinality(S) - 1
Nth(S, order, i) == Cardinality({j \in S : order[j] <= order[i]})

\* The orders in which a call may go through the objects of each slot.
Orders == [Slots -> Bijection(Ids, 1..Cardinality(Ids))]

\* Deletes the objects sel[k] of every slot k, in the given order.
DeleteEach(sel, order, withDeleted) ==
    /\ \A k \in Slots : sel[k] # {} => LastStamp(k, sel[k]) <= MaxTimestamp
    /\ store' = [k \in Slots |-> [i \in Ids |->
                    IF i \in sel[k] THEN Absent ELSE store[k][i]]]
    /\ cemetery' = [k \in Slots |-> [i \in Ids |->
                    IF i \in sel[k] /\ withDeleted
                    THEN FirstStamp(k) + Nth(sel[k], order[k], i) - 1
                    ELSE cemetery[k][i]]]
    /\ timestamps' = [k \in Slots |->
                    IF sel[k] = {} THEN timestamps[k] ELSE LastStamp(k, sel[k])]
    /\ knownParents' = knownParents \cup {p \in Parents :
                           \E k \in Slots : k[1] = p /\ sel[k] # {}}
    /\ UNCHANGED <<now, flushing, dropped>>

\* delete_all(): filters, pagination rules and limit select any of the live
\* objects of the parents and resources that match.
DeleteAll(p, R, sel, order, withDeleted) ==
    /\ \A k \in Slots :
          sel[k] \subseteq IF k[1] \in FullMatch[p] /\ k[2] \in R THEN Live(k) ELSE {}
    /\ DeleteEach(sel, order, withDeleted)

\* trim_objects(): of the objects F that the filters select, newest first, the
\* ones beyond the first `max` are deleted in that order.
TrimObjects(k, F, kept, max, order) ==
    /\ kept \subseteq F /\ F \subseteq Live(k)
    /\ Cardinality(kept) = IF max < Cardinality(F) THEN max ELSE Cardinality(F)
    /\ \A i, j \in F : store[k][i] > store[k][j] => order[k][i] < order[k][j]
    /\ \A i \in kept, j \in F \ kept : order[k][i] < order[k][j]
    /\ DeleteEach([l \in Slots |-> IF l = k THEN F \ kept ELSE {}], order, TRUE)

\* The tombstones of slot k that purge_deleted keeps.
Keeps(k, kept, rule, n) ==
    /\ kept \subseteq Buried(k)
    /\ rule = "all" => kept = {}
    /\ rule = "before" => kept = {i \in Buried(k) : cemetery[k][i] >= n}
    /\ rule = "max_retained" =>
          /\ Cardinality(kept) = IF n < Cardinality(Buried(k))
                                 THEN n ELSE Cardinality(Buried(k))
          /\ \A i \in kept, j \in Buried(k) \ kept : cemetery[k][i] >= cemetery[k][j]

\* The list timestamps of `lost` are deleted, and in the slots of `purged`
\* only the tombstones of kept remain.
Forget(lost, purged, kept) ==
    /\ timestamps' = [k \in Slots |-> IF k \in lost THEN Absent ELSE timestamps[k]]
    /\ cemetery' = [k \in Slots |-> [i \in Ids |->
                       IF k \in purged /\ i \notin kept[k] THEN Absent ELSE cemetery[k][i]]]
    /\ dropped' = (dropped \ lost) \cup
                     {k \in lost : \E i \in Ids : store[k][i] # Absent \/ cemetery'[k][i] # Absent}
    /\ UNCHANGED <<store, now>>

\* Unlike delete_all, purge_deleted matches with re.match() and no final "$".
MatchingParents(p) == knownParents \cap PrefixMatch[p]
MatchingSlots(p, R) == {k \in Slots : k[1] \in PrefixMatch[p] /\ k[2] \in R}

\* A flush makes the assignment after its n-th.
FlushAssigns(n) ==
    /\ flushing[n] > 0
    /\ flushing' = [m \in 1..2 |-> IF m = n THEN flushing[m] - 1
                                  ELSE IF m = n + 1 THEN flushing[m] + 1 ELSE flushing[m]]

\* What purge_deleted leaves in the cemetery, whose dictionaries it goes
\* through slot by slot.  If a flush replaces the cemetery meanwhile, only the
\* tombstones are left that are kept in the slots written after that.
PurgeSlots(purged, kept, rule, n) ==
    \/ /\ \A k \in Slots : IF k \in purged THEN Keeps(k, kept[k], rule, n) ELSE kept[k] = {}
       /\ Forget({k \in purged : k[1] \in knownParents}, purged, kept)
       /\ UNCHANGED flushing
    \/ /\ \A k \in Slots : kept[k] = {} \/ (k \in purged /\ Keeps(k, kept[k], rule, n))
       /\ Forget({k \in purged : k[1] \in knownParents}, Slots, kept)
       /\ FlushAssigns(1)

\* purge_deleted(resource_name=None)
PurgeDeleted(p, rule, n, kept) ==
    /\ PurgeSlots(MatchingSlots(p, Resources), kept, rule, n)
    /\ knownParents' = knownParents \ MatchingParents(p)

\* purge_deleted(resource_name=r) when every matching parent has a timestamp.
PurgeResource(p, r, rule, n, kept) ==
    /\ \A q \in MatchingParents(p) : timestamps[<<q, r>>] # Absent
    /\ PurgeSlots(MatchingSlots(p, {r}), kept, rule, n)
    /\ UNCHANGED knownParents

\* purge_deleted(resource_name=r) when one has none: the `del` raises a
\* KeyError, after the timestamps of the parents before it were deleted and
\* before any tombstone is.
PurgeKeyError(p, r, done) ==
    /\ \E q \in MatchingParents(p) : timestamps[<<q, r>>] = Absent
    /\ done \subseteq {q \in MatchingParents(p) : timestamps[<<q, r>>] # Absent}
    /\ Forget({<<q, r>> : q \in done}, {}, [k \in Slots |-> {}])
    /\ UNCHANGED <<knownParents, flushing>>

-----------------------------------------------------------------------------
(* flush(), its three assignments.  It holds no lock: others make theirs,     *)
(* and a call goes on, between them.                                          *)

FlushStore ==
    /\ flushing[1] + flushing[2] < MaxFlushes
    /\ flushing' = [flushing EXCEPT ![1] = @ + 1]
    /\ store' = [k \in Slots |-> [i \in Ids |-> Absent]]
    /\ UNCHANGED <<cemetery, timestamps, knownParents, now, call, dropped>>

FlushCemetery ==
    /\ FlushAssigns(1)
    /\ cemetery' = [k \in Slots |-> [i \in Ids |-> Absent]]
    /\ UNCHANGED <<store, timestamps, knownParents, now, call, dropped>>

\* The slot that the open call has taken a stamp for, and not stored it yet.
Storing == IF call # Absent /\ call.step = "bumped" THEN {call.slot} ELSE {}

\* The `del` of a purge_deleted that was about to delete a list timestamp of a
\* parent raises a KeyError, and brings the parent's entry back.
FlushTimestamps ==
    /\ FlushAssigns(2)
    /\ timestamps' = [k \in Slots |-> Absent]
    /\ \/ knownParents' = {}
       \/ call = Absent /\ \E q \in knownParents : knownParents' = {q}
    /\ dropped' = {k \in Slots : Live(k) \cup Buried(k) # {}} \cup Storing
    /\ UNCHANGED <<store, cemetery, now, call>>

Tick ==
    /\ now < MaxTime
    /\ now' = now + 1
    /\ UNCHANGED <<store, cemetery, timestamps, knownParents, flushing, call, dropped>>

-----------------------------------------------------------------------------
(* Calls that a flush enters: create() and update() ("put"), delete() with or *)
(* without a tombstone ("bury", "remove"), and resource_timestamp() of a new  *)
(* list ("stamp").  What they find in the store or the timestamps, what they  *)
(* read of the list timestamp, its new value, and the object are four steps.  *)

\* What the call finds first.  create() and update() of an id that is not live
\* are the same from here on, and so are an update() and a create() whose
\* object a flush took away.
BeginCall(op, k, i, lm) ==
    /\ call = Absent
    /\ op \in {"bury", "remove"} => store[k][i] # Absent
    /\ op = "stamp" => timestamps[k] = Absent /\ lm = Absent
    /\ call' = [op |-> op, step |-> "begun", slot |-> k, id |-> i, current |-> 0, stamp |-> lm]
    /\ UNCHANGED <<store, cemetery, timestamps, knownParents, now, flushing, dropped>>

\* bump_and_store_timestamp, its read.
ReadTimestamp ==
    /\ call # Absent /\ call.step = "begun"
    /\ call' = [call EXCEPT !.step = "read", !.current = ResourceTimestamp(call.slot)]
    /\ knownParents' = knownParents \cup {call.slot[1]}
    /\ UNCHANGED <<store, cemetery, timestamps, now, flushing, dropped>>

\* bump_and_store_timestamp, its write.
WriteTimestamp ==
    /\ call # Absent /\ call.step = "read"
    /\ LET b == BumpTimestamp(call.current, call.stamp, now)
       IN /\ StoreTimestamp(call.slot, b.resource)
          /\ call' = IF call.op = "stamp" THEN Absent
                     ELSE [call EXCEPT !.step = "bumped", !.stamp = b.stamp]
    /\ UNCHANGED <<store, cemetery, now, flushing, dropped>>

\* The object is stored, or moved to the cemetery.  When a flush took it away
\* after delete() found it, the tombstone is written and the `pop` that
\* follows raises a KeyError.
ChangeObject ==
    /\ call # Absent /\ call.step = "bumped"
    /\ store' = [store EXCEPT ![call.slot][call.id] = IF call.op = "put" THEN call.stamp ELSE Absent]
    /\ cemetery' = CASE call.op = "put" -> [cemetery EXCEPT ![call.slot][call.id] = Absent]
                     [] call.op = "bury" -> [cemetery EXCEPT ![call.slot][call.id] = call.stamp]
                     [] OTHER -> cemetery
    /\ call' = Absent
    /\ UNCHANGED <<timestamps, knownParents, now, flushing, dropped>>

CallSteps ==
    \/ \E op \in {"put", "bury", "remove", "stamp"}, k \in Slots, i \in Ids,
          lm \in Specified \cup {Absent} : BeginCall(op, k, i, lm)
    \/ ReadTimestamp
    \/ WriteTimestamp
    \/ ChangeObject

-----------------------------------------------------------------------------
\* What a caller may ask purge_deleted to keep: nothing, what is not older
\* than `before`, or the newest `max_retained`.
Rules == {<<"all", 0>>} \cup ({"before"} \X (1..MaxTimestamp))
                        \cup ({"max_retained"} \X (0..Cardinality(Ids)))

Purge ==
    \E p \in Patterns, rule \in Rules, kept \in [Slots -> SUBSET Ids] :
       \/ PurgeDeleted(p, rule[1], rule[2], kept)
       \/ \E r \in Resources : PurgeResource(p, r, rule[1], rule[2], kept)

\* The calls of the requests.
Calls ==
    /\ call = Absent /\ UNCHANGED call
    /\ \/ \E k \in Slots : InitTimestamp(k)
       \/ \E k \in Slots, i \in Ids, lm \in Specified \cup {Absent} :
             \/ Create(k, i, lm)
             \/ Update(k, i, lm)
             \/ \E withDeleted \in BOOLEAN : Delete(k, i, withDeleted, lm)
       \/ \E p \in Patterns, R \in {Resources} \cup {{r} : r \in Resources},
             sel \in [Slots -> SUBSET Ids], order \in Orders, withDeleted \in BOOLEAN :
                DeleteAll(p, R, sel, order, withDeleted)
       \/ \E k \in Slots, F \in SUBSET Ids, kept \in SUBSET Ids, order \in Orders :
             \E max \in 0..Cardinality(Ids) : TrimObjects(k, F, kept, max, order)

\* The calls that make a list forget: a bucket or a collection is deleted, or
\* the purge-deleted script runs.
Forgetting ==
    /\ call = Absent /\ UNCHANGED call
    /\ \/ Purge
       \/ \E p \in Patterns, r \in Resources, done \in SUBSET Parents : PurgeKeyError(p, r, done)

\* The flush endpoint is used, once or more often.
Flushing == FlushStore \/ FlushCemetery \/ FlushTimestamps

Next == Calls \/ Forgetting \/ CallSteps \/ Flushing \/ Tick

Spec == Init /\ [][Next]_vars

-----------------------------------------------------------------------------
(* Properties *)

\* An id is never both a live object and a tombstone: create, update, delete,
\* delete_all and trim_objects keep _store and _cemetery disjoint, whatever
\* assignments of a flush fall between or into them.
LiveAndBuriedDisjoint ==
    \A k \in Slots, i \in Ids : store[k][i] = Absent \/ cemetery[k][i] = Absent

Covers(k, s) == s # Absent => timestamps[k] # Absent /\ timestamps[k] >= s

\* The list timestamp is never behind the objects and the tombstones of the
\* list, so that a client that polls with _since=<ETag> has seen them all.
\* Left out are the lists that purge_deleted or flush made forget their
\* timestamp, but neither their objects nor what a call was about to store.
TimestampCovers ==
    \A k \in Slots \ dropped, i \in Ids : Covers(k, store[k][i]) /\ Covers(k, cemetery[k][i])

Entry(k, i) == IF store[k][i] # Absent THEN store[k][i] ELSE cemetery[k][i]
\* The list timestamp before the change under way.
Before(k) == IF call # Absent /\ call.slot = k THEN call.current ELSE ResourceTimestamp(k)
Changed(k) == \E i \in Ids : Entry(k, i)' # Entry(k, i) /\ Entry(k, i)' # Absent

\* A change that leaves an object or a tombstone behind advances the list
\* timestamp, unless it forces a stamp from the past, or a flush took the new
\* timestamp away before the object was stored: two writes in the same
\* millisecond, or a forced stamp equal to the list's, are told apart.
ChangeAdvancesList ==
    [][\A k \in Slots :
          Changed(k) => \/ k \in Storing /\ timestamps[k] = Absent
                        \/ timestamps'[k] > Before(k)
                        \/ \E i \in Ids : Entry(k, i)' # Absent
                                          /\ Entry(k, i)' \in Specified
                                          /\ Entry(k, i)' < Before(k)]_vars

\* The objects and tombstones of a list all have different stamps, those that
\* a caller forced apart: pagination by last_modified skips none of them.
StampsAreUnique ==
    \A k \in Slots \ dropped : \A i, j \in Ids :
       i # j /\ Entry(k, i) \notin Specified \cup {Absent} => Entry(k, i) # Entry(k, j)
=============================================================================
