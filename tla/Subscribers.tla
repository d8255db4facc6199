----------------------------- MODULE Subscribers -----------------------------
(***************************************************************************)
(* What follows from a change: the subscribers of ResourceChanged that     *)
(* empty deleted buckets and collections (kinto/views/buckets.py,          *)
(* collections.py), that give and take the principals of groups            *)
(* (kinto/views/groups.py) and that write the history                      *)
(* (kinto/plugins/history), with the objects and permissions that requests *)
(* and batches change, and the default bucket plugin, which creates        *)
(* buckets and collections on the way.                                     *)
(*                                                                         *)
(* Batches run one after the other.  The subrequests of a batch change     *)
(* objects at once and stack events; the events are notified at its end.   *)
(* One user asks for everything; the batches differ by the user id that    *)
(* the history settings look at.                                           *)
(***************************************************************************)
EXTENDS Naturals, SequencesExt, FiniteSetsExt, Functions

CONSTANTS
    Buckets,        \* ids of buckets; Default is one
    Default,        \* the bucket of the collection, its records and the group
    Records,        \* ids of the records
    EndsAlike,      \* those that end with the id of the collection
    Members,        \* users that are members of the group
    Authors,        \* user ids that batches are sent with
    AllSettings,    \* the settings to choose from
    Populated,      \* sequences of objects that exist at first
    Joining,        \* the members of the group then
    MaxRequests     \* bound: requests and subrequests in all

VARIABLES
    settings,   \* [explicit, trimMax, threshold, trimUsers, excludedUsers, excluded]
    given,      \* the objects that are still to be put, before the first batch
    viaDefault, \* whether requests go to /buckets/default
    phase,      \* "idle", "requests", "before"
    author,     \* the user id of the batch
    tx,         \* what its transaction sees, below
    blurred,    \* history: objects with different actions in one batch, or
                \* that went with their parent
    response,   \* history: of the last request
    requests    \* how many there were

subscriberVars == <<settings, given, viaDefault, phase, author, tx, blurred, response, requests>>

-----------------------------------------------------------------------------
Bucket(b) == <<b>>
Collection == <<Default, "collection">>
Group == <<Default, "group">>
Record(r) == <<Default, "collection", r>>
Objects == {Bucket(b) : b \in Buckets} \cup {Collection, Group} \cup {Record(r) : r \in Records}
Resource(o) == CASE Len(o) = 1 -> "bucket" [] o = Collection -> "collection"
                 [] o = Group -> "group"   [] OTHER -> "record"
Under(o) == {p \in Objects : Len(p) > Len(o) /\ \A n \in DOMAIN o : p[n] = o[n]}

ASSUME SubscribersAssumption ==
    /\ Default \in Buckets
    /\ IsFiniteSet(Records) /\ EndsAlike \subseteq Records
    /\ Joining \subseteq Members
    /\ Authors # {}
    /\ \A objects \in Populated : objects \in Seq(Objects)
    /\ \A s \in AllSettings : s.trimMax \in Nat /\ s.threshold \in Nat
    /\ MaxRequests \in Nat

\* The values of data are their stamps; groups have members too.
Object == [stamp : Nat, members : SUBSET Members]
Change == [object : Objects, stamp : Nat, old : SUBSET Members, new : SUBSET Members]
Resources == {"bucket", "collection", "group", "record"}
Actions == {"create", "update", "delete"}
Event == [resource : Resources, parent : {Front(o) : o \in Objects}, action : Actions,
          bucket : Buckets, impacted : Seq(Change)]
Entry == [bucket : Buckets, object : Objects, action : Actions, stamp : Nat, author : Authors]
IsPartial(f, from, to) == DOMAIN f \subseteq from /\ f \in [DOMAIN f -> to]

\* A transaction: the live objects; the tombstones with their stamps; the
\* objects that the user has the write permission of; the members that have the
\* principal of the group; the history, entries by their own stamps; the clock;
\* bound_data: the buckets and collections that exist or were created, and the
\* events in the order of the dict; and, for the properties, what the batch did
\* to which object, and the past of each object: whether it was live from each
\* of its stamps.
Fields == {"store", "tombstones", "owned", "holders", "history", "now", "bound", "events", "acted", "past"}
IsTransaction(t) ==
    /\ t = [f \in Fields |-> t[f]]
    /\ IsPartial(t.store, Objects, Object)
    /\ IsPartial(t.tombstones, Objects, Nat)
    /\ t.owned \subseteq Objects
    /\ t.holders \subseteq Members
    /\ IsPartial(t.history, Nat, Entry)
    /\ t.now \in Nat
    /\ t.bound \subseteq Objects
    /\ t.events \in Seq(Event)
    /\ t.acted \subseteq Objects \X Actions
    /\ DOMAIN t.past = Objects /\ \A o \in Objects : IsPartial(t.past[o], Nat, BOOLEAN)

SubscribersTypeOK ==
    /\ settings \in AllSettings /\ viaDefault \in BOOLEAN
    /\ given \in Seq(Objects)
    /\ phase \in {"idle", "requests", "before"} /\ author \in Authors
    /\ IsTransaction(tx)
    /\ blurred \subseteq Objects
    /\ response.granted \in BOOLEAN
    /\ requests \in 0..MaxRequests

With(f, x, v) == [y \in DOMAIN f \cup {x} |-> IF y = x THEN v ELSE f[y]]
Without(f, S) == Restrict(f, DOMAIN f \ S)
MembersOf(t, o) == IF o \in DOMAIN t.store THEN t.store[o].members ELSE {}

-----------------------------------------------------------------------------
(* Events *)

\* add_event(): the impacted objects of the same key are extended; the payload
\* stays that of the first.
AddEvent(events, e) ==
    LET same == {n \in DOMAIN events : /\ events[n].resource = e.resource
                                       /\ events[n].parent = e.parent
                                       /\ events[n].action = e.action}
    IN IF same = {} THEN Append(events, e)
       ELSE [n \in DOMAIN events |->
                IF n \in same THEN [events[n] EXCEPT !.impacted = @ \o e.impacted] ELSE events[n]]

\* notify_resource_event(): the payload has the id of the bucket in the request.
EventOf(action, changes) ==
    LET o == Head(changes).object
    IN [resource |-> Resource(o), parent |-> Front(o), action |-> action, bucket |-> o[1], impacted |-> changes]

-----------------------------------------------------------------------------
(* The changes of objects (model.py), with their events *)

\* create_object() and update_object(), then postprocess().
Stored(t, o, members) ==
    LET stamp == t.now + 1
        action == IF o \in DOMAIN t.store THEN "update" ELSE "create"
    IN [t EXCEPT !.now = stamp,
                 !.store = With(@, o, [stamp |-> stamp, members |-> members]),
                 !.tombstones = Without(@, {o}),
                 !.owned = IF settings.explicit THEN @ \cup {o} ELSE @,
                 !.events = AddEvent(@, EventOf(action, <<[object |-> o, stamp |-> stamp,
                                                            old |-> MembersOf(t, o), new |-> members]>>)),
                 !.acted = @ \cup {<<o, action>>},
                 !.past = [p \in Objects |-> IF p = o THEN With(@[p], stamp, TRUE) ELSE @[p]]]

\* delete_object() of each of some objects, then one event: DELETE of an object,
\* or of the list of records.
Deleted(t, objects) ==
    LET gone == Range(objects)
        changes == [n \in DOMAIN objects |-> [object |-> objects[n], stamp |-> t.now + n,
                                               old |-> MembersOf(t, objects[n]), new |-> {}]]
        stamp == [o \in gone |-> t.now + CHOOSE n \in DOMAIN objects : objects[n] = o]
    IN [t EXCEPT !.now = @ + Len(objects),
                 !.store = Without(@, gone),
                 !.tombstones = [o \in DOMAIN @ \cup gone |-> IF o \in gone THEN stamp[o] ELSE @[o]],
                 !.owned = @ \ gone,
                 !.events = AddEvent(@, EventOf("delete", changes)),
                 !.acted = @ \cup {<<o, "delete">> : o \in gone},
                 !.past = [o \in Objects |-> IF o \in gone THEN With(@[o], stamp[o], FALSE) ELSE @[o]]]

-----------------------------------------------------------------------------
(* Requests *)

\* With explicit_permissions off, permissions come from the settings.
MayWrite(t, o) == ~settings.explicit \/ \E p \in t.owned : o = p \/ o \in Under(p)
MayPut(t, o) == MayWrite(t, o) \/ (Resource(o) = "bucket" /\ o \notin DOMAIN t.store)

\* resource_create_object(): a UnicityError is ignored.
Ensured(t, o) ==
    LET made == IF o \in DOMAIN t.store THEN t ELSE Stored(t, o, {})
    IN [made EXCEPT !.bound = @ \cup {o}]

\* create_bucket()
WithBucket(t, method, path) ==
    IF (method = "PUT" /\ path = Bucket(Default)) \/ Bucket(Default) \in t.bound THEN t
    ELSE Ensured(t, Bucket(Default))

\* create_collection(): not when the path of a PUT ends with the id of the collection.
WithCollection(t, method, path) ==
    IF \/ path \notin {Collection} \cup Under(Collection) \/ Collection \in t.bound
       \/ method = "PUT" /\ (path = Collection \/ path \in {Record(r) : r \in EndsAlike})
    THEN t ELSE Ensured(t, Collection)

\* default_bucket(), before the subrequest.
Implied(t, method, path) ==
    IF viaDefault THEN WithCollection(WithBucket(t, method, path), method, path) ELSE t

\* Record.__init__(): the collection is looked up once, and kept when it exists
\* even if the request is refused.
HasParent(t, o) == Resource(o) = "record" => Collection \in t.bound \cup DOMAIN t.store
Known(t, o) == IF Resource(o) = "record" THEN [t EXCEPT !.bound = @ \cup {Collection}] ELSE t
LookedUp(t, o) == IF HasParent(t, o) THEN Known(t, o) ELSE t

\* The request on path is answered, with after, or refused with what was
\* implied before.
Answer(method, path, granted, before, after) ==
    /\ tx' = IF granted THEN after ELSE before
    /\ response' = [method |-> method, path |-> path, granted |-> granted]
    /\ requests' = requests + 1

CanAsk(path) ==
    /\ phase = "requests" /\ requests < MaxRequests
    /\ viaDefault => path[1] = Default
    /\ UNCHANGED <<settings, given, viaDefault, phase, author, blurred>>

\* PUT, and PATCH of what exists.
PutObject(o, members) ==
    /\ CanAsk(o)
    /\ LET t == Implied(tx, "PUT", o)
           granted == MayPut(t, o) /\ HasParent(t, o)
       IN Answer("PUT", o, granted, LookedUp(t, o), Stored(Known(t, o), o, members))

DeleteObject(o) ==
    /\ CanAsk(o)
    /\ LET t == Implied(tx, "DELETE", o)
           granted == MayWrite(t, o) /\ HasParent(t, o) /\ o \in DOMAIN t.store
       IN Answer("DELETE", o, granted, LookedUp(t, o), Deleted(Known(t, o), <<o>>))

\* DELETE on the list of records; of none, it is an event of reading.
DeleteRecords ==
    /\ CanAsk(Collection)
    /\ LET t == Implied(tx, "DELETE", Collection)
           records == SetToSeq({o \in DOMAIN t.store : Resource(o) = "record"})
           found == MayWrite(t, Collection) /\ Collection \in t.bound \cup DOMAIN t.store
           known == [t EXCEPT !.bound = @ \cup {Collection}]
       IN Answer("DELETE", Collection, found /\ records # <<>>, IF found THEN known ELSE t, Deleted(known, records))

Begin(a) ==
    /\ phase = "idle" /\ given = <<>> /\ requests < MaxRequests
    /\ phase' = "requests"
    /\ author' = a
    /\ tx' = [tx EXCEPT !.bound = {}]
    /\ UNCHANGED <<settings, given, viaDefault, blurred, response, requests>>

EndRequests ==
    /\ phase = "requests"
    /\ phase' = "before"
    /\ UNCHANGED <<settings, given, viaDefault, author, tx, blurred, response, requests>>

-----------------------------------------------------------------------------
(* Subscribers, in the order of their subscription *)

\* on_resource_changed(): which impacted objects to track.  bucket_id is that of
\* the payload.
Targets(e) ==
    {n \in DOMAIN e.impacted :
        LET o == e.impacted[n].object
        IN settings.excluded \cap ({Bucket(e.bucket), o} \cup IF o \in {Collection} \cup Under(Collection) THEN {Collection} ELSE {}) = {}}

\* trim_objects(): the newest of the resource, and of the user, are kept.
IsTrimmable(entry, resource) ==
    Resource(entry.object) = resource /\ (settings.trimUsers # {} => entry.author = author)
TrimEnabled == settings.trimMax > 0 /\ (settings.trimUsers = {} \/ author \in settings.trimUsers)

\* How many are left of so many entries, when others are added and the oldest
\* trimmed after each.
Left(many, others) ==
    LET left[n \in 0..others] ==
            IF n = 0 THEN many
            ELSE IF left[n - 1] + 1 > settings.trimMax + settings.threshold THEN settings.trimMax
            ELSE left[n - 1] + 1
    IN left[others]

\* Mutant: the entries of other resources are counted and trimmed too.
TrimmedAny(history, added, e) ==
    LET older == {n \in DOMAIN history : n \notin added /\ history[n].bucket = e.bucket}
        all == older \cup added
        left == Left(Cardinality(older), Cardinality(added))
    IN IF TrimEnabled THEN Without(history, {n \in all : Cardinality({m \in all : m > n}) >= left}) ELSE history

Trimmed(history, added, e) ==
    LET older == {n \in DOMAIN history : /\ n \notin added /\ history[n].bucket = e.bucket
                                          /\ IsTrimmable(history[n], e.resource)}
        all == older \cup added
        left == Left(Cardinality(older), Cardinality(added))
    IN IF TrimEnabled THEN Without(history, {n \in all : Cardinality({m \in all : m > n}) >= left}) ELSE history

\* on_resource_changed(): without explicit permissions it returns after the
\* first entry.
Tracked(t, e) ==
    LET targets == IF author \in settings.excludedUsers THEN {} ELSE Targets(e)
        tracked == IF settings.explicit THEN targets ELSE {n \in targets : \A m \in targets : n <= m}
        added == {t.now + n : n \in tracked}
        entry(c) == [bucket |-> e.bucket, object |-> c.object, action |-> e.action, stamp |-> c.stamp, author |-> author]
        history == [n \in DOMAIN t.history \cup added |->
                       IF n \in added THEN entry(e.impacted[n - t.now]) ELSE t.history[n]]
    IN [t EXCEPT !.now = @ + Len(e.impacted), !.history = Trimmed(history, added, e)]

\* Mutant: the permissions are left.
EmptiedButPermissions(t, objects) ==
    LET below == UNION {Under(o) : o \in objects}
    IN [t EXCEPT !.store = Without(@, below), !.tombstones = Without(@, below)]

\* Mutant: the objects of another level are left.
EmptiedOneLevel(t, objects) ==
    LET below == {p \in Objects : Front(p) \in objects /\ Len(p) = 2}
    IN [t EXCEPT !.store = Without(@, below), !.owned = @ \ below]

\* on_buckets_deleted() and on_collections_deleted(): what is under the objects
\* goes, with its tombstones, its permissions and its history, but not its
\* principals.
Emptied(t, objects) ==
    LET below == UNION {Under(o) : o \in objects}
        buckets == {b \in Buckets : Bucket(b) \in objects}
    IN [t EXCEPT !.store = Without(@, below),
                 !.tombstones = Without(@, below),
                 !.owned = @ \ (below \cup {Bucket(b) : b \in buckets}),
                 !.history = Without(@, {n \in DOMAIN @ : @[n].bucket \in buckets})]

\* Mutant: members are added only.
JoinedOnly(holders, changes) ==
    holders \cup {m \in Members : \E n \in DOMAIN changes : m \in changes[n].new \ changes[n].old}

\* on_groups_changed(): the last change that gives or takes the principal counts.
Joined(holders, changes) ==
    LET gives(m) == {n \in DOMAIN changes : m \in changes[n].new \ changes[n].old}
        takes(m) == {n \in DOMAIN changes : m \in changes[n].old \ changes[n].new}
    IN {m \in Members : IF gives(m) \cup takes(m) = {} THEN m \in holders
                        ELSE \E n \in gives(m) : \A k \in takes(m) : k < n}

Impacted(e) == {e.impacted[n].object : n \in DOMAIN e.impacted}
Notified(t, e) ==
    LET h == Tracked(t, e)
    IN CASE e.resource \in {"bucket", "collection"} /\ e.action = "delete" -> Emptied(h, Impacted(e))
         [] e.resource = "group" /\ e.action = "delete" -> [h EXCEPT !.holders = {}]   \* on_groups_deleted()
         [] e.resource = "group" /\ e.action # "delete" -> [h EXCEPT !.holders = Joined(@, e.impacted)]
         [] OTHER -> h

\* The tween notifies the first event of the dict.
Notify ==
    /\ phase = "before" /\ tx.events # <<>>
    /\ LET e == Head(tx.events)
           swept == IF e.action = "delete" THEN UNION {Under(o) : o \in Impacted(e)} ELSE {}
       IN /\ tx' = Notified([tx EXCEPT !.events = Tail(@)], e)
          /\ blurred' = blurred \cup swept
    /\ UNCHANGED <<settings, given, viaDefault, phase, author, response, requests>>

\* Whether the batch did different things to an object.
Mixed(t, o) == \E a, b \in Actions : a # b /\ {<<o, a>>, <<o, b>>} \subseteq t.acted

\* The transaction is committed.
Commit ==
    /\ phase = "before" /\ tx.events = <<>>
    /\ phase' = "idle"
    /\ blurred' = blurred \cup {o \in Objects : Mixed(tx, o)}
    /\ tx' = [tx EXCEPT !.acted = {}]
    /\ UNCHANGED <<settings, given, viaDefault, author, response, requests>>

-----------------------------------------------------------------------------
(* Initial states and steps *)

Empty == [store |-> <<>>, tombstones |-> <<>>, owned |-> {}, holders |-> {}, history |-> <<>>, now |-> 0,
          bound |-> {}, events |-> <<>>, acted |-> {}, past |-> [o \in Objects |-> <<>>]]

SubscribersInit ==
    /\ settings \in AllSettings
    /\ given \in Populated
    /\ viaDefault \in BOOLEAN
    /\ phase = "idle"
    /\ author = CHOOSE a \in Authors : TRUE
    /\ tx = Empty
    /\ blurred = {}
    /\ response = [method |-> "GET", path |-> Bucket(Default), granted |-> TRUE]
    /\ requests = 0

\* A request by itself, before the first batch: an object is put whose parent
\* exists, and the event is notified.
Populate ==
    /\ phase = "idle" /\ given # <<>>
    /\ LET o == Head(given)
           put == Stored(tx, o, IF o = Group THEN Joining ELSE {})
       IN /\ Len(o) > 1 => Front(o) \in DOMAIN tx.store
          /\ tx' = [Notified([put EXCEPT !.events = <<>>], Head(put.events)) EXCEPT !.acted = {}]
    /\ given' = Tail(given)
    /\ UNCHANGED <<settings, viaDefault, phase, author, blurred, response, requests>>

SubscribersNext ==
    \/ Populate
    \/ \E a \in Authors : Begin(a)
    \/ \E o \in Objects, members \in SUBSET Members : (o # Group => members = {}) /\ PutObject(o, members)
    \/ \E o \in Objects : DeleteObject(o)
    \/ DeleteRecords
    \/ EndRequests
    \/ Notify
    \/ Commit

SubscribersSpec == SubscribersInit /\ [][SubscribersNext]_subscriberVars

-----------------------------------------------------------------------------
(* The snapshot (get_snapshot()) *)

\* Mutant: the deleted records are not looked at.
SnapshotOfLive(s) ==
    LET records == {o \in DOMAIN tx.store : Resource(o) = "record"}
        entriesOf(o) == {n \in DOMAIN tx.history : tx.history[n].object = o /\ tx.history[n].stamp <= s}
        latest(o) == tx.history[Max(entriesOf(o))]
    IN {<<o, latest(o).stamp, latest(o).action # "delete">> : o \in {p \in records : entriesOf(p) # {}}}

\* The records of the collection at stamp s: <<record, stamp, live>>.
Snapshot(s) ==
    LET stampOf == [o \in DOMAIN tx.store \cup DOMAIN tx.tombstones |->
                       IF o \in DOMAIN tx.store THEN tx.store[o].stamp ELSE tx.tombstones[o]]
        records == {o \in DOMAIN stampOf : Resource(o) = "record"}
        unchanged == {o \in records \cap DOMAIN tx.store : stampOf[o] <= s}
        changed == {o \in records : stampOf[o] > s}
        entriesOf(o) == {n \in DOMAIN tx.history : /\ tx.history[n].bucket = Default /\ tx.history[n].object = o
                                                   /\ tx.history[n].stamp <= s}
        latest(o) == tx.history[Max(entriesOf(o))]
    IN {<<o, stampOf[o], TRUE>> : o \in unchanged}
       \cup {<<o, latest(o).stamp, latest(o).action # "delete">> : o \in {p \in changed : entriesOf(p) # {}}}

(* Properties *)

Idle == phase = "idle"

\* The records that were live at stamp s, by the order of the changes.
LiveAt(s) ==
    LET records == {Record(r) : r \in Records}
        before(o) == {stamp \in DOMAIN tx.past[o] : stamp <= s}
    IN {<<o, Max(before(o)), TRUE>> : o \in {p \in records : before(p) # {} /\ tx.past[p][Max(before(p))]}}

TracksAll == settings.explicit /\ settings.trimMax = 0 /\ settings.excluded = {} /\ settings.excludedUsers = {}
Sharp(S) == {x \in S : x[1] \notin blurred}

\* Outside of batches that create, update or delete the same group, the members
\* of the group are those that have its principal (on_groups_changed(),
\* on_groups_deleted()): the events say what to add and what to remove, each
\* from the state that the previous change left.
MembersHavePrincipal == Idle /\ Group \notin blurred => tx.holders = MembersOf(tx, Group)

\* Whoever creates an object can write it from then on, and has no permission on
\* what does not exist, whatever the deletions of parents before; buckets that a
\* batch deletes and creates aside (_allow_write(), delete_object(),
\* on_buckets_deleted(), on_collections_deleted()).
OwnersKeepAccess ==
    Idle /\ settings.explicit =>
        /\ tx.owned \subseteq DOMAIN tx.store
        /\ {o \in DOMAIN tx.store : Len(o) > 1 \/ o \notin blurred} \subseteq tx.owned

\* Nothing outlives its parent: whatever a batch creates below what it deletes,
\* or deletes above what it creates, is gone at its end (on_buckets_deleted(),
\* on_collections_deleted(), with the looked up collections of bound_data).
ParentsExist ==
    Idle /\ settings.explicit => \A o \in DOMAIN tx.store : Len(o) > 1 => Front(o) \in DOMAIN tx.store

\* The records of a snapshot are those that were there, at any stamp, rebuilt
\* from the live ones, the tombstones and the history (get_snapshot()); deleted
\* ones aside.
SnapshotHasLiveRecords ==
    Idle /\ TracksAll =>
        \A s \in 0..tx.now : {x \in Sharp(Snapshot(s)) : x[3]} = Sharp(LiveAt(s))

\* The newest entry of an object in the history of its bucket tells its state,
\* although events are merged and entries made at the end (on_resource_changed()).
HistoryIsCurrent ==
    Idle /\ TracksAll =>
        \A o \in Objects \ blurred : Resource(o) # "bucket" =>
            LET entries == {n \in DOMAIN tx.history : tx.history[n].bucket = o[1] /\ tx.history[n].object = o}
            IN IF o \in DOMAIN tx.store \/ o \in DOMAIN tx.tombstones
               THEN entries # {} /\ LET h == tx.history[Max(entries)]
                                    IN IF h.action = "delete" THEN o \in DOMAIN tx.tombstones /\ h.stamp = tx.tombstones[o]
                                       ELSE o \in DOMAIN tx.store /\ h.stamp = tx.store[o].stamp
               ELSE entries = {}

\* The history tells the state of objects: now, and at the stamp of a snapshot.
HistoryTellsStates == HistoryIsCurrent /\ SnapshotHasLiveRecords

\* What a step may do to the history: an entry leaves it with its bucket, or
\* because trimMax newer ones are kept of the same resource and, when trimming is
\* by user, of the same user; and what is kept is within the threshold.
TrimsOldest ==
    LET all == [n \in DOMAIN tx.history \cup DOMAIN tx'.history |->
                   IF n \in DOMAIN tx.history THEN tx.history[n] ELSE tx'.history[n]]
        kept(n) == n \in DOMAIN tx'.history
        newer(n) == {m \in DOMAIN tx'.history :
                       /\ m > n
                       /\ all[m].bucket = all[n].bucket /\ Resource(all[m].object) = Resource(all[n].object)
                       /\ settings.trimUsers # {} => all[m].author = all[n].author}
        trims(n) == settings.trimMax > 0 /\ (settings.trimUsers # {} => all[n].author \in settings.trimUsers)
        sweeping == /\ phase = "before"
                    /\ Head(tx.events).resource = "bucket" /\ Head(tx.events).action = "delete"
    IN tx'.history = tx.history \/ \A n \in DOMAIN all :
          /\ ~kept(n) => sweeping \/ (trims(n) /\ Cardinality(newer(n)) >= settings.trimMax)
          /\ kept(n) /\ trims(n) => Cardinality(newer(n)) < settings.trimMax + settings.threshold

\* The history of a resource is bounded, and an entry leaves it only with its
\* bucket, or for trimMax newer ones of the same resource and, when trimming is
\* by user, of the same user (trim_objects()).
HistoryIsTrimmed == [][TrimsOldest]_subscriberVars
=============================================================================
