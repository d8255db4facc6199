------------------------------- MODULE Batch -------------------------------
(***************************************************************************)
(* A batch request (kinto/core/views/batch.py) over collections and their  *)
(* records, with what its subrequests share: the transaction of the        *)
(* request (pyramid_tm, on the PostgreSQL backends), the resource events   *)
(* (kinto/core/events.py), and the collections that were looked up         *)
(* (bound_data, kinto/views/records.py).                                   *)
(*                                                                         *)
(* The subrequests run one after the other.  Then the tween notifies       *)
(* ResourceChanged, within the transaction; its subscriber of              *)
(* kinto/views/collections.py deletes the records of deleted collections.  *)
(* Then the transaction is committed, and its after-commit hook notifies   *)
(* AfterResourceChanged.                                                   *)
(*                                                                         *)
(* A subrequest that ends with a 409 aborts the transaction; the next one  *)
(* begins another, without the hook.                                       *)
(***************************************************************************)
EXTENDS Naturals, Sequences

CONSTANTS
    Collections,
    Records,        \* record ids
    Conflicts,      \* whether a PUT may end with an integrity error
    Touching,       \* whether a subscriber updates the collection of a created
                    \* record, and notifies that (as plugins do)
    MaxRequests     \* bound: the number of subrequests

ASSUME BatchAssumption ==
    /\ Conflicts \in BOOLEAN
    /\ Touching \in BOOLEAN
    /\ MaxRequests \in Nat

VARIABLES
    committed,      \* the objects in the database
    db,             \* the objects as the current transaction sees them
    transaction,    \* the number of the current transaction; the first has the hook
    bound,          \* bound_data["collections"]: the ones known to exist
    changes,        \* history: the changes, in the order they were made
    events,         \* bound_data["resource_events"], in the order of the dict
    level,          \* its cascade_level
    afterwards,     \* the events already drained
    heard,          \* history: the ResourceChanged events
    announced,      \* history: the AfterResourceChanged events
    responses,      \* the responses of the subrequests
    phase,          \* "requests", "before", "commit", "after", "done"
    status          \* the status of the batch, 0 before it is known

vars == <<committed, db, transaction, bound, changes, events, level,
          afterwards, heard, announced, responses, phase, status>>

\* An object is a collection <<c>> or a record <<c, r>>.
Object == {<<c>> : c \in Collections} \cup (Collections \X Records)
Change == [object : Object, action : {"create", "update", "delete"}, transaction : Nat \ {0}]
\* The value of one key of the OrderedDict: the changes, by their numbers.
Event == [level : Nat, resource : Nat, parent : Collections \cup {"bucket"},
          action : {"create", "update", "delete"}, impacted : Seq(Nat)]

SameKey(e, f) == /\ e.level = f.level /\ e.resource = f.resource
                 /\ e.parent = f.parent /\ e.action = f.action

\* A dict has a key once.
Keyed(dict) == \A m, n \in DOMAIN dict : m # n => ~SameKey(dict[m], dict[n])

RecordsOf(c) == {c} \X Records
ParentOf(o) == IF Len(o) = 1 THEN "bucket" ELSE o[1]

TypeOK ==
    /\ committed \subseteq Object
    /\ db \subseteq Object
    /\ transaction \in 1..(MaxRequests + 1)
    /\ bound \subseteq Collections
    /\ changes \in Seq(Change)
    /\ \A log \in {events, afterwards, heard, announced} : log \in Seq(Event)
    /\ Keyed(events) /\ Keyed(afterwards)
    /\ level \in 1..2
    /\ responses \in Seq([object : Object, action : {"create", "update", "delete"},
                          status : {200, 201, 404, 409}])
    /\ phase \in {"requests", "before", "commit", "after", "done"}
    /\ status \in {0, 200, 500, 503}

Init ==
    /\ committed \in SUBSET Object
    /\ \A c \in Collections : <<c>> \notin committed => committed \cap RecordsOf(c) = {}
    /\ db = committed
    /\ transaction = 1
    /\ bound = {}
    /\ changes = <<>>
    /\ events = <<>>
    /\ level = 1
    /\ afterwards = <<>>
    /\ heard = <<>>
    /\ announced = <<>>
    /\ responses = <<>>
    /\ phase = "requests"
    /\ status = 0

-----------------------------------------------------------------------------
(* EventCollector *)

\* Mutant: the impacted objects of the same key are replaced.
AddEventReplacing(log, e) ==
    IF \E n \in DOMAIN log : SameKey(log[n], e)
    THEN [n \in DOMAIN log |-> IF SameKey(log[n], e) THEN e ELSE log[n]]
    ELSE Append(log, e)

\* add_event(): the impacted objects of the same key are extended.
AddEvent(log, e) ==
    IF \E n \in DOMAIN log : SameKey(log[n], e)
    THEN [n \in DOMAIN log |->
             IF SameKey(log[n], e) THEN [log[n] EXCEPT !.impacted = @ \o e.impacted] ELSE log[n]]
    ELSE Append(log, e)

\* Change number n, as an event.
EventOf(n, o, action, lvl) ==
    [level |-> lvl, resource |-> Len(o), parent |-> ParentOf(o), action |-> action,
     impacted |-> <<n>>]

\* postprocess(), notify_resource_event(): the change is made and stacked.
Record(o, action) ==
    /\ changes' = Append(changes, [object |-> o, action |-> action, transaction |-> transaction])
    /\ events' = AddEvent(events, EventOf(Len(changes) + 1, o, action, level))

-----------------------------------------------------------------------------
(* The subrequests *)

Respond(o, action, code) ==
    responses' = Append(responses, [object |-> o, action |-> action, status |-> code])

More == phase = "requests" /\ Len(responses) < MaxRequests

\* Record.__init__: looks the collection up once per batch.
IsLookedUp(o) == Len(o) = 2 /\ o[1] \notin bound
KnowParent(o) == bound' = IF Len(o) = 2 /\ <<o[1]>> \in db THEN bound \cup {o[1]} ELSE bound

\* A record whose collection was not known and does not exist.
NotFoundParent(o, action) ==
    /\ More
    /\ IsLookedUp(o) /\ <<o[1]>> \notin db
    /\ Respond(o, action, 404)
    /\ UNCHANGED <<committed, db, transaction, bound, changes, events, level,
                   afterwards, heard, announced, phase, status>>

\* PUT of a collection or a record.
ActionOfPut(o) == IF o \in db THEN "update" ELSE "create"

Put(o) ==
    /\ More
    /\ IsLookedUp(o) => <<o[1]>> \in db
    /\ KnowParent(o)
    /\ db' = db \cup {o}
    /\ Record(o, ActionOfPut(o))
    /\ Respond(o, ActionOfPut(o), IF o \in db THEN 200 ELSE 201)
    /\ UNCHANGED <<committed, transaction, level, afterwards, heard, announced, phase, status>>

\* DELETE of a collection or a record.
Delete(o) ==
    /\ More
    /\ IsLookedUp(o) => <<o[1]>> \in db
    /\ KnowParent(o)
    /\ IF o \in db
       THEN db' = db \ {o} /\ Record(o, "delete") /\ Respond(o, "delete", 200)
       ELSE Respond(o, "delete", 404) /\ UNCHANGED <<db, changes, events>>
    /\ UNCHANGED <<committed, transaction, level, afterwards, heard, announced, phase, status>>

\* Mutant: the batch goes on in the same transaction.
ConflictIgnored(o) ==
    /\ More
    /\ Conflicts
    /\ IsLookedUp(o) => <<o[1]>> \in db
    /\ KnowParent(o)
    /\ Respond(o, ActionOfPut(o), 409)
    /\ UNCHANGED <<committed, db, transaction, changes, events, level,
                   afterwards, heard, announced, phase, status>>

\* A PUT that violates a constraint of the database (a last_modified that
\* another object of the list has, or an id that someone else creates): 409,
\* and post_batch() calls request.tm.abort().
Conflict(o) ==
    /\ More
    /\ Conflicts
    /\ IsLookedUp(o) => <<o[1]>> \in db
    /\ KnowParent(o)
    /\ db' = committed
    /\ transaction' = transaction + 1
    /\ Respond(o, ActionOfPut(o), 409)
    /\ UNCHANGED <<committed, changes, events, level,
                   afterwards, heard, announced, phase, status>>

\* The request fails: the transaction is aborted, the response is an error.
Abort(code) ==
    /\ db' = committed
    /\ status' = code
    /\ phase' = "done"
    /\ UNCHANGED <<committed, transaction, bound, changes, level, heard, announced, responses>>

\* A subrequest that fails with a BackendError.
Fail == phase = "requests" /\ Abort(503) /\ UNCHANGED <<events, afterwards>>

\* get_resource_events(): drain() begins.
EndRequests ==
    /\ phase = "requests"
    /\ phase' = "before"
    /\ level' = level + 1
    /\ afterwards' = <<>>
    /\ UNCHANGED <<committed, db, transaction, bound, changes, events,
                   heard, announced, responses, status>>

-----------------------------------------------------------------------------
(* The notifications *)

\* The collections that event e says were deleted.
DeletedCollections(e) ==
    IF e.resource = 1 /\ e.action = "delete"
    THEN {changes[e.impacted[n]].object[1] : n \in DOMAIN e.impacted} ELSE {}

\* Mutant: the records of the first deleted collection are deleted only.
CascadeFirst(e) ==
    IF DeletedCollections(e) = {} THEN db
    ELSE db \ RecordsOf(changes[e.impacted[1]].object[1])

\* on_collections_deleted()
Cascade(e) == db \ UNION {RecordsOf(c) : c \in DeletedCollections(e)}

\* The same events are stacked again for AfterResourceChanged, in a collector
\* of their own, whose level is 1.
Flattened(e) == [e EXCEPT !.level = 1]

\* The first event in the dict is popped and notified.  The subscribers are
\* on_collections_deleted, and the one that updates the collection of created
\* records, when it exists.
NotifyBefore ==
    /\ phase = "before" /\ events # <<>>
    /\ LET e == Head(events)
           touched == IF Touching /\ e.resource = 2 /\ e.action = "create"
                         /\ <<e.parent>> \in db
                      THEN {<<e.parent>>} ELSE {}
       IN /\ heard' = Append(heard, e)
          /\ afterwards' = AddEvent(afterwards, Flattened(e))
          /\ db' = Cascade(e)
          /\ IF touched = {}
             THEN events' = Tail(events) /\ UNCHANGED changes
             ELSE \E o \in touched :
                    /\ changes' = Append(changes, [object |-> o, action |-> "update",
                                                   transaction |-> transaction])
                    /\ events' = AddEvent(Tail(events),
                                          EventOf(Len(changes) + 1, o, "update", level))
    /\ UNCHANGED <<committed, transaction, bound, level, announced, responses, phase, status>>

\* A subscriber raises: the tween does not catch it.
Refuse == phase = "before" /\ events # <<>> /\ Abort(500) /\ UNCHANGED <<events, afterwards>>

EndBefore ==
    /\ phase = "before" /\ events = <<>>
    /\ events' = afterwards
    /\ phase' = "commit"
    /\ UNCHANGED <<committed, db, transaction, bound, changes, level,
                   afterwards, heard, announced, responses, status>>

\* The hook is called when the transaction that it was added to is committed.
Commit ==
    /\ phase = "commit"
    /\ committed' = db
    /\ status' = IF status = 0 THEN 200 ELSE status
    /\ phase' = IF transaction = 1 THEN "after" ELSE "done"
    /\ UNCHANGED <<db, transaction, bound, changes, events, level,
                   afterwards, heard, announced, responses>>

FailCommit == phase = "commit" /\ Abort(500) /\ UNCHANGED <<events, afterwards>>

\* _notify_resource_events_after(): the errors of the subscribers are logged.
NotifyAfter ==
    /\ phase = "after"
    /\ IF events = <<>>
       THEN phase' = "done" /\ UNCHANGED <<events, announced>>
       ELSE /\ announced' = Append(announced, Head(events))
            /\ events' = Tail(events)
            /\ UNCHANGED phase
    /\ UNCHANGED <<committed, db, transaction, bound, changes, level,
                   afterwards, heard, responses, status>>

Subrequest ==
    \/ \E o \in Object : Put(o) \/ Delete(o) \/ Conflict(o)
    \/ \E o \in Object, action \in {"create", "delete"} : NotFoundParent(o, action)

Terminated == phase = "done" /\ UNCHANGED vars

Next ==
    \/ Subrequest \/ Fail \/ EndRequests
    \/ NotifyBefore \/ Refuse \/ EndBefore
    \/ Commit \/ FailCommit \/ NotifyAfter
    \/ Terminated

Spec == Init /\ [][Next]_vars

-----------------------------------------------------------------------------
(* Properties *)

Done == phase = "done"
Conflicted == \E n \in DOMAIN responses : responses[n].status = 409

\* Change number i is in an event of the log.
Mentions(log, i) == \E n \in DOMAIN log : \E k \in DOMAIN log[n].impacted : log[n].impacted[k] = i

\* No change is there twice, in one event or in two.
MentionsOnce(log) ==
    \A m, n \in DOMAIN log :
        \A j \in DOMAIN log[m].impacted, k \in DOMAIN log[n].impacted :
            log[m].impacted[j] = log[n].impacted[k] => m = n /\ j = k

AnnouncedOncePerAction ==
    \A m, n \in DOMAIN announced : m # n =>
       <<announced[m].resource, announced[m].parent, announced[m].action>> #
       <<announced[n].resource, announced[n].parent, announced[n].action>>

\* A batch that was committed announces every change exactly once, whatever
\* was merged and whatever the subscribers changed; one that was not announces
\* nothing; and after an abort nothing that was rolled back is announced.
\* AfterResourceChanged is notified once per resource, parent and action.
AnnouncedIsCommitted ==
    /\ AnnouncedOncePerAction
    /\ phase \notin {"after", "done"} \/ status # 200 => announced = <<>>
    /\ Done /\ status = 200 /\ ~Conflicted => \A i \in DOMAIN changes : Mentions(announced, i)
    /\ MentionsOnce(announced)
    /\ \A n \in DOMAIN announced : \A k \in DOMAIN announced[n].impacted :
          LET i == announced[n].impacted[k]
          IN i \in DOMAIN changes /\ changes[i].transaction = transaction

\* The answers about o that no 409 came after.
Answers(o) ==
    {n \in DOMAIN responses : /\ responses[n].object = o
                             /\ \A m \in DOMAIN responses : m >= n => responses[m].status # 409}

\* The last one of them says that o exists; or there is none, and it existed.
Stands(o) ==
    \/ Answers(o) = {} /\ o \in committed
    \/ \E n \in Answers(o) : /\ \A m \in Answers(o) : m <= n
                            /\ responses[n].action # "delete" /\ responses[n].status \in {200, 201}

\* A subrequest has deleted collection c, even when that was rolled back, or
\* the collection is created again.
IsDeleted(c) ==
    \E n \in DOMAIN responses : /\ responses[n].object = <<c>>
                               /\ responses[n].action = "delete" /\ responses[n].status = 200
IsSwept(o) == Len(o) = 2 /\ IsDeleted(o[1])

CommitsAnswers ==
    status # 200 /\ status' = 200 =>
       \A o \in Object : o \in committed' <=> Stands(o) /\ ~IsSwept(o)

\* What a batch commits is what its answers say: an object exists afterwards
\* if and only if the last answer about it that no 409 came after says so, or
\* there is none and it existed, whatever was looked up, rolled back and
\* notified in between.  The records of the collections that it deleted are
\* the exception: none of them is left, whatever the answers say of them.
AnswersAreKept == [][CommitsAnswers]_vars

\* Unless the transaction was aborted, a batch leaves no record without its
\* collection, although bound_data may say that a deleted collection exists.
NoOrphansUnlessConflict ==
    ~Conflicted => \A o \in committed : Len(o) = 2 => <<o[1]>> \in committed
=============================================================================
