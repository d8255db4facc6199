---------------------------- MODULE ChangesFeed ----------------------------
(***************************************************************************)
(* Polling a list for changes: the GET of a plural endpoint                *)
(* (kinto/core/resource/__init__.py, plural_get) and a client that keeps a *)
(* copy of the list with the strategies of docs/tutorials/                 *)
(* synchronisation.rst, while others write to the list.                    *)
(*                                                                         *)
(* A GET is four steps, between which the list changes: the authorization  *)
(* policy (which obtains the ids shared with the user when the user may    *)
(* not read the whole list), Resource.__init__ (which reads the timestamp  *)
(* of the list, the ETag of the response), the conditional headers (which  *)
(* read the timestamp again), and the listing of the page.                 *)
(*                                                                         *)
(* A response may be lost: the client then syncs again from its cursor.    *)
(***************************************************************************)
EXTENDS ObjectList, FiniteSets

CONSTANTS
    Strategies,     \* the ways in which a client may sync
    Whole,          \* whether the user may read the whole list
    PageSize,       \* the _limit of the client
    MaxLost         \* bound: how many responses are lost

ASSUME FeedAssumption ==
    /\ IsFiniteSet(Ids)
    /\ Strategies \subseteq {"oldest_first", "etag", "newest_first", "conditional_pages"}
    /\ Whole \in BOOLEAN
    /\ PageSize \in Nat \ {0}
    /\ MaxLost \in Nat

VARIABLES
    strategy,       \* the way in which the client syncs
    pending,        \* pending[i]: the call that the writer of object i makes next
    shared,         \* the ids that the permission backend shares with the user
    call,           \* the next call of the client's request; "answered" and
                    \* "none" when there is a response, or no request
    query,          \* the querystring and the headers of the request
    ids,            \* shared_ids, all of Ids when it is None
    etag,           \* the timestamp that Resource.__init__ read
    response,
    replica,        \* replica[i]: the last_modified of the client's copy of i
    cursor,         \* the timestamp that the next sync starts from
    start,          \* the ETag of the first response of this sync
    received,       \* what this sync received
    upTo,           \* the client believes that it has all changes up to this
    lost

serverVars == <<call, ids, etag, response>>
clientVars == <<strategy, query, replica, cursor, start, received, upTo, lost>>
writerVars == <<objects, tombstones, timestamp, pending, shared>>
vars == <<writerVars, serverVars, clientVars>>

\* Change i as it is listed: an object, or a tombstone.
Entry(i) == IF objects[i] # Absent THEN objects[i] ELSE tombstones[i]
Change == [id : Ids, stamp : Nat, deleted : BOOLEAN]

Query == [head : BOOLEAN, since : Stamp, before : Stamp, sort : {"asc", "desc"},
          token : Stamp, match : Stamp, noneMatch : Stamp]
Response == [status : {0, 200, 304, 412}, etag : Nat, page : SUBSET Change, next : Stamp]
NoResponse == [status |-> 0, etag |-> 0, page |-> {}, next |-> Absent]

TypeOK ==
    /\ ListTypeOK
    /\ strategy \in Strategies
    /\ pending \in [Ids -> {"none", "grant", "delete"}]
    /\ shared \in SUBSET Ids
    /\ call \in {"none", "permits", "timestamp", "conditions", "list", "answered"}
    /\ query \in Query
    /\ ids \in SUBSET Ids
    /\ etag \in Nat
    /\ response \in Response /\ Cardinality(response.page) <= PageSize
    /\ replica \in [Ids -> Stamp]
    /\ cursor \in Nat
    /\ start \in Nat
    /\ received \subseteq Change
    /\ upTo \in Nat
    /\ lost \in 0..MaxLost

\* The first request of a sync.  With newest first, it is a HEAD.
FirstQuery(how, from) ==
    [head      |-> how = "newest_first",
     since     |-> IF how \in {"oldest_first", "etag"} THEN from ELSE Absent,
     before    |-> Absent,
     sort      |-> IF how = "oldest_first" THEN "asc" ELSE "desc",
     token     |-> Absent,
     match     |-> Absent,
     noneMatch |-> IF how = "etag" /\ from > 0 THEN from ELSE Absent]

Init ==
    /\ ListInit
    /\ strategy \in Strategies
    /\ pending = [i \in Ids |-> "none"]
    /\ shared = {}
    /\ call = "none"
    /\ query = FirstQuery(strategy, 0)
    /\ ids = {}
    /\ etag = 0
    /\ response = NoResponse
    /\ replica = [i \in Ids |-> Absent]
    /\ cursor = 0
    /\ start = 0
    /\ received = {}
    /\ upTo = 0
    /\ lost = 0

-----------------------------------------------------------------------------
(* The writers: model.py, create_object() or update_object(), delete_object() *)

\* The object is stored, its permissions follow.
Write(i) ==
    /\ pending[i] = "none"
    /\ Put(i, timestamp + 1)
    /\ pending' = [pending EXCEPT ![i] = "grant"]
    /\ UNCHANGED <<shared, serverVars, clientVars>>

\* Its permissions, which share it with the user or not.
Grant(i) ==
    /\ pending[i] = "grant"
    /\ shared' \in {shared \cup {i}, shared \ {i}}
    /\ pending' = [pending EXCEPT ![i] = "none"]
    /\ UNCHANGED <<listVars, serverVars, clientVars>>

\* The permissions are deleted, the object follows.
Revoke(i) ==
    /\ pending[i] = "none" /\ objects[i] # Absent
    /\ timestamp < MaxTimestamp
    /\ shared' = shared \ {i}
    /\ pending' = [pending EXCEPT ![i] = "delete"]
    /\ UNCHANGED <<listVars, serverVars, clientVars>>

Delete(i) ==
    /\ pending[i] = "delete"
    /\ timestamp' = timestamp + 1
    /\ DeleteEach({i}, [j \in {i} |-> timestamp + 1], TRUE)
    /\ pending' = [pending EXCEPT ![i] = "none"]
    /\ UNCHANGED <<shared, serverVars, clientVars>>

-----------------------------------------------------------------------------
(* The server: GET (or HEAD) of the list *)

\* AuthorizationPolicy.permits(): the objects shared with the user, unless the
\* user may read them all.  (The user may create objects, so that the list is
\* allowed, and empty, when nothing is shared.)
Permits ==
    /\ call = "permits"
    /\ ids' = IF Whole THEN Ids ELSE shared
    /\ call' = "timestamp"
    /\ UNCHANGED <<writerVars, etag, response, clientVars>>

\* Resource.__init__: "Initialize timestamp as soon as possible."
ReadTimestamp ==
    /\ call = "timestamp"
    /\ IF timestamp = 0 THEN Stamped(1) ELSE UNCHANGED listVars
    /\ etag' = timestamp'
    /\ call' = "conditions"
    /\ UNCHANGED <<pending, shared, ids, response, clientVars>>

Respond(code, stamp, page, next) ==
    /\ response' = [status |-> code, etag |-> stamp, page |-> page, next |-> next]
    /\ call' = "answered"

\* Mutant: the client's timestamp is compared with the ETag.
ConditionsOnETag ==
    /\ call = "conditions"
    /\ IF query.noneMatch = etag
       THEN Respond(304, etag, {}, Absent)
       ELSE IF query.match # Absent /\ etag # query.match
            THEN Respond(412, etag, {}, Absent)
            ELSE call' = "list" /\ UNCHANGED response
    /\ UNCHANGED <<writerVars, ids, etag, clientVars>>

\* _raise_304_if_not_modified() and _raise_412_if_modified(obj={}).
Conditions ==
    /\ call = "conditions"
    /\ IF query.noneMatch = timestamp
       THEN Respond(304, timestamp, {}, Absent)
       ELSE IF query.match # Absent /\ timestamp # query.match
            THEN Respond(412, timestamp, {}, Absent)
            ELSE call' = "list" /\ UNCHANGED response
    /\ UNCHANGED <<writerVars, ids, etag, clientVars>>

\* Mutant: the page after the last object begins with that object.
BeyondOrAt(s) ==
    \/ query.token = Absent
    \/ query.sort = "asc" /\ s >= query.token
    \/ query.sort = "desc" /\ s <= query.token

\* Mutant: the rule is GT whatever the direction of the sort.
BeyondAscending(s) == query.token = Absent \/ s > query.token

\* _build_pagination_rules(): the objects that come after the last one of the
\* page before.
Beyond(s) ==
    \/ query.token = Absent
    \/ query.sort = "asc" /\ s > query.token
    \/ query.sort = "desc" /\ s < query.token

\* Mutant: the tombstones are never listed.
SelectedAlive(i) ==
    /\ i \in ids /\ objects[i] # Absent
    /\ query.since # Absent => Entry(i) > query.since
    /\ query.before # Absent => Entry(i) < query.before
    /\ Beyond(Entry(i))

\* The objects that the filters and the token select.  Tombstones are listed
\* when there is a filter on last_modified.
Selected(i) ==
    /\ i \in ids /\ Entry(i) # Absent
    /\ objects[i] = Absent => query.since # Absent \/ query.before # Absent
    /\ query.since # Absent => Entry(i) > query.since
    /\ query.before # Absent => Entry(i) < query.before
    /\ Beyond(Entry(i))

\* i comes before j in the sort order.
Precedes(i, j) == IF query.sort = "asc" THEN Entry(i) < Entry(j) ELSE Entry(i) > Entry(j)

\* The first objects of S, as many as the page has.
Page(S) == {i \in S : Cardinality({j \in S : Precedes(j, i)}) < PageSize}

\* The listing.  One more object than the page has is listed, to know whether
\* there is a next page: its token has the stamp of the last object of this one.
ListPage ==
    LET S == {i \in Ids : Selected(i)}
        P == IF query.head THEN {} ELSE Page(S)
        next == IF P = S \/ query.head THEN Absent
                ELSE CHOOSE s \in {Entry(i) : i \in P} :
                        \A i \in P : Entry(i) = s \/ \E j \in P : Entry(j) = s /\ Precedes(i, j)
    IN /\ call = "list"
       /\ Respond(200, etag,
                  {[id |-> i, stamp |-> Entry(i), deleted |-> objects[i] = Absent] : i \in P}, next)
       /\ UNCHANGED <<writerVars, ids, etag, clientVars>>

-----------------------------------------------------------------------------
(* The client *)

Ask(q) ==
    /\ query' = q
    /\ call' = "permits"
    /\ response' = NoResponse

Idle == call' = "none" /\ query' = FirstQuery(strategy, 0) /\ response' = NoResponse

\* What the client's copy is after the changes S.
Apply(S) == [i \in Ids |->
    IF \E c \in S : c.id = i
    THEN LET c == CHOOSE c \in S : c.id = i /\ \A d \in S : d.id = i => d.stamp <= c.stamp
         IN IF c.deleted THEN Absent ELSE c.stamp
    ELSE replica[i]]

Latest(from, S) ==
    CHOOSE s \in {from} \cup {c.stamp : c \in S} :
       s >= from /\ \A c \in S : c.stamp <= s

StartSync ==
    /\ call = "none"
    /\ Ask(FirstQuery(strategy, cursor))
    /\ start' = 0 /\ received' = {}
    /\ UNCHANGED <<writerVars, ids, etag, strategy, replica, cursor, upTo, lost>>

\* The next page, with the same parameters.
NextPage == Ask([query EXCEPT !.token = response.next,
                              !.match = IF strategy = "conditional_pages" THEN start'
                                                                          ELSE Absent,
                              !.noneMatch = Absent])

\* Oldest first: every page is stored as it comes, and the cursor is the
\* highest stamp received.
ReceiveOldest ==
    /\ strategy = "oldest_first"
    /\ replica' = Apply(response.page)
    /\ cursor' = Latest(cursor, response.page)
    /\ upTo' = cursor'
    /\ IF response.next = Absent THEN Idle ELSE NextPage
    /\ UNCHANGED <<start, received>>

\* The cursor is the ETag of the first page, once all pages are stored.
ReceiveETag ==
    /\ strategy = "etag"
    /\ start' = IF query.token = Absent THEN response.etag ELSE start
    /\ replica' = Apply(response.page)
    /\ IF response.next = Absent
       THEN cursor' = start' /\ upTo' = start' /\ Idle
       ELSE UNCHANGED <<cursor, upTo>> /\ NextPage
    /\ UNCHANGED received

\* Newest first: the HEAD gives the start, the pages are stacked, and handled
\* when there are no more.
ReceiveNewest ==
    /\ strategy = "newest_first"
    /\ start' = IF query.head THEN response.etag ELSE start
    /\ received' = received \cup response.page
    /\ IF query.head
       THEN /\ Ask([query EXCEPT !.head = FALSE, !.since = cursor, !.before = response.etag])
            /\ UNCHANGED <<replica, cursor, upTo>>
       ELSE IF response.next # Absent
       THEN NextPage /\ UNCHANGED <<replica, cursor, upTo>>
       ELSE /\ Idle
            /\ replica' = Apply(received')
            /\ cursor' = Latest(cursor, received')
            /\ upTo' = start

\* The list is read page after page, on condition that it does not change.
ReceiveConditional ==
    /\ strategy = "conditional_pages"
    /\ start' = IF query.token = Absent THEN response.etag ELSE start
    /\ received' = received \cup response.page
    /\ IF response.next = Absent THEN Idle ELSE NextPage
    /\ UNCHANGED <<replica, cursor, upTo>>

Receive ==
    /\ call = "answered"
    /\ IF response.status = 200
       THEN ReceiveOldest \/ ReceiveETag \/ ReceiveNewest \/ ReceiveConditional
       ELSE Idle /\ UNCHANGED <<replica, cursor, start, received, upTo>>
    /\ UNCHANGED <<writerVars, ids, etag, strategy, lost>>

Lose ==
    /\ call = "answered" /\ lost < MaxLost
    /\ lost' = lost + 1
    /\ Idle
    /\ UNCHANGED <<writerVars, ids, etag, strategy, replica, cursor, start, received, upTo>>

-----------------------------------------------------------------------------
Get == Permits \/ ReadTimestamp \/ Conditions \/ ListPage

Next ==
    \/ \E i \in Ids : Write(i) \/ Grant(i) \/ Revoke(i) \/ Delete(i)
    \/ Get
    \/ StartSync \/ Receive \/ Lose

Spec == Init /\ [][Next]_vars

\* The server answers every request, and the client keeps polling.
FairSpec == Spec /\ WF_vars(Get) /\ WF_vars(StartSync \/ Receive)

-----------------------------------------------------------------------------
(* Properties *)

\* A user who may read the whole list has, at any moment, all changes up to
\* the client's cursor: those that were made between two pages, or between the
\* steps of a GET, are beyond it or in the copy already; and a sync that was
\* interrupted between two pages resumes without missing any.  Newest first, it
\* has those that are earlier than the ETag of the HEAD the last sync began with.
ReplicaIsComplete ==
    \A i \in Ids :
       /\ Entry(i) # Absent
       /\ IF strategy = "newest_first" THEN Entry(i) < upTo ELSE Entry(i) <= upTo
       => replica[i] = objects[i]

\* A 304 is answered only when the client's copy is the list.
NotModifiedIsTrue ==
    [][call = "conditions" /\ response'.status = 304 =>
          \A i \in Ids : replica[i] = objects[i]]_vars

ListsLastPage ==
    /\ strategy = "conditional_pages" /\ query.token # Absent
    /\ ListPage /\ response'.status = 200 /\ response'.next = Absent

\* When a list has been read page after page, the objects that were not changed
\* since the first page was asked for are all there, whatever was created,
\* changed or deleted meanwhile.
UnchangedAreListed ==
    [][ListsLastPage =>
          {i \in Ids : objects[i] # Absent /\ objects[i] <= start} \subseteq
             {c.id : c \in received \cup response'.page}]_vars

\* When the list no longer changes (this model bounds the changes), polling
\* from the cursor makes the client's copy equal to the list, whatever was lost.
Converges ==
    <>[](strategy \in {"oldest_first", "etag"} => \A i \in Ids : replica[i] = objects[i])
=============================================================================
